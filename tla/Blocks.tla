------------------------------- MODULE Blocks -------------------------------
(***************************************************************************)
(* The allocators of MMgc's collector: GCAlloc, one for each size class    *)
(* and kind of object, which carves blocks into items, and GCLargeAlloc,   *)
(* with one object to a block.  A free item is on the free list of its     *)
(* block or on the quick list of its allocator; a block with free items is *)
(* on the free list of its allocator; a block that the collector has       *)
(* passed is swept lazily, when somebody wants its memory.  The pass over  *)
(* finalizable objects runs their destructors, and destructors call back:  *)
(* they allocate and delete while the pass is on its way.                  *)
(*                                                                         *)
(* Marking is the subject of Mark; here the marker ends with some set of   *)
(* marked objects that contains what the program holds.  A list of items,  *)
(* of free blocks or of blocks to sweep is a set, and its head any of its  *)
(* members.  Sizes in bytes are left out: every quick list counts items.   *)
(***************************************************************************)
EXTENDS Integers, Sequences, FiniteSets, SequencesExt

CONSTANTS
  Block,        \* blocks the heap can give
  N,            \* m_itemsPerBlock
  Plain,        \* GCAllocs of objects without destructors
  Finalizing,   \* GCAllocs of finalizable objects
  Float,        \* bibopAllocFloat, if it is among Plain
  Large,        \* GCLargeAlloc
  Instances,    \* [order, blocks, queue]: some allocators in the order in which
                \* GC::Finalize visits them, how many blocks the heap gives, and a
                \* bound on the objects that wait to be marked
  None,
  MaxHeld,      \* bound on the objects the program refers to
  MayClose,     \* the collector may be destroyed
  Cautious      \* destructors respect the limits that MayCreate,
                \* MayCoalesce and MayAllocLarge describe

Small == Plain \cup Finalizing
Allocs == Small \cup {Large}

ASSUME BlocksAssumption ==
  /\ N \in Nat \ {0} /\ MaxHeld \in Nat /\ {MayClose, Cautious} \subseteq BOOLEAN
  /\ Plain \cap Finalizing = {} /\ Large \notin Small
  /\ Float \notin Finalizing \cup {Large}
  /\ None \notin Block /\ Instances \subseteq [order : Seq(Allocs), blocks : Nat, queue : Nat]
  /\ \A x \in Instances :
       /\ IsInjective(x.order)
       /\ \A k \in 1..Len(x.order) : x.order[k] = Large => k = Len(x.order)

VARIABLES
  h,               \* lists, counters and bits of the allocators
  held,            \* objects the program refers to
  destroyed,       \* objects whose memory is still theirs but not their state
  doomed,          \* history: objects unmarked when the pass began
  marking, collecting,
  instance,
  pc,              \* "run", "presweep", "pass", within a destructor "final", "dead"
  closing,         \* the collector is being destroyed
  todo,            \* allocators whose Finalize runs or is to come
  at,              \* the block that is finalized; in GCLargeAlloc, the one before
  next,            \* the block after it, cached; in GCLargeAlloc, the one unlinked
  putOnFreeList    \* the block was on the free list

phase == <<marking, collecting, instance, pc, closing>>
pass == <<todo, at, next, putOnFreeList, doomed>>
vars == <<h, held, destroyed, phase, pass>>

-----------------------------------------------------------------------------
(* Blocks and lists.                                                       *)

Item == Block \X (1..N)
Own(g, a) == Range(g.list[a])
SmallBlocks(g) == UNION {Own(g, a) : a \in Small}
Objects(g) == {i \in Item : i[1] \in SmallBlocks(g) /\ g.bits[i] # "free"}
                \cup (Own(g, Large) \X {1})
Using == Range(instance.order)

\* The block after b on list s, the first one if b is None.
After(s, b) ==
  LET k == IF b = None THEN 1 ELSE (CHOOSE j \in 1..Len(s) : s[j] = b) + 1
  IN IF k > Len(s) THEN None ELSE s[k]

\* The list s without the blocks bs.
Without(s, bs) ==
  LET keep == {j \in 1..Len(s) : s[j] \notin bs}
      Place(j) == Cardinality({i \in keep : i <= j})
  IN [k \in 1..Cardinality(keep) |-> s[CHOOSE j \in keep : Place(j) = k]]

\* UnlinkChunk
Unlink(g, bs) ==
  [g EXCEPT !.list = [a \in Allocs |-> Without(@[a], bs)],
            !.avail = [a \in Small |-> @[a] \ bs]]

\* FreeChunk
FreeChunks(g, bs) ==
  [g EXCEPT !.free = [b \in Block |-> IF b \in bs THEN {} ELSE @[b]],
            !.bits = [i \in Item |-> IF i[1] \in bs THEN "none" ELSE @[i]],
            !.fin = {i \in @ : i[1] \notin bs},
            !.seen = [b \in Block |-> b \notin bs /\ @[b]]]

\* CoalesceQuickList of the allocators A, first part: the items go back to
\* their blocks.
Merge(g, A) ==
  LET back == UNION {g.quick[a] : a \in A}
      free == [b \in Block |-> g.free[b] \cup {i \in 1..N : <<b, i>> \in back}]
  IN [g EXCEPT !.free = free,
        !.avail = [a \in Small |-> @[a] \cup
                     {b \in Own(g, a) : a \in A /\ g.free[b] = {} /\ free[b] # {}}],
        !.quick = [a \in Small |-> IF a \in A THEN {} ELSE @[a]],
        !.budget = [a \in Small |-> IF a \in A THEN N ELSE @[a]],
        !.obtained = [a \in Small |-> IF a \in A THEN N ELSE @[a]]]

\* Blocks of a that are entirely free, from block first of the list of all
\* blocks.
Empty(g, a, first) ==
  {b \in Own(g, a) : /\ first # None /\ b \notin g.sweep[a] /\ g.free[b] = 1..N
                     /\ \E j, k \in 1..Len(g.list[a]) : j <= k
                          /\ g.list[a][j] = first /\ g.list[a][k] = b}

\* CoalesceQuickList.  The search for blocks that are entirely free starts at
\* the head of the free list but follows the list of all blocks.
Coalesce(g, A) ==
  LET merged == Merge(g, A)
      Firsts == {f \in [A -> Block \cup {None}] : \A a \in A :
                   IF merged.avail[a] = {} THEN f[a] = None ELSE f[a] \in merged.avail[a]}
      Freed(bs) == FreeChunks(Unlink(merged, bs), bs)
  IN {Freed(UNION {Empty(merged, a, f[a]) : a \in A}) : f \in Firsts}

\* ObtainQuickListBudget: which lists it flushes, if any, depends on sizes;
\* the floats are never flushed.
Grow(g, a) ==
  UNION {{[x EXCEPT !.budget[a] = @ + N, !.obtained[a] = @ + N] : x \in Coalesce(g, A)} :
           A \in SUBSET ((Small \cap Using) \ {Float})}

\* Sweep of the blocks S.
Sweep(g, S) ==
  LET free == [b \in Block |-> IF b \notin S THEN g.free[b]
                 ELSE {i \in 1..N : i \in g.free[b] \/ g.bits[<<b, i>>] = "none"}]
      empty == {b \in S : free[b] = 1..N}
      swept == [g EXCEPT !.free = free,
        !.avail = [a \in Small |-> @[a] \cup {b \in S \cap g.sweep[a] : free[b] # {}}],
        !.sweep = [a \in Small |-> @[a] \ S],
        !.bits = [i \in Item |-> CASE i[1] \notin S -> @[i]
                                   [] i[1] \in S /\ i[2] \in free[i[1]] -> "free"
                                   [] OTHER -> "none"],
        !.fin = {i \in @ : i[1] \in S => i[2] \notin free[i[1]]}]
  IN FreeChunks(Unlink(swept, empty), empty)

\* GC::SweepNeedsSweeping, after EstablishSweepInvariants.
SweepNeedsSweeping(g) ==
  {Sweep(x, UNION {x.sweep[a] : a \in Small}) : x \in Coalesce(g, Small \cap Using)}

\* GCAlloc::ClearMarks and GCLargeAlloc::ClearMarks, after
\* EstablishSweepInvariants.
ClearMarks(g) ==
  {[x EXCEPT !.bits = [i \in Item |-> IF @[i] \in {"mark", "queued"} THEN "none" ELSE @[i]]] :
     x \in SweepNeedsSweeping(g)}

-----------------------------------------------------------------------------
AllocatorState ==
  [list : [Allocs -> Seq(Block)], avail : [Small -> SUBSET Block],
   sweep : [Small -> SUBSET Block], quick : [Small -> SUBSET Item],
   budget : [Small -> Int], obtained : [Small -> Nat],
   free : [Block -> SUBSET (1..N)], bits : [Item -> {"none", "mark", "queued", "free"}],
   fin : SUBSET Item, seen : [Block -> BOOLEAN],
   passed : SUBSET Allocs, empty : SUBSET Block]

\* What GC::Finalize has left of the allocators s, from some place on.
Remainders(s) == {SubSeq(s, k, Len(s)) : k \in 1..Len(s) + 1}

TypeOK ==
  /\ h \in AllocatorState
  /\ {held, destroyed, doomed} \subseteq SUBSET Item
  /\ {marking, collecting, closing, putOnFreeList} \subseteq BOOLEAN
  /\ instance \in Instances /\ todo \in Remainders(instance.order)
  /\ pc \in {"run", "presweep", "pass", "final", "dead"}
  /\ {at, next} \subseteq Block \cup {None}

Init ==
  /\ h = [list |-> [a \in Allocs |-> <<>>], avail |-> [a \in Small |-> {}],
          sweep |-> [a \in Small |-> {}], quick |-> [a \in Small |-> {}],
          budget |-> [a \in Small |-> N], obtained |-> [a \in Small |-> N],
          free |-> [b \in Block |-> {}], bits |-> [i \in Item |-> "none"],
          fin |-> {}, seen |-> [b \in Block |-> FALSE], passed |-> {}, empty |-> {}]
  /\ held = {} /\ destroyed = {} /\ doomed = {}
  /\ marking = FALSE /\ collecting = FALSE /\ closing = FALSE
  /\ instance \in Instances /\ todo = <<>>
  /\ pc = "run" /\ at = None /\ next = None /\ putOnFreeList = FALSE

\* Destructors and callbacks run the program while the collector waits.
ProgramRuns == pc \in {"run", "presweep", "final"}
CanHold == Cardinality(held) < MaxHeld

\* The allocators become g and the program refers to refs.  An object that
\* is no more is neither destroyed nor anything else.
Become(g, refs, dead) ==
  /\ h' = g
  /\ held' = refs
  /\ destroyed' = dead \cap Objects(g)

-----------------------------------------------------------------------------
(* Allocation.                                                             *)

InUse(g) == SmallBlocks(g) \cup Own(g, Large) \cup g.empty \cup ({at, next} \ {None})

\* The blocks that the heap can give.
Spare(g) == {b \in Block \ InUse(g) : Cardinality(InUse(g)) < instance.blocks}

CreateChunk(g, a) ==
  {[g EXCEPT !.list[a] = Append(@, b), !.avail[a] = @ \cup {b}, !.free[b] = 1..N,
             !.bits = [i \in Item |-> IF i[1] = b THEN "free" ELSE @[i]],
             !.seen[b] = collecting /\ a \in g.passed] :
     b \in Spare(g)}

\* The loop of AllocSlow: sweep one block after another until one has free
\* items, or get a new one.
Provide(g, a) ==
  LET tries == IF g.avail[a] # {} \/ collecting THEN {{}} ELSE SUBSET g.sweep[a]
      Enough(x) == Cardinality(x.avail[a]) = 1
  IN IF g.avail[a] # {} THEN {g}
     ELSE {x \in {Sweep(g, S) : S \in tries} : Enough(x)}
            \cup UNION {CreateChunk(x, a) : x \in
                   {y \in {Sweep(g, S) : S \in tries} :
                      y.avail[a] = {} /\ (collecting \/ y.sweep[a] = {})}}

FillQuickList(g, a, b) ==
  {[x EXCEPT !.quick[a] = {b} \X x.free[b], !.budget[a] = @ - Cardinality(x.free[b]),
             !.free[b] = {}, !.avail[a] = @ \ {b}] :
     x \in IF g.budget[a] < Cardinality(g.free[b]) THEN Grow(g, a) ELSE {g}}

\* Variant of Pop: the item is not given back to the budget.
PopKeepsBudget(g, a, i, bits) ==
  [g EXCEPT !.quick[a] = @ \ {i}, !.bits[i] = bits,
            !.fin = IF a \in Finalizing THEN @ \cup {i} ELSE @ \ {i}]

\* AllocFromQuickList, with the bits the new object gets.
Pop(g, a, i, bits) ==
  [g EXCEPT !.quick[a] = @ \ {i}, !.budget[a] = @ + 1, !.bits[i] = bits,
            !.fin = IF a \in Finalizing THEN @ \cup {i} ELSE @ \ {i}]

\* Variant of NewBits: only a block that was visited makes marked objects.
NewBitsSwapped(g, i) == IF collecting /\ g.seen[i[1]] THEN "mark" ELSE "none"

\* AllocSlow: the mark bit of an object that is born during a collection.
NewBits(g, i) == IF collecting /\ ~g.seen[i[1]] THEN "mark" ELSE "none"

\* A pass over a is to come, or has blocks to visit.
ToCome(a) ==
  \/ pc = "presweep"
  \/ pc = "final" /\ a \in Range(Tail(todo))
  \/ pc = "final" /\ a = Head(todo) /\ next # None

\* What the code leaves to chance.  A chunk that is created while m_finalized
\* is set counts as visited but is not, if there are blocks to visit; and
\* CoalesceQuickList may free the block that FinalizationPass visits next.
MayCreate(g, a) == Cautious /\ a \in h.passed /\ ToCome(a) => Own(g, a) \subseteq Own(h, a)
MayCoalesce(g) == Cautious /\ pc = "final" /\ Head(todo) \in Finalizing
                    => next \in Own(g, Head(todo)) \cup {None}

\* GCAlloc::Alloc with items on the quick list.
AllocFromQuickList(a) ==
  /\ ProgramRuns /\ CanHold
  /\ \E i \in h.quick[a] :
       Become(Pop(h, a, i, "none"), held \cup {i}, destroyed \ {i})
  /\ UNCHANGED <<phase, pass>>

\* GCAlloc::Alloc without: AllocSlow.  While collecting, nothing stays on the
\* quick list.
AllocSlow(a) ==
  /\ ProgramRuns /\ CanHold /\ a \in Using /\ h.quick[a] = {}
  /\ \E x \in Provide(h, a) : \E b \in x.avail[a] : \E y \in FillQuickList(x, a, b) :
     \E i \in y.quick[a] : LET z == Pop(y, a, i, NewBits(y, i)) IN
     \E g \in IF collecting THEN Coalesce(z, {a}) ELSE {z} :
       /\ MayCreate(g, a) /\ MayCoalesce(g)
       /\ Become(g, held \cup {i}, destroyed \ {i})
  /\ UNCHANGED <<phase, pass>>

MayAllocLarge == Cautious /\ pc = "final" /\ Head(todo) = Large => at # None

\* GCLargeAlloc::Alloc: at the front of the list.
AllocLarge ==
  /\ ProgramRuns /\ CanHold /\ Large \in Using /\ MayAllocLarge
  /\ \E b \in Spare(h), finalizable \in BOOLEAN :
       Become([h EXCEPT !.list[Large] = <<b>> \o @,
                 !.bits[<<b, 1>>] = IF collecting /\ Large \notin h.passed THEN "mark" ELSE "none",
                 !.fin = IF finalizable THEN @ \cup {<<b, 1>>} ELSE @],
              held \cup {<<b, 1>>}, destroyed)
  /\ UNCHANGED <<phase, pass>>

-----------------------------------------------------------------------------
(* Freeing.                                                                *)

\* Variant of AbortFree: the object stays finalizable.
AbortFreeStaysFinalizable(g, i) == g

\* GC::AbortFree: the collector has, or will have, a look at the object.
AbortFree(g, i) == [g EXCEPT !.fin = @ \ {i}]

MustAbort(i) == marking /\ (collecting \/ h.bits[i] = "queued")

\* Variant of FreeItem: every item goes on the quick list.
FreeItemQuick(g, a, i) ==
  LET freed == [g EXCEPT !.bits[i] = "free", !.quick[a] = @ \cup {i}, !.budget[a] = @ - 1]
  IN IF freed.budget[a] <= 0 THEN Grow(freed, a) ELSE {freed}

\* GCAlloc::Free without obstacles.  A block to be swept takes the item
\* itself and is swept; other items go on the quick list.
FreeItem(g, a, i) ==
  LET b == i[1]
      freed == [g EXCEPT !.bits[i] = "free"]
      onBlock == [freed EXCEPT !.free[b] = @ \cup {i[2]}]
      onQuick == [freed EXCEPT !.quick[a] = @ \cup {i}, !.budget[a] = @ - 1]
  IN IF b \in g.sweep[a] THEN {Sweep(onBlock, {b})}
     ELSE IF onQuick.budget[a] <= 0 THEN Grow(onQuick, a) ELSE {onQuick}

\* What delete may be applied to: a reference of the program, and in a
\* destructor another dead object that still has its own state.
Deletable ==
  (IF pc = "final" THEN (held \cup doomed) \ destroyed ELSE held) \cap Objects(h)

\* delete, or GC::Free: the destructor, then GCAlloc::Free.
FreeSmall(a) ==
  /\ ProgramRuns
  /\ \E i \in Deletable : i[1] \in Own(h, a)
       /\ \E g \in IF MustAbort(i) THEN {AbortFree(h, i)} ELSE FreeItem(h, a, i) :
            Become(g, held \ {i}, destroyed \cup {i})
  /\ UNCHANGED <<phase, pass>>

FreeLarge ==
  /\ ProgramRuns
  /\ \E i \in Deletable : i[1] \in Own(h, Large)
       /\ Become(IF MustAbort(i) THEN AbortFree(h, i)
                 ELSE FreeChunks(Unlink(h, {i[1]}), {i[1]}),
                 held \ {i}, destroyed \cup {i})
  /\ UNCHANGED <<phase, pass>>

\* The program loses a reference.
Drop ==
  /\ pc = "run"
  /\ \E i \in held : held' = held \ {i}
  /\ UNCHANGED <<h, destroyed, phase, pass>>

-----------------------------------------------------------------------------
(* A collection up to its pass.                                            *)

\* Variant of StartIncrementalMark: the blocks to be swept stay so.
StartIncrementalMarkLazy ==
  /\ pc = "run" /\ ~marking
  /\ marking' = TRUE
  /\ UNCHANGED <<h, held, destroyed, collecting, instance, pc, closing, pass>>

\* StartIncrementalMark, up to the first increment.
StartIncrementalMark ==
  /\ pc = "run" /\ ~marking
  /\ \E g \in SweepNeedsSweeping(h) : Become(g, held, destroyed)
  /\ marking' = TRUE
  /\ UNCHANGED <<collecting, instance, pc, closing, pass>>

\* The marker finds an object.  That it may have marked others before makes
\* no difference to the allocators.
MarkObject ==
  /\ pc = "run" /\ marking
  /\ Cardinality({i \in Item : h.bits[i] = "queued"}) < instance.queue
  /\ \E i \in Objects(h) : h.bits[i] = "none" /\ h' = [h EXCEPT !.bits[i] = "queued"]
  /\ UNCHANGED <<held, destroyed, phase, pass>>

\* GC::Sweep up to the callbacks: FinishIncrementalMark has marked everything
\* that the program refers to, or will go on marking until it has.
BeginSweep ==
  /\ pc = "run" /\ marking
  /\ \E g \in Coalesce(h, Small \cap Using) :
       Become([g EXCEPT !.bits = [i \in Item |->
                 IF i \in Objects(g) /\ (i \in held \/ @[i] = "queued") THEN "mark" ELSE @[i]]],
              held, destroyed)
  /\ collecting' = TRUE /\ pc' = "presweep"
  /\ UNCHANGED <<marking, instance, closing, pass>>

\* ForceSweepAtShutdown: nothing is marked, and everything dies.
ForceSweepAtShutdown ==
  /\ MayClose /\ pc = "run"
  /\ \E x \in ClearMarks(h) : \E g \in Coalesce(x, Small \cap Using) : Become(g, {}, destroyed)
  /\ marking' = TRUE /\ collecting' = TRUE /\ closing' = TRUE /\ pc' = "presweep"
  /\ UNCHANGED <<instance, pass>>

\* GC::Finalize begins.
BeginFinalize ==
  /\ pc = "presweep"
  /\ doomed' = {i \in Objects(h) : h.bits[i] # "mark"}
  /\ pc' = "pass" /\ todo' = instance.order
  /\ UNCHANGED <<h, held, destroyed, marking, collecting, instance, closing,
                 at, next, putOnFreeList>>

-----------------------------------------------------------------------------
(* The pass.                                                               *)

Passing(a) == pc = "pass" /\ todo # <<>> /\ a = Head(todo)
Done == todo' = Tail(todo) /\ at' = None /\ next' = None /\ putOnFreeList' = FALSE

LazySweepPass(a) ==
  /\ Passing(a)
  /\ Become([h EXCEPT !.passed = @ \cup {a}, !.avail[a] = {}, !.sweep[a] = Own(h, a),
               !.seen = [b \in Block |-> b \in Own(h, a) \/ @[b]]],
            held, destroyed)
  /\ Done
  /\ UNCHANGED <<phase, doomed>>

\* The head of the loop of FinalizationPass, at block b.
Visit(g, a, b) ==
  IF b = None
  THEN Become(g, held, destroyed) /\ Done
  ELSE /\ Become([g EXCEPT !.avail[a] = @ \ {b}], held, destroyed)
       /\ at' = b /\ next' = After(g.list[a], b) /\ putOnFreeList' = (b \in g.avail[a])
       /\ UNCHANGED todo

BeginFinalizationPass(a) ==
  /\ Passing(a) /\ a \notin h.passed
  /\ Visit([h EXCEPT !.passed = @ \cup {a}], a, After(h.list[a], None))
  /\ UNCHANGED <<phase, doomed>>

\* Objects of block at that the loop still has to destroy.
Dying == {i \in 1..N : h.bits[<<at, i>>] = "none" /\ <<at, i>> \in h.fin}

FinalizeItem(a) ==
  /\ Passing(a) /\ a \in h.passed
  /\ \E k \in Dying : \A j \in Dying : k <= j
       /\ Become([h EXCEPT !.fin = @ \ {<<at, k>>}], held, destroyed \cup {<<at, k>>})
  /\ pc' = "final"
  /\ UNCHANGED <<marking, collecting, instance, closing, pass>>

\* Variant of Outcome: a block where something survives is not swept.
OutcomeTwo(g, a, b) ==
  LET marked == {i \in 1..N : g.bits[<<b, i>>] = "mark"}
      visited == [g EXCEPT !.seen[b] = TRUE]
      Listed(x) == IF putOnFreeList THEN [x EXCEPT !.avail[a] = @ \cup {b}] ELSE x
  IN IF marked = {} THEN [Unlink(visited, {b}) EXCEPT !.empty = @ \cup {b}]
     ELSE Listed([visited EXCEPT !.bits = [i \in Item |->
                    IF i[1] = b /\ @[i] = "mark" THEN "none" ELSE @[i]]])

\* The three outcomes for a block.
Outcome(g, a, b) ==
  LET marked == {i \in 1..N : g.bits[<<b, i>>] = "mark"}
      visited == [g EXCEPT !.seen[b] = TRUE]
      Listed(x) == IF putOnFreeList THEN [x EXCEPT !.avail[a] = @ \cup {b}] ELSE x
  IN CASE marked = {} -> [Unlink(visited, {b}) EXCEPT !.empty = @ \cup {b}]
       [] marked # {} /\ Cardinality(marked) = N - Cardinality(g.free[b]) ->
            Listed([visited EXCEPT !.bits = [i \in Item |->
                      IF i[1] = b /\ @[i] = "mark" THEN "none" ELSE @[i]]])
       [] OTHER -> [visited EXCEPT !.sweep[a] = @ \cup {b}]

LeaveBlock(a) ==
  /\ Passing(a) /\ a \in h.passed /\ Dying = {}
  /\ Visit(Outcome(h, a, at), a, next)
  /\ UNCHANGED <<phase, doomed>>

\* GCLargeAlloc::Finalize, one turn of its loop.  m_startedFinalize is set
\* while Large is in passed.
FinalizeLarge ==
  LET b == After(h.list[Large], at)
      started == [h EXCEPT !.passed = @ \cup {Large}]
      unlinked == Unlink(started, {b})
  IN /\ Passing(Large)
     /\ \/ /\ b = None
           /\ Become([h EXCEPT !.passed = @ \ {Large}], held, destroyed)
           /\ Done
           /\ UNCHANGED pc
        \/ /\ b # None /\ h.bits[<<b, 1>>] = "mark"
           /\ Become([started EXCEPT !.bits[<<b, 1>>] = "none"], held, destroyed)
           /\ at' = b
           /\ UNCHANGED <<pc, next, todo, putOnFreeList>>
        \/ /\ b # None /\ h.bits[<<b, 1>>] # "mark" /\ <<b, 1>> \notin h.fin
           /\ Become([unlinked EXCEPT !.empty = @ \cup {b}], held, destroyed)
           /\ UNCHANGED <<pc, at, next, todo, putOnFreeList>>
        \/ /\ b # None /\ h.bits[<<b, 1>>] # "mark" /\ <<b, 1>> \in h.fin
           /\ Become(unlinked, held, destroyed)
           /\ pc' = "final" /\ next' = b
           /\ UNCHANGED <<at, todo, putOnFreeList>>
     /\ UNCHANGED <<marking, collecting, instance, closing, doomed>>

\* The destructor returns.
EndFinalizer ==
  /\ pc = "final" /\ pc' = "pass"
  /\ IF Head(todo) = Large
     THEN h' = [h EXCEPT !.empty = @ \cup {next}] /\ next' = None
     ELSE UNCHANGED <<h, next>>
  /\ UNCHANGED <<held, destroyed, marking, collecting, instance, closing,
                 todo, at, putOnFreeList, doomed>>

\* The rest of GC::Finalize and GC::Sweep.  The blocks to be swept are swept
\* at once if the heap is configured so, after a Collect, and at shutdown.
EndSweep ==
  /\ pc = "pass" /\ todo = <<>>
  /\ \E eager \in BOOLEAN :
       LET g == [FreeChunks(h, h.empty) EXCEPT !.empty = {}, !.passed = @ \cap {Float},
                   !.seen = [b \in Block |-> b \in SmallBlocks(h) /\ ~@[b]]]
       IN \E x \in IF eager THEN SweepNeedsSweeping(g) ELSE {g} :
            /\ closing => eager
            /\ Become(x, held, destroyed)
  /\ collecting' = FALSE /\ marking' = FALSE
  /\ pc' = IF closing THEN "dead" ELSE "run"
  /\ doomed' = {}
  /\ UNCHANGED <<instance, closing, todo, at, next, putOnFreeList>>

Next ==
  \/ \E a \in Small : AllocFromQuickList(a) \/ AllocSlow(a) \/ FreeSmall(a)
  \/ AllocLarge \/ FreeLarge \/ Drop
  \/ StartIncrementalMark \/ MarkObject \/ BeginSweep \/ ForceSweepAtShutdown
  \/ BeginFinalize
  \/ \E a \in Plain : LazySweepPass(a)
  \/ \E a \in Finalizing : BeginFinalizationPass(a) \/ FinalizeItem(a) \/ LeaveBlock(a)
  \/ FinalizeLarge \/ EndFinalizer \/ EndSweep

Spec == Init /\ [][Next]_vars

-----------------------------------------------------------------------------
(* Properties.                                                             *)

\* What the program refers to is an object of some allocator, neither freed
\* nor destroyed: also if it was born in the middle of a collection.  (The
\* comments at GC.cpp:3117 and 1187 leave this to the allocators.)
HeldSafe == held \subseteq Objects(h) \ destroyed

\* Each block of g is on one list of blocks.
Listed(g) ==
  /\ \A a, c \in Allocs : a # c => Own(g, a) \cap Own(g, c) = {}
  /\ \A a \in Allocs : IsInjective(g.list[a]) /\ Own(g, a) \cap g.empty = {}

\* Each free item of g is in one place; only the blocks out may have free
\* items without being on a list.
Placed(g, out) ==
  /\ \A a \in Small : \A b \in Own(g, a) : \A i \in 1..N :
       LET onQuick == <<b, i>> \in g.quick[a]
           onBlock == i \in g.free[b]
       IN ~(onQuick /\ onBlock) /\ (g.bits[<<b, i>>] = "free" <=> onQuick \/ onBlock)
  /\ \A a \in Small :
       /\ g.avail[a] \cap g.sweep[a] = {}
       /\ g.avail[a] \cup g.sweep[a] \subseteq Own(g, a)
       /\ g.quick[a] \subseteq (Own(g, a) \ g.sweep[a]) \X (1..N)
       /\ \A b \in g.avail[a] : g.free[b] # {}
       /\ \A b \in Own(g, a) : g.free[b] = {} \/ b \in g.avail[a] \cup g.sweep[a] \cup out

\* Each free item is in one place, the free list of its block or the quick
\* list of its allocator, and has the bits of a free item, which the sweeper
\* and the finalizer rely on; each block is on one list of blocks; the quick
\* list has nothing of a block to be swept, and nothing at all in a pass.
PlacesExact ==
  /\ TypeOK /\ Listed(h) /\ Placed(h, {at})
  /\ pc # "run" => \A a \in Small : h.quick[a] = {}

\* The budget of each allocator of g is what it obtained less what is listed.
Accounted(g) ==
  \A a \in Small :
    /\ g.budget[a] + Cardinality(g.quick[a]) = g.obtained[a]
    /\ g.obtained[a] >= N

Budgeted(g) == Accounted(g) /\ \A a \in Small : g.budget[a] > 0

\* The budget of an allocator is what it obtained less what its quick list
\* holds, and never less than a block when the list is empty: FillQuickList
\* need not ask for more, which might flush the very block it fills from.
BudgetExact == Budgeted(h)

\* While nobody marks, only blocks to be swept have marks; the marker starts
\* with none; and each block is in the state that the next pass takes for
\* not visited.  (The comment at GC.cpp:2002.)
MarksClean ==
  pc = "run" =>
    /\ \A a \in Allocs : \A b \in Own(h, a) : ~h.seen[b]
    /\ \A i \in Item : h.bits[i] \in {"mark", "queued"} =>
         marking \/ \E a \in Small : i[1] \in h.sweep[a]
    /\ marking => \A a \in Small : h.sweep[a] = {}

\* No destructor runs twice: a destroyed object whose memory is not free yet
\* has lost its finalizable bit.
FinalizedOnce == destroyed \cap h.fin = {}

\* What was unmarked when the pass began has been freed when it ends, or is
\* in a block to be swept and has no mark; at shutdown it has been freed.
Reclaimed ==
  [][doomed # {} /\ doomed' = {} =>
       \A i \in doomed \cap Objects(h') :
         ~closing /\ h'.bits[i] = "none" /\ \E a \in Small : i[1] \in h'.sweep[a]]_vars

-----------------------------------------------------------------------------
(***************************************************************************)
(* The inductive invariant, for destructors that respect the limits.  Its  *)
(* parts speak of allocators g, so that the steps between h and h' can be  *)
(* followed one by one.                                                    *)
(***************************************************************************)

\* x comes before y on list s.
Before(s, x, y) == \E j, k \in 1..Len(s) : j < k /\ s[j] = x /\ s[k] = y

AllBlocks(g) == UNION {Own(g, a) : a \in Allocs}
SweepOf(g) == UNION {g.sweep[a] : a \in Small}

\* The blocks of allocator a that the pass has still to visit.
Ahead(g, a) ==
  {b \in Own(g, a) :
     \/ pc = "presweep"
     \/ /\ todo # <<>>
        /\ \/ a \in Range(Tail(todo))
           \/ /\ a = Head(todo)
              /\ \/ at = None
                 \/ a # Large /\ b = at
                 \/ (a = Large \/ next # None) /\ Before(g.list[a], at, b)}

ToVisit(g) == UNION {Ahead(g, a) : a \in Allocs}

\* What is marked is an object, what was visited is a block, large objects
\* are never free, and each block belongs to an allocator in use.
Owned(g) ==
  /\ \A i \in Item : g.bits[i] \in {"mark", "queued"} => i \in Objects(g)
  /\ \A b \in Block : g.seen[b] => b \in SmallBlocks(g) \cup g.empty
  /\ \A b \in Own(g, Large) : g.bits[<<b, 1>>] # "free"
  /\ \A a \in Allocs \ Using : Own(g, a) = {}

Shaped(g, out) == g \in AllocatorState /\ Listed(g) /\ Placed(g, out) /\ Owned(g)

\* While the collector is collecting (c), or marking (m), and has yet to visit
\* the blocks V: a block has been visited if it is not in V, and marks are
\* where they have yet to be looked at, by the pass or by a sweep.
Tinted(g, c, m, V) ==
  /\ \A b \in SmallBlocks(g) : g.seen[b] <=> c /\ b \notin V
  /\ \A i \in Item : g.bits[i] = "mark" => i[1] \in V \cup SweepOf(g)
  /\ \A i \in Item : g.bits[i] = "queued" => m /\ ~c
  /\ m /\ ~c => SweepOf(g) = {}
  /\ V \cap SweepOf(g) = {}

\* What the program refers to, R, survives the visit and the sweep; what is
\* destroyed, D, still has its memory and no finalizer.
Sheltered(g, R, D, V) ==
  /\ R \subseteq Objects(g) \ D
  /\ \A i \in R : i[1] \in V \cup SweepOf(g) => g.bits[i] = "mark"
  /\ D \subseteq Objects(g) /\ D \cap g.fin = {}

PhaseInv ==
  /\ collecting <=> pc \in {"presweep", "pass", "final"}
  /\ collecting => marking
  /\ pc \in {"run", "presweep", "dead"} =>
       todo = <<>> /\ doomed = {} /\ h.empty = {} /\ h.passed \subseteq {Float}
  /\ pc # "run" => \A a \in Small : h.quick[a] = {}
  /\ todo = <<>> => at = None /\ next = None
  /\ pc = "final" => todo # <<>> /\ Head(todo) \in Finalizing \cup {Large}

\* The place of the pass in the blocks of a, an allocator of finalizable
\* objects: next is the block after at.
Between(g, D, a) ==
  /\ at # None <=> a \in g.passed
  /\ at = None => next = None
  /\ at # None =>
       /\ at \in Own(g, a) \ g.avail[a]
       /\ putOnFreeList <=> g.free[at] # {}
  /\ next # None =>
       /\ Before(g.list[a], at, next)
       /\ \A b \in Own(g, a) :
            Before(g.list[a], at, b) => b = next \/ Before(g.list[a], next, b)
  /\ pc = "final" => \E k \in 1..N : <<at, k>> \in D

\* Where the pass is: the allocators that it has finished or begun, and its
\* place on the list of the one at the head of todo.
Cursor(g, D) ==
  /\ pc \in {"pass", "final"} => Using \subseteq g.passed \cup Range(todo) \cup {Large}
  /\ todo # <<>> =>
       /\ \A a \in Range(Tail(todo)) : a \in g.passed => a = Float
       /\ Head(todo) \in Plain => at = None /\ next = None
       /\ Head(todo) \in Finalizing => Between(g, D, Head(todo))
       /\ Head(todo) = Large =>
            /\ at = None \/ at \in Own(g, Large)
            /\ pc = "final" => Large \in g.passed
            /\ IF pc = "final" THEN next \in Block \ (AllBlocks(g) \cup g.empty) ELSE next = None

\* What was unmarked is found, or has left the lists.
Found(g) ==
  \A i \in doomed :
    \/ i \in Objects(g) /\ g.bits[i] = "none" /\ i[1] \in ToVisit(g) \cup SweepOf(g)
    \/ i[1] \in g.empty
    \/ pc = "final" /\ Head(todo) = Large /\ i[1] = next

IInv ==
  /\ TypeOK /\ PhaseInv /\ Shaped(h, {at}) /\ Budgeted(h)
  /\ Tinted(h, collecting, marking, ToVisit(h))
  /\ Sheltered(h, held, destroyed, ToVisit(h))
  /\ Cursor(h, destroyed) /\ Found(h)
=============================================================================
