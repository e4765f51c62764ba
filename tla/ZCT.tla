-------------------------------- MODULE ZCT --------------------------------
(***************************************************************************)
(* Deferred reference counting in MMgc.  RCObjects count the references    *)
(* from fields of heap objects, not those from the program stack; an       *)
(* object whose count is zero is entered into the ZCT, and Reap destroys   *)
(* the ones that the stack does not pin.  A finalizer run by Reap may add  *)
(* more, a full table may reap in the middle of DecrementRef, and a Sweep  *)
(* of the collector destroys objects of the table behind its back.         *)
(*                                                                         *)
(* The two-level table is one sequence, cut into blocks of BlockSize: the  *)
(* index of an entry is its position, topIndex is the length, and the      *)
(* current segment is full when the sequence fills its blocks.  slowState  *)
(* only renames these variables, so that the sequence stands for both.     *)
(***************************************************************************)
EXTENDS Integers, FiniteSets, Sequences

SeqExt == INSTANCE SequencesExt

CONSTANTS
  Obj,             \* memory for RCObjects
  Null,            \* a null pointer, an empty entry
  BlockSize,       \* CAPACITY(RCObject*)
  MaxBlocks,       \* ZCT_CAPACITY, in blocks
  StickyCount,     \* the count at which an object becomes sticky
  MaxSticky,       \* bound: objects that are stuck by a call
  MaxRoots,        \* bound: objects the program stack refers to
  Budget,          \* GCPolicyManager::queryZCTBudget
  AllocMayFail,    \* a block may be refused (kCanFail)
  Reads,           \* what a finalizer stores: what was its "own", what "counted"
                   \* fields lead to, or what "weak" references do
  MayAbort         \* an allocation in a finalizer may abort the program

ASSUME ConstantsAssumption ==
  /\ Null \notin Obj /\ IsFiniteSet(Obj)
  /\ BlockSize \in Nat \ {0, 1} /\ MaxBlocks \in Nat \ {0}
  /\ StickyCount \in Nat \ {0, 1} /\ Budget \in Nat \ {0}
  /\ {MaxSticky, MaxRoots} \subseteq Nat
  /\ Reads \in {"own", "counted", "weak"}
  /\ {AllocMayFail, MayAbort} \subseteq BOOLEAN

VARIABLES
  live,     \* objects whose composite word is not zero
  rc,       \* RefCount of each object
  sticky,   \* objects with STICKYFLAG
  pinned,   \* objects with STACK_PIN
  flagged,  \* objects with ZCTFLAG
  index,    \* ZCT_INDEX of each object
  field,    \* the counted field of each object
  roots,    \* objects the program stack refers to
  table,    \* the entries of the ZCT
  blocks,   \* blocktop - blocktable
  budget,   \* blocks the table may still grow by before a reap
  spare,    \* length of freeList
  pinList,  \* the entries Reap has kept so far
  pc,       \* what is running
  after,    \* where to go on after a Reap or a Sweep
  pending,  \* the object of the AddSlow that called Reap
  store,    \* container and value of the WriteFieldRC in progress
  inner,    \* the same of a finalizer, while that store waits
  dying,    \* the object whose finalizer is running
  held,     \* objects that finalizer still refers to
  marked,   \* objects with kMark while the collector sweeps
  kept,     \* objects found pinned when Reap started
  missed,   \* has a Remove found another entry than its object's?
  excess    \* counts of fields that were overwritten and not counted down

object == <<live, rc, sticky, pinned, flagged, index, field>>
memory == <<table, blocks, budget, spare, pinList>>
control == <<pc, after, pending, store, inner, dying, held, marked, kept>>
vars == <<object, roots, memory, control, missed, excess>>

Entry == Obj \cup {Null}
NoStore == <<Null, Null>>
Capacity == BlockSize * MaxBlocks

TypeOK ==
  /\ {live, sticky, pinned, flagged, roots, held, marked, kept} \subseteq SUBSET Obj
  /\ rc \in [Obj -> 0..StickyCount] /\ index \in [Obj -> Nat]
  /\ field \in [Obj -> Entry]
  /\ table \in Seq(Entry) /\ pinList \in Seq(Entry)
  /\ blocks \in Nat \ {0} /\ budget \in 0..Budget /\ spare \in Nat
  /\ pc \in {"run", "store", "add", "pop", "final", "sweep", "sweepFinal", "shut"}
  /\ after \in {"run", "store", "shut"}
  /\ pending \in Entry /\ dying \in Entry /\ {store, inner} \subseteq Entry \X Entry
  /\ missed \in BOOLEAN /\ excess \in [Obj -> Nat]

Init ==
  /\ live = {} /\ sticky = {} /\ pinned = {} /\ flagged = {}
  /\ rc = [o \in Obj |-> 0] /\ index = [o \in Obj |-> 0]
  /\ field = [o \in Obj |-> Null]
  /\ roots = {}
  /\ table = <<>> /\ blocks = 1 /\ budget = 0 /\ spare = 0 /\ pinList = <<>>
  /\ pc = "run" /\ after = "run" /\ pending = Null /\ store = NoStore
  /\ inner = NoStore /\ dying = Null /\ held = {} /\ marked = {} /\ kept = {}
  /\ missed = FALSE /\ excess = [o \in Obj |-> 0]

-----------------------------------------------------------------------------
\* Helpers.

Reaping  == pc \in {"pop", "final"}
Sweeping == pc \in {"sweep", "sweepFinal"}

Room    == Len(table) < blocks * BlockSize

CanGrow == Len(table) + BlockSize <= Capacity

Closed(S) == \A o \in S : field[o] # Null => field[o] \in S
Reach(S)  == {o \in Obj : \A C \in SUBSET Obj : S \subseteq C /\ Closed(C) => o \in C}

\* PleaseAllocBlock: from the free list, or else from GCHeap, which may refuse.
TakeBlock  == spare' = IF spare > 0 THEN spare - 1 ELSE 0
BlockFails == AllocMayFail /\ spare = 0

-----------------------------------------------------------------------------
\* ZCT::Reap, its first part: pin what the stack and the callbacks pin.

\* Variant of BeginReap: only the callbacks pin.
BeginReapCallbacksOnly(o, next) ==
  \E extra \in {{}} \cup {{x} : x \in live} :
    LET pins == pinned \cup (live \cap extra)
    IN /\ pinned' = pins /\ kept' = pins \cap live
       /\ pc' = "pop" /\ after' = next /\ pending' = o

BeginReap(o, next) ==
  \E extra \in {{}} \cup {{x} : x \in live} :
    LET pins == pinned \cup (live \cap (roots \cup {o} \cup extra))
    IN /\ pinned' = pins /\ kept' = pins \cap live
       /\ pc' = "pop" /\ after' = next /\ pending' = o

\* ZCT::Add and ZCT::AddSlow.

\* Variant of Push: the pin is cleared while Reap runs, too.
PushUnpins(o) ==
  /\ table' = Append(table, o)
  /\ flagged' = flagged \cup {o}
  /\ index' = [index EXCEPT ![o] = Len(table) + 1]
  /\ pinned' = pinned \ {o}

Push(o) ==
  /\ table' = Append(table, o)
  /\ flagged' = flagged \cup {o}
  /\ index' = [index EXCEPT ![o] = Len(table) + 1]
  /\ pinned' = IF Reaping THEN pinned ELSE pinned \ {o}

\* Grow by a block with b blocks of budget left, or give the object up to the
\* collector.
GrowOrDrop(o, b) ==
  \/ /\ CanGrow
     /\ TakeBlock
     /\ blocks' = blocks + 1
     /\ budget' = IF b > 0 THEN b - 1 ELSE 0
     /\ Push(o)
  \/ /\ ~CanGrow \/ BlockFails
     /\ budget' = b
     /\ UNCHANGED <<table, flagged, index, pinned, blocks, spare>>

AddGrow(o) ==
  IF Reaping \/ (budget > 0 /\ CanGrow)
  THEN GrowOrDrop(o, budget)
  ELSE Sweeping /\ GrowOrDrop(o, Budget)

\* Add o and go on at next, after a Reap if the table is full.
Add(o, next) ==
  \/ /\ Sweeping /\ o \notin marked
     /\ pc' = next
     /\ UNCHANGED <<after, pending, kept, table, flagged, index, pinned, blocks,
                    budget, spare>>
  \/ /\ Sweeping => o \in marked
     /\ Room /\ Push(o)
     /\ pc' = next
     /\ UNCHANGED <<after, pending, kept, blocks, budget, spare>>
  \/ /\ Sweeping => o \in marked
     /\ ~Room
     /\ AddGrow(o)
     /\ pc' = next
     /\ UNCHANGED <<after, pending, kept>>
  \/ /\ ~Room /\ ~Reaping /\ ~Sweeping /\ ~(budget > 0 /\ CanGrow)
     /\ BeginReap(o, next)
     /\ UNCHANGED <<table, flagged, index, blocks, budget, spare>>

\* The rest of AddSlow once its Reap is over.
AddAfterReap ==
  /\ pc = "add"
  /\ IF Room
     THEN Push(pending) /\ budget' = Budget /\ UNCHANGED <<blocks, spare>>
     ELSE GrowOrDrop(pending, Budget)
  /\ pc' = after /\ after' = "run" /\ pending' = Null
  /\ UNCHANGED <<live, rc, sticky, field, roots, pinList, store, inner, dying,
                 held, marked, kept, missed, excess>>

\* Variant of Remove: the object keeps its flag.
RemoveKeepsFlag(o) ==
  /\ missed' = (missed \/ index[o] \notin DOMAIN table \/ table[index[o]] # o)
  /\ table' = IF index[o] \in DOMAIN table
              THEN [table EXCEPT ![index[o]] = Null] ELSE table
  /\ UNCHANGED <<flagged, index>>

\* ZCT::Remove.  An index beyond the table is caught by missed as well.
Remove(o) ==
  /\ missed' = (missed \/ index[o] \notin DOMAIN table \/ table[index[o]] # o)
  /\ table' = IF index[o] \in DOMAIN table
              THEN [table EXCEPT ![index[o]] = Null] ELSE table
  /\ flagged' = flagged \ {o}
  /\ index' = [index EXCEPT ![o] = 0]

RemoveIfFlagged(o) ==
  IF o \in flagged THEN Remove(o) ELSE UNCHANGED <<table, flagged, index, missed>>

-----------------------------------------------------------------------------
\* RCObject.

\* Variant of IncrementRef: an object of the table stays there.
IncrementRefKeepsEntry(o) ==
  /\ rc' = IF o \in live \ sticky THEN [rc EXCEPT ![o] = @ + 1] ELSE rc
  /\ sticky' = IF o \in live /\ rc[o] + 1 = StickyCount
               THEN sticky \cup {o} ELSE sticky
  /\ UNCHANGED <<table, flagged, index, missed>>

IncrementRef(o) ==
  IF o \notin live \/ o \in sticky
  THEN UNCHANGED <<rc, sticky, table, flagged, index, missed>>
  ELSE /\ rc' = [rc EXCEPT ![o] = @ + 1]
       /\ IF rc[o] + 1 = StickyCount
          THEN sticky' = sticky \cup {o} /\ UNCHANGED <<table, flagged, index, missed>>
          ELSE RemoveIfFlagged(o) /\ UNCHANGED sticky

\* Variant of DecrementRef: the defensive test is off by one.
DecrementRefDefensive(o, next) ==
  /\ rc' = IF o \in live \ sticky /\ rc[o] > 1 THEN [rc EXCEPT ![o] = @ - 1] ELSE rc
  /\ pc' = next
  /\ UNCHANGED <<after, pending, kept, table, flagged, index, pinned, blocks,
                 budget, spare>>

DecrementRef(o, next) ==
  IF o \notin live \/ o \in sticky \/ rc[o] # 1
  THEN /\ rc' = IF o \in live \ sticky /\ rc[o] > 1
                THEN [rc EXCEPT ![o] = @ - 1] ELSE rc
       /\ pc' = next
       /\ UNCHANGED <<after, pending, kept, table, flagged, index, pinned,
                      blocks, budget, spare>>
  ELSE rc' = [rc EXCEPT ![o] = 0] /\ Add(o, next)

\* ~RCObject, then the memory is given back.
Destroy(o) ==
  /\ live' = live \ {o} /\ sticky' = sticky \ {o} /\ pinned' = pinned \ {o}
  /\ rc' = [rc EXCEPT ![o] = 0] /\ excess' = [excess EXCEPT ![o] = 0]
  /\ RemoveIfFlagged(o)

\* The mutator allocates an object, and holds it on its stack.
New(o) ==
  /\ pc = "run" /\ o \notin live /\ Cardinality(roots) < MaxRoots
  /\ live' = live \cup {o}
  /\ roots' = roots \cup {o}
  /\ Add(o, "run")
  /\ UNCHANGED <<rc, sticky, field, pinList, store, inner, dying, held, marked,
                 missed, excess>>

Load(p) ==
  /\ pc = "run" /\ p \in roots /\ field[p] # Null /\ Cardinality(roots) < MaxRoots
  /\ roots' = roots \cup {field[p]}
  /\ UNCHANGED <<object, memory, control, missed, excess>>

Forget(o) ==
  /\ pc = "run" /\ o \in roots
  /\ roots' = roots \ {o}
  /\ UNCHANGED <<object, memory, control, missed, excess>>

Stick(o) ==
  /\ pc = "run" /\ o \in roots \ sticky /\ Cardinality(sticky) < MaxSticky
  /\ sticky' = sticky \cup {o}
  /\ RemoveIfFlagged(o)
  /\ UNCHANGED <<live, rc, pinned, field, roots, blocks, budget, spare, pinList,
                 control, excess>>

\* GC::WriteFieldRC: the old value is decremented, then the field is written
\* and the new value incremented; a Reap may come between.
StoreBegin(p, v) ==
  /\ pc = "run" /\ p \in roots /\ v \in roots \cup {Null}
  /\ store' = <<p, v>>
  /\ IF field[p] = Null
     THEN pc' = "store" /\ UNCHANGED <<rc, after, pending, kept, table, flagged,
                                      index, pinned, blocks, budget, spare>>
     ELSE DecrementRef(field[p], "store")
  /\ UNCHANGED <<live, sticky, field, roots, pinList, inner, dying, held, marked,
                 missed, excess>>

StoreEnd ==
  /\ pc = "store"
  /\ pc' = "run" /\ store' = NoStore
  /\ field' = [field EXCEPT ![store[1]] = store[2]]
  /\ IF store[2] = Null
     THEN UNCHANGED <<rc, sticky, table, flagged, index, missed>>
     ELSE IncrementRef(store[2])
  /\ UNCHANGED <<live, pinned, roots, blocks, budget, spare, pinList, after,
                 pending, inner, dying, held, marked, kept, excess>>

-----------------------------------------------------------------------------
\* ZCT::Reap.

\* The host, or a policy, reaps.
Reap ==
  /\ pc = "run" /\ table # <<>>
  /\ BeginReap(Null, "run")
  /\ UNCHANGED <<live, rc, sticky, flagged, index, field, roots, memory, store,
                 inner, dying, held, marked, missed, excess>>

\* PopFastSegment, and the pop.
Pop ==
  /\ pc = "pop" /\ table # <<>>
  /\ table' = SeqExt!Front(table)
  /\ IF Len(table) = (blocks - 1) * BlockSize
     THEN blocks' = blocks - 1 /\ spare' = spare + 1
     ELSE UNCHANGED <<blocks, spare>>
  /\ UNCHANGED budget

PopEmpty ==
  /\ Pop /\ SeqExt!Last(table) = Null
  /\ UNCHANGED <<object, roots, pinList, control, missed, excess>>

\* Variant of PopPinned: the entry keeps the index it had in the table.
PopPinnedOldIndex ==
  LET o == SeqExt!Last(table)
      kepts == IF Len(pinList) % BlockSize = 0 THEN Append(pinList, Null) ELSE pinList
  IN /\ pc = "pop" /\ table # <<>> /\ o \in pinned
     /\ table' = SeqExt!Front(table)
     /\ LET popped == Len(table) = (blocks - 1) * BlockSize
            free   == spare + (IF popped THEN 1 ELSE 0)
        IN /\ blocks' = IF popped THEN blocks - 1 ELSE blocks
           /\ \/ /\ pinList' = Append(kepts, o)
                 /\ UNCHANGED index
                 /\ pinned' = pinned \ {o}
                 /\ spare' = IF kepts # pinList /\ free > 0 THEN free - 1 ELSE free
                 /\ UNCHANGED flagged
              \/ /\ kepts # pinList /\ AllocMayFail /\ free = 0
                 /\ flagged' = flagged \ {o}
                 /\ index' = [index EXCEPT ![o] = 0]
                 /\ spare' = free
                 /\ UNCHANGED <<pinList, pinned>>
     /\ UNCHANGED <<live, rc, sticky, field, roots, budget, control, missed, excess>>

\* PinObject: a block of the new table starts with a link, not an entry.
PopPinned ==
  LET o == SeqExt!Last(table)
      kepts == IF Len(pinList) % BlockSize = 0 THEN Append(pinList, Null) ELSE pinList
  IN /\ pc = "pop" /\ table # <<>> /\ o \in pinned
     /\ table' = SeqExt!Front(table)
     /\ LET popped == Len(table) = (blocks - 1) * BlockSize
            free   == spare + (IF popped THEN 1 ELSE 0)
        IN /\ blocks' = IF popped THEN blocks - 1 ELSE blocks
           /\ \/ /\ pinList' = Append(kepts, o)
                 /\ index' = [index EXCEPT ![o] = Len(kepts) + 1]
                 /\ pinned' = pinned \ {o}
                 /\ spare' = IF kepts # pinList /\ free > 0 THEN free - 1 ELSE free
                 /\ UNCHANGED flagged
              \/ /\ kepts # pinList /\ AllocMayFail /\ free = 0
                 /\ flagged' = flagged \ {o}
                 /\ index' = [index EXCEPT ![o] = 0]
                 /\ spare' = free
                 /\ UNCHANGED <<pinList, pinned>>
     /\ UNCHANGED <<live, rc, sticky, field, roots, budget, control, missed, excess>>

\* ReapObject, up to the finalizer.
PopDying ==
  LET o == SeqExt!Last(table)
  IN /\ Pop /\ o \in Obj \ pinned
     /\ flagged' = flagged \ {o}
     /\ index' = [index EXCEPT ![o] = 0]
     /\ pc' = "final" /\ dying' = o
     /\ UNCHANGED <<live, rc, sticky, pinned, field, roots, pinList, after,
                    pending, store, inner, held, marked, kept, missed, excess>>

\* UsePinningMemory: what was kept is the table now.
EndReap ==
  /\ pc = "pop" /\ table = <<>>
  /\ IF pinList = <<>>
     THEN UNCHANGED <<table, blocks, spare>>
     ELSE /\ table' = pinList
          /\ blocks' = (Len(pinList) + BlockSize - 1) \div BlockSize
          /\ spare' = spare + blocks
  /\ pinList' = <<>>
  /\ pc' = IF pending = Null THEN "run" ELSE "add"
  /\ kept' = {}
  /\ UNCHANGED <<object, roots, budget, after, pending, store, inner, dying, held,
                 marked, missed, excess>>

-----------------------------------------------------------------------------
\* Finalizers.  The destructor drops the counted field; what it read from it
\* is still in its hands, and when Reap runs it, it may store and allocate.

\* Objects the running finalizer can get at.
Reachable ==
  (CASE Reads = "own"     -> held
     [] Reads = "counted" -> Reach(held)
     [] Reads = "weak"    -> live) \ {dying}

FinalizerDrop ==
  /\ pc \in {"final", "sweepFinal"} /\ inner = NoStore /\ field[dying] # Null
  /\ DecrementRef(field[dying], pc)
  /\ field' = [field EXCEPT ![dying] = Null]
  /\ held' = IF Reaping THEN held \cup {field[dying]} ELSE held
  /\ UNCHANGED <<live, sticky, roots, pinList, store, inner, dying, marked, missed,
                 excess>>

FinalizerNew(o) ==
  /\ pc = "final" /\ inner = NoStore /\ o \notin live
  /\ live' = live \cup {o}
  /\ held' = held \cup {o}
  /\ Add(o, "final")
  /\ UNCHANGED <<rc, sticky, field, roots, pinList, store, inner, dying, marked,
                 missed, excess>>

\* What a finalizer counts for the field of the store that waits is in excess:
\* that store has counted its old value down, and overwrites what it finds.
Overrun(p) ==
  excess' = IF p = store[1] THEN [o \in Obj |-> excess[o] + rc'[o] - rc[o]] ELSE excess

\* WriteFieldRC again; no Reap comes between its halves, one runs already.
FinalizerStoreBegin(p, v) ==
  /\ pc = "final" /\ inner = NoStore
  /\ p \in Reachable /\ v \in Reachable \cup {Null}
  /\ inner' = <<p, v>>
  /\ IF field[p] = Null
     THEN UNCHANGED <<rc, pc, after, pending, kept, table, flagged, index, pinned,
                      blocks, budget, spare, excess>>
     ELSE DecrementRef(field[p], pc) /\ Overrun(p)
  /\ UNCHANGED <<live, sticky, field, roots, pinList, store, dying, held, marked,
                 missed>>

FinalizerStoreEnd ==
  /\ inner # NoStore
  /\ inner' = NoStore
  /\ field' = [field EXCEPT ![inner[1]] = inner[2]]
  /\ IF inner[2] = Null
     THEN UNCHANGED <<rc, sticky, table, flagged, index, missed, excess>>
     ELSE IncrementRef(inner[2]) /\ Overrun(inner[1])
  /\ UNCHANGED <<live, pinned, roots, blocks, budget, spare, pinList, pc, after,
                 pending, store, dying, held, marked, kept>>

FinalizerEnd ==
  /\ pc \in {"final", "sweepFinal"} /\ inner = NoStore /\ field[dying] = Null
  /\ Destroy(dying)
  /\ pc' = IF Reaping THEN "pop" ELSE "sweep"
  /\ dying' = Null /\ held' = {}
  /\ UNCHANGED <<field, roots, blocks, budget, spare, pinList, after, pending,
                 store, inner, marked, kept>>

-----------------------------------------------------------------------------
\* The collector.

\* Variant of Sweep: what only the stack refers to is not marked.
SweepFieldsOnly ==
  /\ pc = "run"
  /\ \E S \in SUBSET live : Closed(S) /\ marked' = S
  /\ pc' = "sweep" /\ after' = "run"
  /\ spare' = 0
  /\ UNCHANGED <<object, roots, table, blocks, budget, pinList, pending, store,
                 inner, dying, held, kept, missed, excess>>

\* FinishIncrementalMark prunes the free list, then Sweep starts with at least
\* all that is reachable marked.
Sweep ==
  /\ pc = "run"
  /\ \E S \in SUBSET live : roots \subseteq S /\ Closed(S) /\ marked' = S
  /\ pc' = "sweep" /\ after' = "run"
  /\ spare' = 0
  /\ UNCHANGED <<object, roots, table, blocks, budget, pinList, pending, store,
                 inner, dying, held, kept, missed, excess>>

\* Finalizers of unmarked objects run in any order.
SweepFinalize(o) ==
  /\ pc = "sweep" /\ o \in live \ marked
  /\ pc' = "sweepFinal" /\ dying' = o
  /\ UNCHANGED <<object, roots, memory, after, pending, store, inner, held, marked,
                 kept, missed, excess>>

SweepEnd ==
  /\ pc = "sweep" /\ live \subseteq marked
  /\ pc' = after /\ marked' = {}
  /\ UNCHANGED <<object, roots, memory, after, pending, store, inner, dying, held,
                 kept, missed, excess>>

\* A finalizer runs out of memory: SignalImminentAbort, a jump out of the
\* collector, and the sweep of everything in ~GC.
Abort ==
  /\ MayAbort /\ pc \in {"final", "sweepFinal"} /\ inner = NoStore
  /\ after # "shut"
  /\ pinList' = IF Sweeping THEN <<>> ELSE pinList
  /\ pc' = "sweep" /\ after' = "shut" /\ marked' = {}
  /\ roots' = {} /\ pending' = Null /\ store' = NoStore /\ dying' = Null
  /\ held' = {} /\ kept' = {}
  /\ UNCHANGED <<object, table, blocks, budget, spare, inner, missed, excess>>

-----------------------------------------------------------------------------
Next ==
  \/ \E o \in Obj : New(o) \/ Load(o) \/ Forget(o) \/ Stick(o)
                    \/ FinalizerNew(o) \/ SweepFinalize(o)
  \/ \E p \in Obj : \E v \in Entry : StoreBegin(p, v) \/ FinalizerStoreBegin(p, v)
  \/ StoreEnd \/ FinalizerStoreEnd \/ AddAfterReap
  \/ Reap \/ PopEmpty \/ PopPinned \/ PopDying \/ EndReap
  \/ FinalizerDrop \/ FinalizerEnd
  \/ Sweep \/ SweepEnd \/ Abort

Spec == Init /\ [][Next]_vars

-----------------------------------------------------------------------------
(***************************************************************************)
(* Properties.                                                             *)
(***************************************************************************)

\* ZCT-inlines.h:99-100: the object to be removed is the one its index finds,
\* even when a Reap has moved it, a finalizer counts it, or an abort cut the
\* Reap short.
RemoveFindsObject == ~missed

\* The same, up to the sweep that follows an abort.
RemoveFindsWhileRunning == after # "shut" => ~missed

\* ZCT.cpp:68-71, GCObject.h:595-597: what is in the table has count zero,
\* although finalizers run between a DecrementRef and the Add of the object it
\* left at zero.
ZeroCountsOnly == after # "shut" => \A o \in flagged \ sticky : rc[o] = 0

\* GCObject.h:600-605: whatever is reaped or swept, when and in the middle of
\* what, an object the stack or a counted field of a living object refers to is
\* alive; during a sweep unmarked objects may refer to destroyed ones.
NoDangling ==
  /\ roots \subseteq live
  /\ \A o \in live :
       field[o] # Null =>
         field[o] \in live \/ (Sweeping /\ {o, field[o]} \cap marked = {})

\* ZCT.cpp:58-61, 94-97 and 437-443: outside Reap, flags, indices and entries agree and
\* nothing in the table is pinned; no block is held past the current segment; and
\* neither sticky nor destroyed objects are entered.  TypeOK, too.
TableSound ==
  /\ TypeOK
  /\ ~Reaping /\ after # "shut" =>
       /\ \A o \in flagged :
            index[o] \in DOMAIN table /\ table[index[o]] = o /\ o \notin pinned
       /\ \A i \in DOMAIN table :
            table[i] # Null => table[i] \in flagged /\ index[table[i]] = i
       /\ pinList = <<>>
  /\ (blocks - 1) * BlockSize <= Len(table) /\ Len(table) <= blocks * BlockSize
  /\ flagged \subseteq live \ sticky

\* GCObject.h:923-925: an index fits in the ZCT_INDEX field.  CanGrow checks for
\* it; GrowPinningMemory, which spends an entry of each block on a link, does not.
IndexFits == \A o \in flagged : index[o] <= Capacity

\* ZCT.cpp:614-617: what was pinned when Reap started is alive when it ends,
\* although entries are unpinned one by one while finalizers go on.
PinnedSurvive == Reaping => kept \subseteq live

\* GCObject.h:595-598: until an abort cuts a store short, the count of an object
\* that is not sticky is the number of counted fields that refer to it, those
\* being stored to excepted, and too high just by what finalizers of a Reap
\* stored in the field of the store that reaped (WriteBarrier-inlines.h:90-98).
CountExact ==
  after # "shut" => \A o \in live \ sticky :
    rc[o] = Cardinality({p \in live : field[p] = o /\ p \notin {store[1], inner[1]}})
            + excess[o]

-----------------------------------------------------------------------------
(***************************************************************************)
(* The inductive invariant, for finalizers that store what was theirs.     *)
(***************************************************************************)

Entries(s) == {s[i] : i \in DOMAIN s} \ {Null}

\* What is entered in s has its flag, and the index at which s has it.
Entered(s) ==
  \A i \in DOMAIN s : s[i] # Null => s[i] \in flagged /\ index[s[i]] = i

FoundIn(s, o) == index[o] \in DOMAIN s /\ s[index[o]] = o

\* The composite word of memory that is no object is zero.
DeadInv ==
  /\ \A o \in Obj \ live :
       /\ rc[o] = 0 /\ excess[o] = 0 /\ field[o] = Null
       /\ o \notin sticky \cup pinned \cup flagged
  /\ roots \cup held \cup marked \cup kept \subseteq live
  /\ flagged \subseteq live \ sticky

CountInv ==
  /\ CountExact /\ ZeroCountsOnly
  /\ \A o \in Obj \ sticky : rc[o] < StickyCount

\* What the store that waits will overwrite is what it has counted down, or its
\* count is too high already.
Overwritten ==
  LET w == field[store[1]]
  IN w \in {Null, pending} \cup sticky \/ excess[w] > 0 \/ inner[1] = store[1]

\* The object of an AddSlow that reaps, and the container it is stored to.
WaitingInv ==
  /\ pending # Null =>
       pending \in live \ (flagged \cup sticky \cup held \cup {dying}) /\ rc[pending] = 0
  /\ store # NoStore => store[1] \in roots /\ store[2] \in roots \cup {Null}
  /\ after = "store" => store # NoStore /\ pending # Null /\ Overwritten

\* The store of a finalizer.
InnerInv ==
  inner # NoStore =>
    /\ pc = "final" /\ field[inner[1]] # dying
    /\ inner[1] \in held \ {dying} /\ inner[2] \in (held \ {dying}) \cup {Null}

PhaseInv ==
  /\ pc \in {"run", "store", "sweep", "sweepFinal"} => after \in {"run", "shut"} /\ pending = Null
  /\ pc \notin {"sweep", "sweepFinal", "shut"} => after # "shut"
  /\ pc = "add" => pending # Null
  /\ store # NoStore => pc = "store" \/ after = "store"
  /\ pc = "store" => store # NoStore
  /\ pc # "final" => held = {}
  /\ ~Reaping => kept = {}
  /\ ~Sweeping => marked = {}
  /\ after = "shut" => roots = {} /\ marked = {}
  /\ pc = "shut" => after = "shut" /\ live = {}

\* The object whose finalizer runs.
DyingInv ==
  /\ IF pc \in {"final", "sweepFinal"} THEN dying \in live ELSE dying = Null
  /\ pc = "final" => dying \notin flagged \cup sticky \cup held \cup kept /\ rc[dying] = 0
  /\ pc = "sweepFinal" => dying \notin marked

\* Flags, indices and entries agree; during a Reap, in two lists.
TableInv ==
  /\ (blocks - 1) * BlockSize <= Len(table) /\ Len(table) <= blocks * BlockSize
  /\ after # "shut" =>
       /\ Entered(table) /\ Entered(pinList)
       /\ \A o \in flagged : FoundIn(table, o) \/ FoundIn(pinList, o)
       /\ Entries(table) \cap Entries(pinList) = {}
       /\ pinned \cap Entries(pinList) = {}
       /\ ~Reaping => pinList = <<>> /\ pinned \cap flagged = {}

\* What Reap found pinned is pinned still, or in the pinning list; the stack
\* pins, and a finalizer gets at nothing that has been kept already.
KeptInv ==
  /\ Reaping => roots \ {pending} \subseteq kept /\ kept \subseteq pinned \cup Entries(pinList)
  /\ held \cap Entries(pinList) = {}

MarkInv == Sweeping /\ after # "shut" => roots \subseteq marked /\ Closed(marked)

IInv ==
  /\ TypeOK /\ DeadInv /\ CountInv /\ WaitingInv /\ InnerInv /\ PhaseInv
  /\ DyingInv /\ TableInv /\ KeptInv /\ MarkInv /\ NoDangling /\ RemoveFindsWhileRunning

\* The pinning list holds what was kept and a link for each of its blocks, and
\* the last link is followed by an object.
LinksExact ==
  \E q \in 0..Len(pinList) :
    /\ Len(pinList) = Cardinality(Entries(pinList)) + q /\ Len(pinList) <= q * BlockSize
    /\ q > 0 => (q - 1) * BlockSize + 2 <= Len(pinList)

\* A pinning list that outgrows the table's capacity keeps more objects than
\* MaxBlocks blocks, less a link each, have entries for.
PinningLimit ==
  Len(pinList) > Capacity => Cardinality(Entries(pinList)) > MaxBlocks * (BlockSize - 1)

\* GCObject.h:595-605: counts, the ZCT, Reap, the sweeps and the abort amount to
\* finalizing and destroying, one at a time, objects the stack does not lead to.
Abs == INSTANCE CountingAbs
ImplementsAbs == Abs!AbsSpec
=============================================================================
