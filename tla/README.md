# Verification of the Tamarin virtual machine

TLA+ models of the concurrent and reentrant protocols of Tamarin (AVM2, the
ActionScript virtual machine), the TLC configurations that check them, and
proofs of the main properties with TLAPS. Source paths are relative to `src/`.

## 1. Inventory

Tamarin executes ActionScript bytecode. `shell/` or another host creates a
garbage collector (`MMgc/`) and an `AvmCore` (`core/`); methods are interpreted
or compiled through `nanojit/`; `vmbase/` gives the host threads, monitors and
safepoints; `VMPI/` and `AVMPI/` hide the operating system.

| Component | State | Operations | Met by |
|---|---|---|---|
| **Safepoints** (`vmbase/Safepoint*`) | per thread a stack of SafepointRecords with status and safe region; per manager a list of records, a recursive request mutex, `m_requester` | enter, leave, poll, gates around locks, waits and sleeps, requestSafepointTask | all threads of a host, through shared records and the mutex |
| **Threads** (`vmbase/VMThread*`) | `m_state`, `m_joinerQty`, `m_joinMonitor` | start, join, native entry, destructor | clients and the native thread, through the monitor |
| **ZCT and counts** (`MMgc/ZCT*`, `GCObject.h`) | composite word of each RCObject (count, flags, index), the two-level table, the pinning list, free blocks | constructor, destructor, IncrementRef, DecrementRef, Stick, Add, Remove, Reap, StartCollecting, EndCollecting, SignalImminentAbort | mutator, finalizers called back by Reap and Sweep, the collector |
| **Marker, barrier, weak references** (`MMgc/GC.cpp`, `GCStack*`, `WriteBarrier-inlines.h`, `GCWeakRef.h`) | mark, queued and protection bits, the segmented mark and barrier stacks, overflow flag, sentinels of roots, weak reference table | start, increment, finish, barrier hit, overflow recovery, presweep, sweep, explicit free, get and clear weak references, create and destroy roots | mutator stores, allocators, ZCT |
| **Block allocators** (`GCAlloc`, `GCLargeAlloc`) | lists of blocks, of free blocks, of blocks to be swept, quick lists and their budgets, bits, finalize states | alloc, free, lazy sweep, sweep before marking, finalize, sweep at shutdown | marker, heap, and destructors called back by the pass |
| **Heap** (`GCHeap`) | block table, free lists, memory status, callbacks | alloc, free, expand, decommit, status change | all allocators, several collectors and threads under one lock |
| **Fixed allocators** | chunk lists, spin lock | alloc, free | any thread |
| **Policy, page map, hash table, profilers** | counters, tables | pacing queries, lookups | marker and allocators |
| **AVM core** | frames, exception handlers, domains, traits, method environments | parse, verify, execute, throw | host, nanojit |
| **Debugger, sampler** | sample flag and buffers | take sample, presweep | timer thread, collector |
| **nanojit** | LIR buffers, register state, code chunks | assemble, allocate code | core |
| **Shell and platform layers** | none of interest | I/O, system calls | everything |

What is hard, and what makes each component correct:

- *Safepoints*: threads turn unsafe again while the requester walks the list;
  nested entries hide records; leaving may block in a gate on a record about to
  be destroyed; requesters race. Correct means: a task runs alone in its
  manager's context, what it reads of the others' stacks is valid, the list stands
  still, and every request is served.
- *Threads*: the native thread may outrun `start`; wake-ups may be spurious and
  in any order; freeing races with joining. Correct means: nothing uses the
  object once it is freed, joins return after the run and do return, and the
  destructor returns.
- *ZCT*: everything is called back. A decrement may reap, a reap runs
  finalizers, finalizers count, store and allocate; the collector destroys
  objects in the table; an abort leaves in the middle. Correct means: nothing in
  use is destroyed, counts are exact, and flag, index and entry of an object agree.
- *Marker*: the program stores, frees, allocates, reads weak references and
  destroys roots between two increments; items are dropped when no segment can be
  had, and recovered; objects and roots are marked by halves; callbacks store
  behind the marker's back before the sweep. Correct means: nothing that can be
  reached is swept, garbage is, a collection ends.
- *Block allocators*: blocks are swept lazily, one at a time, whenever somebody
  needs memory or deletes; the pass over finalizable objects runs destructors
  that allocate and delete in the blocks before and behind it. Correct means: an
  object in use is never destroyed, also when it is born in the middle of a pass;
  a free item is in exactly one place; no destructor runs twice; garbage goes.
- *Heap*: free lists that neither lose nor repeat a block.

`PROJECT.json` lists the hazards one by one, at the lines where they bite.

## 2. Plan

Order of work, the most important protocol first:

1. `Safepoint`, `SafepointAbs`, `SafepointProofs`: done.
2. `VMThread`, `VMThreadProofs`: done.
3. `ZCT`, `CountingAbs`, `ZCTProofs`: done.
4. `MarkStack`, `Mark`, `CollectorAbs`, `MarkProofs`, `MarkWorkProofs`: done. Next: exactly traced
   roots, and the composition with `ZCT` at the sweep.
5. `Blocks`, `BlocksProofs`, `BlocksPassProofs`: done. Next: `Heap` (`GCHeap` block splitting
   and coalescing, memory status and callbacks), and refused blocks in `Blocks`.
6. `RecordList`: the doubly linked list of safepoint records, pointer by pointer,
   refining the set that `Safepoint` uses. `Hashtable`: `GCHashtable` as an
   algorithm against a map.
7. `CodeAlloc` of nanojit, domains and exception frames of the core, the
   sampler's flag.

## 3. Modules

### Safepoint, SafepointAbs

One step is one critical section or one store that another thread can observe.
A thread's records are `<<t, d>>`, the `d`-th on its stack; `m_current` is its
deepest record, `m_stackPrev` the one below, and a manager's list is the set
of records with that `manager`: it changes only under the request mutex, which
the requester holds while it walks, so the order of the list is immaterial.

- `enter` is `Enter` (region of the previous record), `EnterSafe` (its status,
  after the barrier), `EnterLock` (request mutex and link). `leave` is `Leave`, or
  `LeaveInGate`, `GateSafe`, `LeaveAcquired` if the mutex is taken, then `Unwind`.
- `SafepointGate` is `EnterGate` (region), `GateSafe` (status), the operation inside,
  and `GateExit`. `Poll`, `Sleep`, the lockers of `SCOPE_LOCK_SP` and
  `MonitorLocker::wait` go through it.
- `requestSafepointTask` is `Request` or `RequestInGate` and `RequestAcquired`,
  `Publish`, one `SeeSafe` for each record of the walk, `RunTask`, `FinishTask`,
  `Release`. A task may enter managers and take locks, and block there.
- External: the system's mutexes (`holder`, `owner`) and condition variables.

`SafepointAbs` knows only which threads execute in which context and which run a
task: tasks are serial and alone. `ImplementsAbs` instantiates it with the
threads that are outside of gates and protocol functions.

### VMThread

`state`, `joinerQty` and the monitor's `owner`, and a control point for each
client and for the native thread. A waiter is in the wait set (`joinWait`,
`freeWait`), then in the blocked set (`joinBlocked`, `freeBlocked`), then goes on with
the mutex. `start` holds the mutex over `StartLock`, `Create` (or `CreateFails`) and
`Started`; `startInternal` is `Begin`, `RunReturns`, `Terminate`; `join` and the
destructor are the actions named after them. Clients keep the contract the
code asserts or documents: one start, joins on a started thread, one
destructor, no join begun after it.

### ZCT, CountingAbs

The two-level table is one sequence cut into blocks of `BlockSize`; `topIndex` is
its length; indices are from one. The composite word is `live`, `rc`, `sticky`,
`pinned`, `flagged`, `index`. Each object has one counted `field`; `roots` is what the
stack refers to. `pc` says what runs: the mutator (`run`, `store` in the middle of
`WriteFieldRC`, `add` in the middle of `AddSlow`), Reap (`pop`, `final` within a
finalizer) or the sweep (`sweep`, `sweepFinal`, then `shut` after an abort).

- `New`, `Stick`, `StoreBegin`, `StoreEnd`, `Load`, `Forget` are the mutator.
  `StoreBegin` decrements the old value, and may start a Reap through `Add`.
- `Reap` pins, then `PopEmpty`, `PopPinned` (`PinObject`, with `GrowPinningMemory`) and
  `PopDying` (`ReapObject`) until the table is empty, and `EndReap` puts the pinning
  list in its place. `AddAfterReap` is the rest of an `AddSlow` that reaped.
- Finalizers drop their field, allocate, and store: a `WriteFieldRC` of theirs
  (`FinalizerStoreBegin`, `FinalizerStoreEnd`; `inner` is its container and value) writes
  an object they can get at, or null, to any field of one they can get at, whatever
  it holds: objects they dropped or made (`Reads = "own"`), also what counted
  fields lead to (`"counted"`), or any (`"weak"`). What they do in a sweep is limited to
  dropping, and they store nothing into the dying object itself.
- A finalizer may so store into the very field of the `WriteFieldRC` whose `DecrementRef`
  reaped. That store has counted the old value down already, and overwrites what
  it finds without counting it down: if the finalizer left another object there, its
  count stays too high. `excess` is the history of what finalizers counted for
  that field (`Overrun`), by which `CountExact` is off. For example, the stack refers to `A`,
  `A.f` to `B`, and a dying `D` to `A`; `A.f := null` decrements `B`, whose `Add` reaps `D`;
  the finalizer drops `A` and stores `A.f := A`; then `A.f` becomes null, and the count of
  `A`, to which no field refers any more, stays one. Once the stack forgets `A`, it is
  not in the table to be reaped, and waits for the collector.
- `Sweep`, `SweepFinalize`, `SweepEnd` are the collector, which marks at least what is
  reachable and finalizes the rest in any order; `Abort` is
  `SignalImminentAbort` in a finalizer, followed by the sweep in `~GC`.
- Abstracted: `slowState` only renames the table's variables; several counted
  fields of one object behave as several objects; conservative marking and
  pinning is one extra object at a time; `missed` is a history variable. An index
  past the index field is kept whole, so that what the other properties say of the
  code ends where `IndexFits` fails (`zct_full`); in `zct_net` it never does.

`CountingAbs` is what a program may rely on: objects are allocated, held on the stack,
and stored into objects that are held; from time to time an object the stack does
not lead to is finalized, and then destroyed. The finalizer drops what its object
refers to, allocates, and overwrites fields of other objects, with null or what does not lead
back to its object; an abort abandons
it. It knows no counts, no table and no marks, and does not tell a reap from a sweep, nor does it
promise that all garbage goes. `ImplementsAbs` maps `live`, `field`, `roots` and `dying` to
themselves: counting, adding, pinning, popping and marking are stutters.

### MarkStack, Mark, CollectorAbs

`MarkStack` is `GCMarkStack`, as operators on a record: the items, the base of each
segment, and whether a segment is cached. An item counts one, where the code
counts one to four words. `Mark` has one such stack for `m_incrementalWork` (in the
marker's record `m`, with the bits of the objects, `m_markStackOverflow` and the
root's `markStackSentinel`) and one for `m_barrierWork` (`barrier`). The pure part of
the marker is functions from `m` to `m`, named after the functions of `GC.cpp`: `Trace`,
`MarkParts`, `MarkObject`, `MarkTail`, `MarkTop`, `MarkRoots`, `MarkStackMemory`.

- Memory is cut in parts of one reference. An object or root of more than one part
  is larger than `kMarkItemSplitThreshold`, and each chunk or tail is one item.
  `Shapes` says how many parts each object has, whether it is traced exactly, and
  which references fit into which slot; the program chooses one at the start.
- The program is `Load` and `Forget` (its stack), `BeginStore` (the write barrier)
  and `EndStore` (the store; in between `WriteFieldRC` may reap, so that `Free` may
  happen and increments may not), `StoreRoot`, `Alloc`, `Free`, `ReadWeak`, `DestroyRoot`,
  `CreateRoot`. `Free` does what `GCLargeAlloc::Free` and `AbortFree` do to an object the
  marker still needs: it stays, emptied.
- `StartMark`, `MarkStep` (one item), `ShiftBarrierWork` (`CheckBarrierWork`) are the
  increments. `FinishIncrementalMark` and `Sweep` run with the program stopped: `Finish`,
  `Drain` (`Mark`), `FinalScan` (flush, roots, stack), `BeginSweep`, presweep callbacks,
  `EndPresweep`, `Sweep`; and `Recover`, `Visit`, `EndRecovery` are the loop around
  `HandleMarkStackOverflow` in the three places that have it (`resume`).
- Each action that allocates a segment asks an oracle once (`More`), bounded by
  `MaxSegments`: the heap may refuse at any time, and does when the stacks have that many.
- Abstracted: a sweep is one step, since after `Finalize` nothing can be reached
  whatever order the blocks are swept in; of a weak reference only whether the
  object has one that is not cleared; roots of one part stand for the objects
  the collector itself keeps (`lockedObjects`), and are never destroyed.
- A presweep callback stores what it reads from a weak reference, or a new object.
- `doomed` is history: what nothing reached (`Reachable`) when marking started, less what
  was freed since, and nothing once a weak reference to one of it was read.

`CollectorAbs` is what a host may rely on: references are written, objects are
allocated, and freed when nothing refers to them; a collection takes one step and
leaves a set of objects that is closed under references and holds all the
stack and the roots refer to. It does not promise that all garbage
goes, which is `GarbageCollected`'s business. `ImplementsAbs` maps `live`, `mem` and
`weak` to themselves: all marking is a stutter.

### Blocks

`h` is the record of everything the allocators keep: for each allocator its `list` of
blocks, the blocks with free items (`avail`, `m_firstFree`), the blocks to be swept
(`sweep`, `m_needsSweeping`), the quick list (`quick`), its budget and what was `obtained`;
for each block its free items and whether the pass `seen` it (`finalizeState` equal to
`finalizedValue`); for each item mark and queued bits, "free" for `kFreelist`, and
membership in `fin` for `kFinalizable`; `passed` is the allocators with `m_finalized` or
`m_startedFinalize`, `empty` the blocks on the lists of empty pages. `held` is what the
program refers to, `destroyed` the objects whose destructor ran and whose memory
is not free. The helpers from `Unlink` to `ClearMarks` are functions from `h` to `h`, or to
the set of its possible values, named after the functions of `GCAlloc.cpp`.

- `AllocFromQuickList` and `AllocSlow` (`Provide`: sweep blocks one by one, or create
  one; `FillQuickList`; `NewBits`: the mark of an object born in a collection; and
  during a collection `Coalesce`), `AllocLarge`; `FreeSmall` and `FreeLarge` are
  `delete` with its destructor, which end in `AbortFree` if the marker or the pass
  still needs the object; `Drop` loses a reference.
- `StartIncrementalMark` sweeps what is left of the last collection. `MarkObject` and
  the marks of `BeginSweep` stand for the marker, which `Mark` models: in the end
  all that is held is marked, and perhaps more. `ForceSweepAtShutdown` marks nothing.
- `BeginFinalize` starts the pass, over one allocator after the other (`todo`):
  `LazySweepPass`; or `BeginFinalizationPass`, `FinalizeItem` for each destructor
  and `LeaveBlock` with the three outcomes for a block; or `FinalizeLarge`, one turn
  of the loop. Within a destructor (`pc = "final"`) and in the presweep callbacks
  the program allocates and deletes as it likes. `EndSweep` flips
  `finalizedValue`, gives the empty blocks back, and may sweep at once.
- Abstracted: the heads of free lists, of lists to be swept and of quick lists are
  any of their members; a quick list counts items, and which other lists
  `ObtainQuickListBudget` flushes (`Grow`) is left open, since it depends on byte sizes.

`BlocksAssumption` says of the instances that an allocator is visited once and that
`GCLargeAlloc` comes last, as in `GC::Finalize` (`GC.cpp:1046-1047`). The module ends with
the inductive invariant, whose parts are operators on a record of allocators, so that
the proofs can follow the helpers one after the other within a step.

`Cautious` restricts the destructors in three places where the code
is not correct, so that `blocks_pass` checks all the rest: they do not make the
allocator of a pass that is to come or has blocks left create a block if it has
`m_finalized` set (`MayCreate`; finding 5, and the float allocator, whose flag `GC::Finalize`
never resets, `GC.cpp:1051`); they do not allocate such that coalescing frees the
block that the pass has cached as the next one (`MayCoalesce`, `GCAlloc.cpp:763-773`: the
search for entirely free blocks starts at the head of the free list and follows
the list of all blocks, so that a block before it stays until a later call); and they do
not allocate a large object while nothing that survives precedes the loop of
`GCLargeAlloc::Finalize` (`MayAllocLarge`: the new object is at the front, unmarked, and next
in the loop). Without any one of them TLC finds a held object
destroyed, or a block visited after it was freed.

## 4. Runs

| Run | What it asks | Result |
|---|---|---|
| `safepoint_race` | three threads, one manager, nesting depth 2: `IInv`, `MutatorsStopped`, `SafeRegionsKnown`, `MembershipFrozen`, `ImplementsAbs` | holds, 1.2e5 states |
| `safepoint_nest` | two threads, two managers, one lock: `MutatorsStopped`, `BuriedRecordsSafe`, `RecordsDestroyedUnsafe`, `RequestServed` | holds, 8.3e5 states |
| `thread_join` | three clients: `IInv`, `FreedAfterLastUse`, `JoinReturnsAfterRun`, `RunsWhenRunnable`, `JoinsReturn` | holds |
| `thread_free` | two clients: `DestructorReturns` | **violated**: finding |
| `zct_net` | three objects, blocks of 2, three blocks, sticky and saturated counts, refused blocks, aborts: `IInv`, `NoDangling`, `RemoveFindsWhileRunning`, `TableSound`, `ZeroCountsOnly`, `PinnedSurvive`, `CountExact`, `ImplementsAbs` | holds, 2.7e6 states |
| `zct_weak` | finalizers with weak references: `RemoveFindsObject` | **violated**: finding |
| `zct_counted` | finalizers that follow counted fields: `ZeroCountsOnly` | **violated**: finding |
| `zct_full` | three objects, all pinned, and two blocks: `IndexFits` | **violated**: finding |
| `mark_cycle` | two objects and a root, one of the three in two parts, three segments for both stacks: `IInv`, `NoDangling`, `TriColour`, `QueuedOnStack`, `WorkValid`, `GarbageInv`, `GarbageCollected`, `ImplementsAbs`, `FinishTerminates` | holds, 5.5e5 states |
| `mark_split` | a large object may be freed: `SplitProtected` | **violated**: finding |
| `blocks_pass` | one or two allocators of the three kinds, cautious destructors: `IInv`, `HeldSafe`, `PlacesExact`, `BudgetExact`, `MarksClean`, `FinalizedOnce`, `Reclaimed` | holds, 5.4e5 states |
| `blocks_fresh` | one finalizable allocator, any destructors: `HeldSafe` | **violated**: finding |

Bounds. Three threads are a requester, a second requester and a mutator that
crosses them; two records on a stack are a buried and a current one, and the
protocol looks no further. Two managers are needed for nesting into another
context, and one lock for a lock holder among the waiters. Three clients of a
VMThread are two joiners and a destroyer. Two objects are a dying one and one
it leads to, a third one is kept at the same time; blocks of two entries (one
of them the link, in the pinning list) make every boundary happen with few
objects, `Budget` is one as in the policy manager, and a table of three blocks
holds all three objects when pinned, so that finding 6 does not get in the way of the
other properties; `zct_full` has a block less. `MaxSticky` bounds calls of `Stick`;
`FewStuck` (a constraint of `zct_net`) bounds the objects that are sticky, by a call or by
saturation, or have a count too high, to one at a time, by one, and `FewSpare` the free list to one block. A
`StickyCount` of 3 makes counts saturate when three fields refer to one object,
and leaves a count of 2 to be decremented. `MaxRoots` bounds what the stack refers
to: two objects, so that a third is reached through fields, or pinned conservatively.

Marking: two objects that refer to each other, and in turn a conservative
object, an exact object or the root in two parts, are what every item type
needs; a third object would only be marked like the second. Segments of the
barrier stack hold one item and those of the mark stack three, so that
three segments in all make refused pushes, refused transfers and cached
segments all happen; three is also the least an item processed
from an empty stack may push, which segments of a thousand words give in the
code, and without which no recovery could end. `BarrierThreshold` is 9 in the code
and 1 in the run. `Freeable` is the small object in `mark_cycle` because of
finding 4, and both objects in `mark_split`.

Blocks: two items make blocks that are full, half full and empty, and a block from
which something and not everything goes. Three blocks of one finalizable
allocator are a block behind the pass, the one it is at, and one to come. Pairs of
allocators with two blocks show one pass disturbing another allocator before
or after its own (`Instances`; the order is that of `GC::Finalize`, floats included as
`Float`), budgets flushed across allocators, and blocks that change hands. `MaxHeld`
of two is an old and a new object; more only repeat these. An object on the mark
stack, which may be deleted, or is marked and not held, occurs with one and with two
allocators (`queue` of an instance), but not with three blocks. `MayClose` allows the collector's end.

Deadlock is not checked where the system may stop: `safepoint_nest` (a task of
one manager that enters another manager may wait for that one's task and the
other way round, see the hazards), `VMThread` (the object is freed), `zct_net` with its
aborts (the program ends) and `Blocks` (the collector is destroyed).

Fairness. `Safepoint`: a thread that runs polls, finishes protocol functions,
and a task returns; nothing is assumed of sleepers, lock holders and waiters,
nor of the order in which a mutex admits threads. The requester holds the
request mutex, hence weak fairness is enough. `VMThread`: the Runnable returns, a
thread between two blocking points goes on (weak), and a thread that competes
for the monitor again and again gets it in the end (strong, which a
mutex gives in practice); spurious wake-ups are possible and never promised.
`ZCT` and `Blocks` are sequential, and only their safety is of interest (`Reclaimed` is
an action property: what a pass found dead is gone, or unmarked and to be swept). `Mark`: once
`FinishIncrementalMark` has begun it goes on, on its one thread (`WF_vars(Collector)`);
nothing is assumed of the program or of the heap.

## 5. Findings

1. `VMThread::~VMThread` may sleep for ever: `join` counts itself out without a
   notification (`vmbase/VMThread.cpp:194`).
2. `ZCT::Remove` may clear the entry of another object when a finalizer counts an object
   that Reap has already moved to the pinning list (`MMgc/ZCT-inlines.h:100`).
   The same happens without weak references after an abort in the middle of a
   Reap: the objects already kept have indices of a list that is no longer looked
   at (`ZCT.cpp:226`), as the configuration with `Reads = "own"` and `MayAbort` shows.
3. `AddSlow` adds an object after a Reap without looking at its count, which a
   finalizer may have raised; the object is entered twice later and can be
   destroyed while the stack refers to it (`MMgc/ZCT.cpp:271`). With `NoDangling` in
   the place of `ZeroCountsOnly` the same configuration shows that end.
4. The protection of a split object ends with the first protector that is popped;
   an object that the write barrier queued again while its second half waits can be
   freed under the marker (`MMgc/GC.cpp:2454`).
5. `CreateChunk` takes a block that it makes in the middle of a pass for visited, and links
   it where the pass has yet to come; an object that a destructor allocates there
   is destroyed by the same pass (`MMgc/GCAlloc.cpp:248`).
6. `GrowPinningMemory` looks at no capacity and spends an entry of each block on a link, so
   that a nearly full table of pinned objects becomes a pinning list whose last objects have
   indices beyond the 20 bits of `ZCT_INDEX` (`MMgc/ZCT.cpp:493`).

Findings 2 and 3 need finalizers that do more than drop and store their own references,
or an abort; the run `zct_net` shows that with finalizers that get at only what was
theirs nothing dangles and the table is right. Counts are then exact but for the leak that
section 3 describes: an object a finalizer stored in the field that is being
overwritten keeps a count too high. `GCObject.h:600-605` promises only that nothing in use is
destroyed, and the collector reclaims such objects, so that the leak is part
of `CountExact` and not a finding. The hazards of `PROJECT.json` with a note list three
more places of the same kind as finding 5, which `Cautious` avoids.

## 6. Proofs

`SafepointProofs` proves, for any sets of threads, managers and locks and any
nesting depth (`ConstantsAssumption`), that `Spec` implies always `IInv`, and
from it `TypeOK`, `MutatorsStopped`, `SafeRegionsKnown`, `MembershipFrozen` and the
refinement `ImplementsAbs`. `MutatorsStopped` is not inductive. `IInv` adds: records on
lists are those on stacks (`StackInv`); control points imply what a thread holds
(`PhaseInv`); a thread in its own code has an unsafe record (`RunInv`); a safe record
has a known region, the requester's excepted, which is marked safe with no
region recorded (`RegionInv`); the records the walk has seen are still safe,
because becoming unsafe takes the mutex that the requester holds (`WalkInv`);
and a task runs only after a complete walk (`TaskInv`). Steps are grouped by what
they disturb, and lemmas say what a thread cannot change of another's.

`VMThreadProofs` proves, for any finite set of clients, that `IInv` is invariant:
joiners are counted exactly (`JoinersCounted`, with the cardinality theorems of
the library), the state agrees with the native thread, and nobody uses the
freed object; and from it `FreedAfterLastUse`, `JoinReturnsAfterRun` and `RunsWhenRunnable`.

`BuriedRecordsSafe` and `RecordsDestroyedUnsafe` are proved from a second invariant on
top of `IInv`, `NestInv`: the records below a thread's current one are safe, those above
it are unsafe, and at the step that is about to bury the current one it is safe.

`MarkProofs` proves, for any objects, shapes, segment lengths and heaps
(`MarkAssumption`), that `IInv` of `Mark` is invariant, and from it `NoDangling`, `TriColour`,
`QueuedOnStack` and the refinement of `CollectorAbs`. `NoDangling` is not inductive: that
a sweep reclaims nothing that is referred to follows from the tri-colour
invariant at that moment, which must hold all along. The invariant says: a part of a
marked object refers to marked or queued objects, or an item on the mark stack
still covers that part, or items were dropped and the object is yet to be
visited (`TriColour`); queued objects are on a stack (`QueuedOnStack`); in the middle of a
store the container is not marked (`StoreSound`); a root's sentinel is the position
of its protector (`SentinelSound`); once `FinalScan` is over, roots and stack are
covered in the same sense, and from presweep on the stack refers to marked objects
and the barrier stack is empty (`ScanSound`); nothing is left from one cycle to
the next (`CycleSound`). The proof first treats the stacks (a push, pop, transfer keeps
`WellFormed` and, but for what is dropped, the items), then each function of
the marker as a step that marks and queues more and gives up no cover
unless it raises the overflow flag, then the actions one by one.

`MarkWorkProofs` proves the other direction, that the marker does not take up too much:
`GarbageInv`, `GarbageCollected`, and `WorkValid`. Its lemmas are about a set of memory that is
closed under references and holds what the roots and the stack refer to (`Region`).
A marker whose marks, queue and items are within such a set (`Tame`, and `Fine`
with the barrier stack) stays within it, whatever it pushes, drops, flushes and
recovers (`CollectorFine`). What was not garbage when marking started is such a set,
and the program keeps it closed, since it gets at garbage only through a weak reference
(`GarbageKept`); at the sweep no mark is outside it. What is held is such a set too, but
`Free` and `DestroyRoot` make it smaller, so that `WorkValid` needs to know where items are
(`Ordered`): an object has one item at most, on one of the two stacks, and its queued
bit with it, until presweep callbacks may queue it again; the root has one protector,
at the sentinel, and one item above that. `WorkIsValid` assumes that the program frees
objects of one part only (`SmallFreed`, as the run does); finding 4 refutes it otherwise,
as the heap may refuse a protector.

`ZCTProofs` proves, for any finite set of objects and any sizes of blocks, table,
budget and count (`ConstantsAssumption`), with refused blocks and aborts, that `IInv` of `ZCT`
is invariant if finalizers store only what was theirs (`Reads = "own"`, assumed by each
theorem; with the other two values findings 2 and 3 refute it), and from it `NoDangling`,
`TableSound`, `RemoveFindsWhileRunning`, `CountExact`, `ZeroCountsOnly` and `PinnedSurvive`.
None of these is inductive alone. That reaping an object leaves nobody with a reference
to it needs `CountExact` (its count is zero, hence no field refers to it) and that the
stack's objects are pinned or already in the pinning list (`KeptInv`); that entries in the
table have count zero needs that `Remove` finds the right entry while a Reap
moves them, hence that flags, indices and entries agree in the table and the pinning
list at once (`TableInv`); that the object an `AddSlow` puts in after its Reap still has
count zero and no flag needs that nothing the finalizers get at is that object, which
is why what they hold is tracked (`WaitingInv`, `KeptInv`); that a finalizer's own drops do
not enter the object that is dying needs that no field refers to it (`DyingInv`, with
`CountExact`); that the store which reaped may overwrite its field without counting it down
needs that what it finds there is what it has counted down, null, sticky, or has a
count too high already, whatever finalizers stored there meanwhile (`Overwritten`, with
`InnerInv` for a finalizer's own store); and a sweep leaves nothing dangling since what is marked is closed
under references (`MarkInv`). `PhaseInv` ties these to `pc` and `after`. Lemmas first say what
the table loses and gains (`PoppedTable`, `LinkedEntries`, the products that place a block
boundary) and what `Add`, `IncrementRef` and `DecrementRef` do to counts and flags;
then there is one lemma for each action. `ZCTPinningLimit` says how far a system is from
finding 6: the pinning list holds the objects that are kept, once each, and one link for
each block it has begun (`LinksExact`), so that it outgrows the index field only if it
keeps more objects than `MaxBlocks` blocks, less a link each, have entries for.

`ZCTRefinement` proves that `ZCT` implements `CountingAbs`, again if `Reads = "own"`. Only two kinds of
steps are not immediate from `IInv`: where a finalizer begins, the stack must not lead to
its object (`NotReached`: in a reap no field or root refers to the object at all, by the exact
counts and the pins; in a sweep what is marked is closed under references, holds the
stack and does not contain it), and what the finalizer stores must not lead back to its object
(`OthersClosed`). `CountingPromise` proves of `CountingAbs` alone that whatever the stack leads to,
along any number of fields, exists and is not being finalized (`ReachableExists`, invariant
because memory that is no object refers to nothing, `AbsInv`), and
`ZCTReachableExists` carries that over to `ZCT`.

`BlocksProofs` and `BlocksPassProofs` prove, for any blocks and items per block, any
allocators of the three kinds in any order that `BlocksAssumption` admits, and any
bounds, that `IInv` of `Blocks` is invariant if destructors are cautious (`Cautious`, assumed
by each theorem; otherwise finding 5 and the hazards refute it), and from it `HeldSafe`,
`PlacesExact`, `BudgetExact`, `MarksClean`, `FinalizedOnce` and the action property `Reclaimed`.
`HeldSafe` is far from inductive: whether a destructor's new object survives depends on
whether the pass or a sweep has yet to come to its block, and on the bit that
`NewBits` gives it. The invariant therefore says which blocks the pass has still to
visit (`ToVisit`, from `todo`, `at` and the order of the list) and that

- each block is on one list and each free item in one place, and only objects have
  marks (`Shaped`, which has `PlacesExact`), and budgets are exact (`Budgeted`);
- a block is `seen` if it is not in `ToVisit`; marks are only where a visit or a
  sweep will look at them; no block is both to be visited and to be swept (`Tinted`);
- what is held has a mark wherever a visit or a sweep is to come, and what is
  destroyed has memory and no finalizer bit (`Sheltered`);
- the `next` that the pass has cached is the block after `at` and still on the list,
  and `at` is on no free list (`Cursor`, `Between`): this is what `MayCoalesce` keeps,
  as coalescing might free `next`;
- what was unmarked when the pass began is still unmarked and to be visited or
  swept, or has left the lists (`Found`), which gives `Reclaimed`.

Lemmas first say what lists lose and gain and what comes before what on them, then
what `Unlink`, `FreeChunks`, `Merge`, `Coalesce`, `Grow`, `Sweep`, `FillQuickList` and `FreeItem`
do to each part. The program's steps come twice, since they change the invariant's
parts in different ways: out of a collection in `BlocksProofs`, and within a destructor or a
presweep callback in `BlocksPassProofs`, where each must leave the place of the pass
alone; then come the steps of the pass.

Only model-checked: liveness (`RequestServed`, `JoinsReturn`, `FinishTerminates`), which is
out of reach of the prover, and what the runs that expect a violation refute. Every
invariant, action property and refinement that a passing run checks is a theorem.

## 7. Not modelled, and why

The heap is planned (section 2). Of the allocators, these are left out: blocks that
the heap refuses, with the abort or the null pointer that follows (there, `AllocSlow`
passes a Boolean to a parameter of `CreateChunk` that is a set of flags,
`GCAlloc.cpp:508-509`, so that an allocation that may fail aborts instead), weak
references and `kFlagWeakRefs`, greedy mode, bitmaps, address arithmetic, an abort in
a destructor, and the byte sizes behind budgets. Of the marker, these are left
out: `AbortInProgressMarking` and `ForceSweepAtShutdown`, exactly traced roots and
`StackMemory` roots, collections without stack scan or without increments, the
hash table of weak references and the marking of the `GCWeakRef`s themselves, and
the build option `MMGC_MARKSTACK_ALLOWANCE`. Of the modelled files,
thread names, thread-local storage, atomics and the timed wait's result are left
out, and so are DRC validation, profiling and builds without counting
(`drcEnabled` false), which use no protocol of their own. The policy manager's pacing
is floating-point arithmetic. The core, nanojit and the libraries are sequential
and large; their protocol parts come last. Memory ordering is sequentially
consistent in all models: the barriers in `Safepoint-inlines.h` are there to make
that true for the two stores that matter, and `hasRequest` is a race the
code calls benign, because a missed request is seen at the next poll: `Poll` may
be taken late. Shell, platform layers, vendored code, tests and build files
are outside.
