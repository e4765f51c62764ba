-------------------------------- MODULE Mark --------------------------------
(***************************************************************************)
(* The incremental marker of MMgc (GC.cpp), its write barrier, and the     *)
(* sweep as the program sees it.  The program changes the heap between two *)
(* increments; a store into a marked object queues the object again on the *)
(* barrier stack; a full mark stack drops items and sets a flag, and       *)
(* FinishIncrementalMark, which scans the roots and the stack, recovers    *)
(* from that before anything is swept.                                     *)
(*                                                                         *)
(* Memory is cut into parts of one reference: an object or a root of more  *)
(* than one part is larger than kMarkItemSplitThreshold, and is marked     *)
(* part by part.  The allocators are the subject of Blocks: here an        *)
(* unmarked object is reclaimed when Sweep starts.                         *)
(***************************************************************************)
EXTENDS MarkStack, FiniteSets

CONSTANTS
  Obj,               \* memory for objects
  Root,              \* memory registered with a GCRoot
  Stack,             \* the program stack
  Null,
  Slot,              \* 1..n, n the parts of the largest object
  Shapes,            \* the heaps the program may use, see TypeOK
  Freeable,          \* objects the program frees explicitly
  SegSize,           \* items in a segment of the mark stack
  BarrierSegSize,    \* and of the barrier stack
  BarrierThreshold,  \* inactive segments that CheckBarrierWork waits for
  MaxSegments        \* bound: segments the heap gives to both stacks

ASSUME MarkAssumption ==
  /\ Root \notin Obj /\ Stack \notin Obj /\ Root # Stack
  /\ Null \notin Obj \cup {Root, Stack}
  /\ 1 \in Slot /\ Slot \subseteq Nat \ {0} /\ \A k \in Slot : 1..k \subseteq Slot
  /\ \A s \in Shapes :
       /\ \A b \in Obj \cup {Root, Stack} : s.parts[b] \in {0} \cup Slot
       /\ s.parts[Root] # 0 /\ \A k \in Slot : k <= s.parts[Stack]
  /\ {SegSize, BarrierSegSize, BarrierThreshold} \subseteq Nat \ {0}
  /\ BarrierSegSize <= SegSize

VARIABLES
  shape,    \* parts of each object, the exactly traced ones, and what fits
            \* the type of each slot: chosen once, by the program
  live,     \* objects that are allocated; Root while its GCRoot exists
  mem,      \* the references in memory
  weak,     \* objects with a weak reference that is not cleared
  store,    \* container, slot and value of the store in progress
  marking,  \* GC::marking
  m,        \* the marker: mark stack, kMark, kQueued and kProtected bits,
            \* m_markStackOverflow, and markStackSentinel of the root
  barrier,  \* m_barrierWork
  pc,       \* "run" is the program, the rest FinishIncrementalMark and Sweep
  resume,   \* where HandleMarkStackOverflow returns to
  todo,     \* objects HandleMarkStackOverflow has not visited
  doomed    \* history: objects that were garbage when marking started

program == <<shape, live, mem, weak, store>>
vars == <<program, marking, m, barrier, pc, resume, todo, doomed>>

Memory == Obj \cup {Root, Stack}
Cleared == [k \in Slot |-> Null]
Held == live \cup {Stack}
NoStore == <<Null, 1, Null>>
Objects == live \cap Obj
Parts(b) == shape.parts[b]
RefersTo(o) == {b \in Held : \E k \in Slot : mem[b][k] = o}

\* Part k of b, and the parts after it, are to be scanned by an item of a
\* type in Scan.
Scan == {"tail", "chunk", "rootchunk", "stack"}
Item == [t : {"object", "tail", "chunk", "objprot"}, b : Obj, k : Slot]
        \cup [t : {"rootchunk", "rootprot"}, b : {Root}, k : Slot]
        \cup [t : {"stack"}, b : {Stack}, k : Slot]
        \cup {Dead}
Work(t, b, k) == [t |-> t, b |-> b, k |-> k]

SegmentedStack == [items : Seq(Item), base : Seq(Nat), extra : BOOLEAN]
Marker == [work : SegmentedStack, mark : SUBSET Obj, queued : SUBSET Obj,
           prot : SUBSET Obj, overflow : BOOLEAN, sentinel : Nat]

TypeOK ==
  /\ shape \in Shapes
  /\ live \subseteq Obj \cup {Root} /\ {weak, todo, doomed} \subseteq SUBSET Obj
  /\ mem \in [Memory -> [Slot -> Obj \cup {Null}]]
  /\ store \in (Obj \cup {Null}) \X Slot \X (Obj \cup {Null})
  /\ marking \in BOOLEAN
  /\ m \in Marker /\ WellFormed(m.work, SegSize)
  /\ barrier \in SegmentedStack /\ WellFormed(barrier, BarrierSegSize)
  /\ pc \in {"run", "drain", "rescan", "presweep", "resweep", "recover"}
  /\ resume \in {"drain", "rescan", "resweep"}

Init ==
  /\ shape \in Shapes
  /\ live = {Root}
  /\ mem = [b \in Memory |-> Cleared]
  /\ weak = {} /\ store = NoStore /\ marking = FALSE
  /\ m = [work |-> EmptyStack, mark |-> {}, queued |-> {}, prot |-> {},
          overflow |-> FALSE, sentinel |-> 0]
  /\ barrier = EmptyStack
  /\ pc = "run" /\ resume = "drain" /\ todo = {} /\ doomed = {}

\* AllocStackSegment may be refused, and is when the stacks have enough.
More ==
  IF Len(m.work.base) + Len(barrier.base) < MaxSegments THEN BOOLEAN ELSE {FALSE}

-----------------------------------------------------------------------------
(* The marker, as functions of its state g.  "more" tells whether the heap  *)
(* gives the segments it is asked for.                                      *)

\* Push_StackMemory and its like: an item that does not fit is dropped.
PushItem(g, x, more) ==
  IF CanPush(g.work, SegSize, more) THEN [g EXCEPT !.work = Push(@, x, SegSize)]
  ELSE [g EXCEPT !.overflow = TRUE]

\* Variant of PushObject: a dropped object keeps its queued bit.
PushObjectStaysQueued(g, o, more) ==
  IF CanPush(g.work, SegSize, more)
  THEN [g EXCEPT !.work = Push(@, Work("object", o, 1), SegSize), !.queued = @ \cup {o}]
  ELSE [g EXCEPT !.overflow = TRUE]

\* Push_GCObject of an object that has just been queued.
PushObject(g, o, more) ==
  IF CanPush(g.work, SegSize, more)
  THEN [g EXCEPT !.work = Push(@, Work("object", o, 1), SegSize), !.queued = @ \cup {o}]
  ELSE [g EXCEPT !.overflow = TRUE, !.queued = @ \ {o}]

\* TracePointer, TraceConservativePointer: an object without pointers goes
\* right to black.
Trace(g, v, more) ==
  IF v = Null \/ v \in g.mark \cup g.queued THEN g
  ELSE IF Parts(v) = 0 THEN [g EXCEPT !.mark = @ \cup {v}]
  ELSE PushObject(g, v, more)

\* MarkItem_ConservativeOrNonGCObject, from part k of b on.
MarkParts(g, t, b, k, more) ==
  LET split == IF k < Parts(b) THEN PushItem(g, Work(t, b, k + 1), more) ELSE g
  IN Trace(split, mem[b][k], more)

\* Sets up the protection of an object that is marked part by part.
Protect(g, o, more) ==
  PushItem([g EXCEPT !.prot = @ \cup {o}], Work("objprot", o, 1), more)

SetMark(g, o) == [g EXCEPT !.mark = @ \cup {o}, !.queued = @ \ {o}]

\* MarkItem_GCObject with SplitExactGCObject: an exact object is traced
\* first and split afterwards.
MarkObject(g, o, more) ==
  IF Parts(o) <= 1 THEN Trace(SetMark(g, o), mem[o][1], more)
  ELSE IF o \in shape.exact
  THEN PushItem(Protect(Trace(SetMark(g, o), mem[o][1], more), o, more),
                Work("tail", o, 2), more)
  ELSE MarkParts(Protect(SetMark(g, o), o, more), "chunk", o, 1, more)

\* MarkItem_ExactObjectTail: an item for the next part is pushed before this
\* one is traced, and dies afterwards if this was the last.  The pop has made
\* room for it.
MarkTail(g, o, k, more) ==
  LET next == IF k < Parts(o) THEN Work("tail", o, k + 1) ELSE Dead
  IN Trace(PushItem(g, next, more), mem[o][k], more)

\* One turn of the loop of Mark; MarkTopItem_NonGCObject.
MarkTop(more) ==
  LET x == TopItem(m.work)
      g == [m EXCEPT !.work = Pop(@)]
  IN CASE x.t = "object" -> MarkObject(g, x.b, more)
       [] x.t = "tail" -> MarkTail(g, x.b, x.k, more)
       [] x.t \in {"chunk", "rootchunk", "stack"} -> MarkParts(g, x.t, x.b, x.k, more)
       [] x.t = "rootprot" -> [g EXCEPT !.sentinel = 0]
       [] x.t = "objprot" -> [g EXCEPT !.prot = @ \ {x.b}]
       [] x.t = "dead" -> g

\* Variant of SetSentinel: only the protector is cleared.
SetSentinelKeepsChunk(g, i) ==
  [g EXCEPT !.work = IF g.sentinel = 0 THEN @ ELSE ClearItemAt(@, g.sentinel),
            !.sentinel = i]

\* GCRoot::SetMarkStackSentinelPointer
SetSentinel(g, i) ==
  LET old == IF g.sentinel = 0 THEN g.work
             ELSE ClearWithItemAbove(g.work, g.sentinel,
                                     {Work("rootchunk", Root, k) : k \in Slot})
  IN [g EXCEPT !.work = old, !.sentinel = i]

ProtectRoot(g, more) ==
  LET pushed == PushItem(g, Work("rootprot", Root, 1), more)
  IN IF CanPush(g.work, SegSize, more) THEN SetSentinel(pushed, Count(pushed.work))
     ELSE pushed

MarkRoots(g, more) ==
  IF Root \notin live THEN g
  ELSE MarkParts(IF Parts(Root) > 1 THEN ProtectRoot(g, more) ELSE g,
                 "rootchunk", Root, 1, more)

\* Variant of MarkStackMemory: references on the stack do not count.
MarkStackMemoryNot(g, more) == g

MarkStackMemory(g, more) == PushItem(g, Work("stack", Stack, 1), more)

\* Variant of Flushed: what is not a full segment is left behind.
FlushedFullSegments(g, more) ==
  IF InactiveSegments(barrier) = 0 THEN g
  ELSE LET moved == OneBelowTop(barrier)
       IN [g EXCEPT !.work = Insert(moved)]

\* FlushBarrierWork with TransferEverythingFrom, or TransferSomethingFrom
\* when the barrier stack cannot get the segment it must keep.
Flushed(g, more) ==
  IF CanTransferEverything(barrier, more)
  THEN IF IsEmpty(barrier) THEN g
       ELSE [g EXCEPT !.work = Insert(barrier)]
  ELSE IF CanPush(g.work, SegSize, more)
  THEN [g EXCEPT !.overflow = TRUE, !.work = Push(@, TopItem(barrier), SegSize)]
  ELSE [g EXCEPT !.overflow = TRUE]

BarrierLeft(g, more) ==
  IF CanTransferEverything(barrier, more)
  THEN IF IsEmpty(barrier) THEN barrier ELSE EmptyStack
  ELSE IF CanPush(g.work, SegSize, more) THEN Pop(barrier) ELSE barrier

-----------------------------------------------------------------------------
(* The program.  It names what its stack refers to and the root; while a    *)
(* store is in progress a Reap may be running (WriteFieldRC).               *)

OnStack == {mem[Stack][i] : i \in Slot} \ {Null}
Named == OnStack \cup (live \cap {Root})
Running == pc = "run" /\ store = NoStore
Fits(v, b, k) == v = Null \/ v \in shape.fits[b][k]

\* A reference moves from memory to the stack, or leaves the stack.
Load(i, b, k) ==
  /\ Running
  /\ b \in Named
  /\ Fits(mem[b][k], Stack, i)
  /\ mem' = [mem EXCEPT ![Stack][i] = mem[b][k]]
  /\ UNCHANGED <<shape, live, weak, store, marking, m, barrier, pc, resume, todo, doomed>>

Forget(i) ==
  /\ Running
  /\ mem' = [mem EXCEPT ![Stack][i] = Null]
  /\ UNCHANGED <<shape, live, weak, store, marking, m, barrier, pc, resume, todo, doomed>>

\* Variant of TrapWrite: an object that does not fit on the barrier stack is
\* left alone.
TrapWriteGivesUp(o, more) ==
  IF marking /\ o \in m.mark /\ CanPush(barrier, BarrierSegSize, more)
  THEN /\ m' = [m EXCEPT !.mark = @ \ {o}, !.queued = @ \cup {o}]
       /\ barrier' = Push(barrier, Work("object", o, 1), BarrierSegSize)
  ELSE UNCHANGED <<m, barrier>>

\* InlineWriteBarrierTrap and WriteBarrierHit: a marked object is queued on
\* the barrier stack, else on the mark stack, else neither.
TrapWrite(o, more) ==
  IF ~marking \/ o \notin m.mark THEN UNCHANGED <<m, barrier>>
  ELSE LET gray == [m EXCEPT !.mark = @ \ {o}, !.queued = @ \cup {o}]
       IN IF CanPush(barrier, BarrierSegSize, more)
          THEN m' = gray /\ barrier' = Push(barrier, Work("object", o, 1), BarrierSegSize)
          ELSE m' = PushObject(gray, o, more) /\ UNCHANGED barrier

\* privateInlineWriteBarrierRC: the barrier, then DecrementRef of the old
\* value, which may reap, then the store.
BeginStore(o, k, v) ==
  /\ Running
  /\ o \in OnStack /\ v \in OnStack \cup {Null}
  /\ k <= Parts(o) /\ Fits(v, o, k) /\ v # mem[o][k]
  /\ store' = <<o, k, v>>
  /\ \E more \in More : TrapWrite(o, more)
  /\ UNCHANGED <<shape, live, mem, weak, marking, pc, resume, todo, doomed>>

EndStore ==
  /\ store # NoStore
  /\ mem' = [mem EXCEPT ![store[1]][store[2]] = store[3]]
  /\ store' = NoStore
  /\ UNCHANGED <<shape, live, weak, marking, m, barrier, pc, resume, todo, doomed>>

\* Roots have no write barrier.
StoreRoot(k, v) ==
  /\ Running
  /\ Root \in live
  /\ v \in OnStack \cup {Null}
  /\ k <= Parts(Root) /\ Fits(v, Root, k) /\ v # mem[Root][k]
  /\ mem' = [mem EXCEPT ![Root][k] = v]
  /\ UNCHANGED <<shape, live, weak, store, marking, m, barrier, pc, resume, todo, doomed>>

\* GC::Alloc outside the sweep: the object is neither marked nor queued.  It
\* gets a weak reference if it can contain pointers.
Alloc(o, i) ==
  /\ Running
  /\ o \notin live /\ Fits(o, Stack, i)
  /\ live' = live \cup {o}
  /\ mem' = [mem EXCEPT ![Stack][i] = o]
  /\ weak' = IF Parts(o) > 0 THEN weak \cup {o} ELSE weak
  /\ UNCHANGED <<shape, store, marking, m, barrier, pc, resume, todo, doomed>>

\* GCAlloc::Free, GCLargeAlloc::Free and AbortFree, by the program or by a
\* Reap: an object the marker still has work for stays, without contents.
Free(o) ==
  LET busy == o \in m.queued \/ (Parts(o) > 1 /\ o \in m.prot)
  IN /\ pc = "run"
     /\ o \in Freeable \cap live
     /\ RefersTo(o) \subseteq (IF store = NoStore THEN {Stack} ELSE {})
     /\ live' = IF marking /\ busy THEN live ELSE live \ {o}
     /\ m' = IF marking /\ busy THEN m
             ELSE [m EXCEPT !.mark = @ \ {o}, !.prot = @ \ {o}]
     /\ mem' = [b \in Memory |-> IF b = o THEN Cleared
                ELSE [k \in Slot |-> IF mem[b][k] = o THEN Null ELSE mem[b][k]]]
     /\ weak' = weak \ {o}
     /\ doomed' = doomed \ {o}
     /\ UNCHANGED <<shape, store, marking, barrier, pc, resume, todo>>

\* GCWeakRef::get while nothing is swept: nobody tells the marker.
Revived(o) == IF o \in doomed THEN {} ELSE doomed

ReadWeak(o, i) ==
  /\ Running
  /\ o \in weak /\ Fits(o, Stack, i)
  /\ mem' = [mem EXCEPT ![Stack][i] = o]
  /\ doomed' = Revived(o)
  /\ UNCHANGED <<shape, live, weak, store, marking, m, barrier, pc, resume, todo>>

\* GCRoot::Destroy, and a new GCRoot.  A root of one part stands for the
\* collector's own (lockedObjects), which stays.
DestroyRoot ==
  /\ Running
  /\ Parts(Root) > 1
  /\ Root \in live
  /\ live' = live \ {Root}
  /\ mem' = [mem EXCEPT ![Root] = Cleared]
  /\ m' = SetSentinel(m, 0)
  /\ UNCHANGED <<shape, weak, store, marking, barrier, pc, resume, todo, doomed>>

CreateRoot ==
  /\ Running
  /\ Root \notin live
  /\ live' = live \cup {Root}
  /\ UNCHANGED <<shape, mem, weak, store, marking, m, barrier, pc, resume, todo, doomed>>

Program ==
  \/ \E i, k \in Slot, b \in Memory : Load(i, b, k)
  \/ \E i \in Slot : Forget(i)
  \/ \E o \in Obj, k \in Slot, v \in Obj \cup {Null} : BeginStore(o, k, v)
  \/ EndStore
  \/ \E k \in Slot, v \in Obj \cup {Null} : StoreRoot(k, v)
  \/ \E o \in Obj, i \in Slot : Alloc(o, i)
  \/ \E o \in Obj : Free(o)
  \/ \E o \in Obj, i \in Slot : ReadWeak(o, i)
  \/ DestroyRoot \/ CreateRoot

-----------------------------------------------------------------------------
(* Increments of the marker, from GC::CollectionWork: not during a Reap.    *)

\* The objects that roots and the stack lead to: those in every set that
\* holds the roots and the stack and what its members refer to.
Reachable ==
  LET closed(C) == /\ {Stack} \cup (live \cap {Root}) \subseteq C
                   /\ \A b \in C, k \in Slot : mem[b][k] \in C \cup {Null}
  IN {o \in Obj : \A C \in SUBSET Memory : closed(C) => o \in C}

\* StartIncrementalMark
StartMark ==
  /\ Running
  /\ ~marking
  /\ marking' = TRUE
  /\ \E more \in More : m' = MarkRoots(m, more)
  /\ doomed' = Objects \ Reachable
  /\ UNCHANGED <<program, barrier, pc, resume, todo>>

\* Variant of MarkStep: an increment runs while a Reap does.
MarkStepInReap ==
  /\ pc = "run"
  /\ marking
  /\ ~IsEmpty(m.work)
  /\ \E more \in More : m' = MarkTop(more)
  /\ UNCHANGED <<program, marking, barrier, pc, resume, todo, doomed>>

\* One item of IncrementalMark; the increment may end after each.
MarkStep ==
  /\ Running
  /\ marking
  /\ ~IsEmpty(m.work)
  /\ \E more \in More : m' = MarkTop(more)
  /\ UNCHANGED <<program, marking, barrier, pc, resume, todo, doomed>>

\* CheckBarrierWork
ShiftBarrierWork ==
  /\ Running
  /\ marking
  /\ IsEmpty(m.work)
  /\ InactiveSegments(barrier) >= BarrierThreshold
  /\ LET moved == OneBelowTop(barrier)
     IN m' = [m EXCEPT !.work = Insert(moved)]
  /\ barrier' = WithoutOneBelowTop(barrier)
  /\ UNCHANGED <<program, marking, pc, resume, todo, doomed>>

-----------------------------------------------------------------------------
(* FinishIncrementalMark and Sweep run with the program stopped.            *)

Finish ==
  /\ Running
  /\ marking
  /\ pc' = "drain"
  /\ UNCHANGED <<program, marking, m, barrier, resume, todo, doomed>>

\* Mark, until the stack is empty.
Drain ==
  /\ pc \in {"drain", "rescan", "resweep", "recover"}
  /\ ~IsEmpty(m.work)
  /\ \E more \in More : m' = MarkTop(more)
  /\ UNCHANGED <<program, marking, barrier, pc, resume, todo, doomed>>

\* Variant of BeginRecovery: the flag is not cleared.
BeginRecoveryKeepsFlag ==
  /\ m.overflow
  /\ \E more \in More : m' = MarkRoots(m, more)
  /\ todo' = Objects
  /\ pc' = "recover"
  /\ UNCHANGED <<program, marking, barrier, doomed>>

\* HandleMarkStackOverflow: the roots, then every marked object again.
BeginRecovery ==
  /\ m.overflow
  /\ \E more \in More : m' = MarkRoots([m EXCEPT !.overflow = FALSE], more)
  /\ todo' = Objects
  /\ pc' = "recover"
  /\ UNCHANGED <<program, marking, barrier, doomed>>

Recover ==
  /\ pc \in {"drain", "rescan", "resweep"}
  /\ IsEmpty(m.work)
  /\ BeginRecovery
  /\ resume' = pc

Visit(o) ==
  /\ pc = "recover"
  /\ IsEmpty(m.work)
  /\ o \in todo
  /\ todo' = todo \ {o}
  /\ \E more \in More :
       m' = IF o \in m.mark /\ Parts(o) > 0 THEN MarkObject(m, o, more) ELSE m
  /\ UNCHANGED <<program, marking, barrier, pc, resume, doomed>>

EndRecovery ==
  /\ pc = "recover"
  /\ IsEmpty(m.work)
  /\ todo = {}
  /\ pc' = resume
  /\ \/ /\ resume = "resweep"
        /\ UNCHANGED <<m, barrier>>
     \/ \E more \in More :
          /\ resume # "resweep"
          /\ barrier' = BarrierLeft(m, more)
          /\ m' = IF resume = "rescan" THEN MarkStackMemory(Flushed(m, more), more)
                  ELSE Flushed(m, more)
  /\ UNCHANGED <<program, marking, resume, todo, doomed>>

\* FlushBarrierWork; MarkNonstackRoots; MarkQueueAndStack.
FinalScan ==
  /\ pc = "drain"
  /\ IsEmpty(m.work)
  /\ ~m.overflow
  /\ \E more \in More :
       /\ m' = MarkStackMemory(MarkRoots(Flushed(m, more), more), more)
       /\ barrier' = BarrierLeft(m, more)
  /\ pc' = "rescan"
  /\ UNCHANGED <<program, marking, resume, todo, doomed>>

\* ClearMarkStack, then Sweep up to DoPreSweepCallbacks.
BeginSweep ==
  /\ pc = "rescan"
  /\ IsEmpty(m.work)
  /\ ~m.overflow
  /\ m' = [m EXCEPT !.work = EmptyStack, !.sentinel = 0]
  /\ barrier' = EmptyStack
  /\ pc' = "presweep"
  /\ UNCHANGED <<program, marking, resume, todo, doomed>>

\* A callback stores where the marker has been: into a marked object, whose
\* barrier is off, or the root.
PresweepStore(o, b, k) ==
  /\ pc = "presweep"
  /\ b \in live /\ b \in m.mark \cup {Root}
  /\ k <= Parts(b) /\ Fits(o, b, k)
  /\ mem' = [mem EXCEPT ![b][k] = o]

\* GCWeakRef::get, which queues an object that is not marked.
PresweepReadWeak(o, b, k) ==
  /\ PresweepStore(o, b, k)
  /\ o \in weak
  /\ \E more \in More : m' = IF o \in m.mark THEN m ELSE PushObject(m, o, more)
  /\ doomed' = Revived(o)
  /\ UNCHANGED <<shape, live, weak, store, marking, barrier, pc, resume, todo>>

\* Allocations start out marked.
PresweepAlloc(o, b, k) ==
  /\ PresweepStore(o, b, k)
  /\ o \notin live
  /\ live' = live \cup {o}
  /\ m' = SetMark(m, o)
  /\ UNCHANGED <<shape, weak, store, marking, barrier, pc, resume, todo, doomed>>

\* The loop of Sweep looks at the flag before it marks.
EndPresweep ==
  /\ pc = "presweep"
  /\ \/ BeginRecovery /\ resume' = "resweep"
     \/ /\ ~m.overflow
        /\ pc' = "resweep"
        /\ UNCHANGED <<program, marking, m, barrier, resume, todo, doomed>>

\* Variant of Sweep: the mark bits stay.
SweepKeepsMarks ==
  /\ pc = "resweep"
  /\ IsEmpty(m.work)
  /\ ~m.overflow
  /\ live' = live \cap (m.mark \cup {Root})
  /\ mem' = [b \in Memory |-> IF b \in Objects \ m.mark THEN Cleared ELSE mem[b]]
  /\ weak' = weak \cap m.mark
  /\ marking' = FALSE
  /\ pc' = "run"
  /\ doomed' = {}
  /\ UNCHANGED <<shape, store, m, barrier, resume, todo>>

\* GC::Finalize: the unmarked objects go, with their weak references.
Sweep ==
  /\ pc = "resweep"
  /\ IsEmpty(m.work)
  /\ ~m.overflow
  /\ live' = live \cap (m.mark \cup {Root})
  /\ mem' = [b \in Memory |-> IF b \in Objects \ m.mark THEN Cleared ELSE mem[b]]
  /\ weak' = weak \cap m.mark
  /\ m' = [m EXCEPT !.mark = {}, !.prot = @ \cap m.mark]
  /\ marking' = FALSE
  /\ pc' = "run"
  /\ doomed' = {}
  /\ UNCHANGED <<shape, store, barrier, resume, todo>>

Collector ==
  \/ Drain \/ Recover \/ EndRecovery \/ FinalScan \/ BeginSweep \/ EndPresweep \/ Sweep
  \/ \E o \in Obj : Visit(o)

Next ==
  \/ Program
  \/ StartMark \/ MarkStep \/ ShiftBarrierWork \/ Finish
  \/ Collector
  \/ \E o \in Obj, b \in Memory, k \in Slot : PresweepReadWeak(o, b, k) \/ PresweepAlloc(o, b, k)

SafetySpec == Init /\ [][Next]_vars

\* What has begun runs to its end: FinishIncrementalMark and Sweep are one
\* call on one thread, and presweep callbacks return.
Spec == SafetySpec /\ WF_vars(Collector)

-----------------------------------------------------------------------------
(* Properties.                                                              *)

\* Nobody the program can reach, and no weak reference, refers to memory
\* that was reclaimed (GC::Sweep, GC::Finalize).
NoDangling ==
  /\ \A b \in Held, k \in Slot : mem[b][k] \in live \cup {Null}
  /\ weak \subseteq live
  /\ store # NoStore => store[1] \in live /\ store[3] \in live \cup {Null}

\* v will not be lost: it is marked, or on a stack.
Safe(v) == v = Null \/ v \in m.mark \cup m.queued

\* Part k of b is still to be scanned.
Ahead(b, k) ==
  \E x \in Items(m.work) :
    x.t \in Scan /\ x.b = b /\ x.k <= k

\* The invariant of the marker: a part of a marked object that has been
\* scanned refers only to objects that are marked or queued, unless items
\* were dropped and the object will be visited again.
TriColour ==
  m.overflow \/ \A b \in m.mark, k \in Slot :
    Safe(mem[b][k]) \/ Ahead(b, k) \/ (pc = "recover" /\ b \in todo)

\* A queued object is on one of the two stacks, so that it will be marked:
\* the queued bit is cleared when its item is dropped.
QueuedOnStack ==
  \A o \in m.queued : Work("object", o, 1) \in Items(m.work) \cup Items(barrier)

\* An item of the mark stacks never outlives what it points into: objects
\* are protected, and GCRoot::Destroy clears the items of the root.
WorkValid ==
  \A x \in Items(m.work) \cup Items(barrier) : x # Dead /\ x.b # Stack => x.b \in live

\* An object that is marked part by part cannot be freed meanwhile ("split
\* objects are protected against being freed", GC.cpp:2236-2241).
SplitProtected ==
  \A x \in Items(m.work) : x.t \in {"chunk", "tail"} => x.b \in m.prot

\* Memory holds no reference outside what is allocated.
MemorySound ==
  \A b \in Memory, k \in Slot : b \notin Held \/ Parts(b) < k => mem[b][k] = Null

\* Between the barrier and the store, the program's stack refers to both
\* ends, and the object is not marked again: no increment runs in a Reap.
StoreSound ==
  store # NoStore =>
    /\ pc = "run"
    /\ store[1] \in OnStack \ m.mark
    /\ store[2] <= Parts(store[1])
    /\ store[3] \in OnStack \cup {Null}

SentinelSound ==
  m.sentinel # 0 => /\ m.sentinel <= Count(m.work)
                    /\ m.work.items[m.sentinel] = Work("rootprot", Root, 1)

\* What is left of the roots, of the stack and of the barrier's work once
\* FinishIncrementalMark has scanned them; "late" is from presweep on.
ScanSound ==
  LET late == pc \in {"presweep", "resweep"} \/ (pc = "recover" /\ resume = "resweep")
      scanned(b) == \A k \in Slot : Safe(mem[b][k]) \/ Ahead(b, k)
  IN /\ pc \in {"rescan", "presweep", "resweep", "recover"} => m.overflow \/ scanned(Root)
     /\ pc = "rescan" => m.overflow \/ scanned(Stack)
     /\ late => \A k \in Slot : mem[Stack][k] \in m.mark \cup {Null}
     /\ late \/ (pc = "rescan" /\ ~m.overflow) => IsEmpty(barrier)

\* Nothing is left of the last cycle when a new one starts, and one pass of
\* the collector is one step of the program.
CycleSound ==
  /\ ~marking => /\ pc = "run"
                 /\ m.mark = {} /\ IsEmpty(m.work) /\ IsEmpty(barrier) /\ ~m.overflow
  /\ pc # "run" => marking

\* The inductive invariant: the program never meets memory that was
\* reclaimed because what the marker has passed is accounted for at every
\* moment, in the middle of a store and of an overflow recovery too.
IInv ==
  /\ TypeOK /\ MemorySound /\ StoreSound /\ NoDangling /\ TriColour /\ QueuedOnStack
  /\ SentinelSound /\ ScanSound /\ CycleSound

\* The inductive invariant of GarbageCollected: nothing outside the objects
\* that were garbage when marking started refers to one of them, and neither
\* the marker nor the write barrier has come across one.
GarbageInv ==
  LET clean(stack) == \A x \in Items(stack) : x # Dead => x.b \notin doomed
  IN /\ doomed \subseteq live
     /\ \A b \in Memory \ doomed, k \in Slot : mem[b][k] \notin doomed
     /\ store[1] \notin doomed /\ store[3] \notin doomed
     /\ doomed \cap (m.mark \cup m.queued) = {}
     /\ clean(m.work) /\ clean(barrier)

\* An object that was garbage when marking started does not survive that
\* cycle, unless a weak reference to it was read.
GarbageCollected == [][pc = "resweep" /\ pc' = "run" => doomed \cap live' = {}]_vars

\* FinishIncrementalMark and Sweep get to their end even if the heap never gives it
\* another segment (comment of HandleMarkStackOverflow).
FinishTerminates == pc = "drain" ~> pc = "run"

Abs == INSTANCE CollectorAbs
ImplementsAbs == Abs!AbsSpec
=============================================================================
