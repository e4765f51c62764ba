---------------------------- MODULE CollectorAbs ----------------------------
(***************************************************************************)
(* What a tracing collector promises the program (MMgc/GC.h): the program  *)
(* allocates objects, writes references into memory it can name, reads     *)
(* weak references and frees objects nothing refers to; the collector, at  *)
(* any moment, reclaims a set of objects that what remains does not refer  *)
(* to, and clears the weak references to exactly those.                    *)
(***************************************************************************)
CONSTANTS
  Obj,     \* memory for objects
  Slot,    \* the slots of an object, of a root and of the stack
  Root,    \* memory registered with a GCRoot
  Stack,   \* the program stack
  Null

VARIABLES
  live,    \* objects that are allocated; Root while its GCRoot exists
  mem,     \* the references in memory
  weak     \* objects with a weak reference that is not cleared

absVars == <<live, mem, weak>>

Memory == Obj \cup {Root, Stack}
Cleared == [k \in Slot |-> Null]
Held == live \cup {Stack}
RefersTo(o) == {b \in Held : \E k \in Slot : mem[b][k] = o}

AbsInit ==
  /\ live = {Root}
  /\ mem = [b \in Memory |-> Cleared]
  /\ weak = {}

Write(b, k, v) ==
  /\ b \in Held
  /\ v \in (live \cap Obj) \cup {Null}
  /\ mem' = [mem EXCEPT ![b][k] = v]
  /\ UNCHANGED <<live, weak>>

Alloc(o, b, k, w) ==
  /\ o \notin live
  /\ b \in Held
  /\ live' = live \cup {o}
  /\ mem' = [mem EXCEPT ![o] = Cleared, ![b][k] = o]
  /\ weak' = IF w THEN weak \cup {o} ELSE weak

\* An object the program frees is gone, or stays without contents until the
\* next collection.
Free(o) ==
  /\ o \in live
  /\ RefersTo(o) \subseteq {Stack}
  /\ live' \in {live, live \ {o}}
  /\ mem' = [b \in Memory |-> IF b = o THEN Cleared
                              ELSE [k \in Slot |-> IF mem[b][k] = o THEN Null ELSE mem[b][k]]]
  /\ weak' = weak \ {o}

DestroyRoot ==
  /\ live' = live \ {Root}
  /\ mem' = [mem EXCEPT ![Root] = Cleared]
  /\ UNCHANGED weak

CreateRoot ==
  /\ live' = live \cup {Root}
  /\ mem' = [mem EXCEPT ![Root] = Cleared]
  /\ UNCHANGED weak

Collect(S) ==
  /\ S \subseteq live /\ live \cap {Root} \subseteq S
  /\ \A b \in S \cup {Stack}, k \in Slot : mem[b][k] \in S \cup {Null}
  /\ live' = S
  /\ mem' = [b \in Memory |-> IF b \in live \ S THEN Cleared ELSE mem[b]]
  /\ weak' = weak \cap S

AbsNext ==
  \/ \E b \in Memory, k \in Slot, v \in Obj \cup {Null} : Write(b, k, v)
  \/ \E o \in Obj, b \in Memory, k \in Slot, w \in BOOLEAN : Alloc(o, b, k, w)
  \/ \E o \in Obj : Free(o)
  \/ DestroyRoot \/ CreateRoot
  \/ \E S \in SUBSET live : Collect(S)

AbsSpec == AbsInit /\ [][AbsNext]_absVars
=============================================================================
