---------------------------- MODULE CountingAbs ----------------------------
(***************************************************************************)
(* What deferred reference counting promises the program (MMgc/GCObject.h, *)
(* RCObject): the program allocates objects, keeps references on its stack *)
(* and stores them into objects it holds; the system finalizes, one at a   *)
(* time, objects to which nothing on the stack leads, along fields of      *)
(* objects that exist; a finalizer may store what does not lead back to    *)
(* its object, which is destroyed without its contents.  There are no      *)
(* counts and no table, and a reap is not told from a sweep.               *)
(***************************************************************************)
CONSTANTS
  Obj,    \* memory for RCObjects
  Null    \* a null pointer

VARIABLES
  live,   \* objects that exist
  field,  \* the counted field of each object
  roots,  \* objects the program stack refers to
  dying   \* the object whose finalizer is running

absVars == <<live, field, roots, dying>>

Closed(S) == \A o \in S : field[o] # Null => field[o] \in S

\* All that S leads to is in D.
Within(S, D) == \E C \in SUBSET D : S \subseteq C /\ Closed(C)

AbsInit ==
  /\ live = {} /\ roots = {}
  /\ field = [o \in Obj |-> Null]
  /\ dying = Null

New(o) ==
  /\ o \notin live
  /\ live' = live \cup {o}
  /\ roots' \in {roots, roots \cup {o}}
  /\ UNCHANGED <<field, dying>>

\* The stack forgets references, and loads them from fields of what it holds.
Hold(S) ==
  /\ S \subseteq roots \cup ({field[p] : p \in roots} \ {Null})
  /\ roots' = S
  /\ UNCHANGED <<live, field, dying>>

Write(p, v) ==
  /\ dying = Null
  /\ p \in roots /\ v \in roots \cup {Null}
  /\ field' = [field EXCEPT ![p] = v]
  /\ UNCHANGED <<live, roots, dying>>

Finalize(o) ==
  /\ dying = Null
  /\ o \in live /\ Within(roots, live \ {o})
  /\ dying' = o
  /\ UNCHANGED <<live, field, roots>>

FinalizerDrop ==
  /\ dying # Null
  /\ field' = [field EXCEPT ![dying] = Null]
  /\ UNCHANGED <<live, roots, dying>>

FinalizerStore(p, v) ==
  /\ dying # Null
  /\ p \in live \ {dying}
  /\ Within({v} \ {Null}, live \ {dying})
  /\ field' = [field EXCEPT ![p] = v]
  /\ UNCHANGED <<live, roots, dying>>

Destroy ==
  /\ dying # Null /\ field[dying] = Null
  /\ live' = live \ {dying}
  /\ dying' = Null
  /\ UNCHANGED <<field, roots>>

\* The finalizer and the program are abandoned.
Abort ==
  /\ dying # Null
  /\ dying' = Null /\ roots' = {}
  /\ UNCHANGED <<live, field>>

AbsNext ==
  \/ \E S \in SUBSET Obj : Hold(S)
  \/ \E p \in Obj, v \in Obj \cup {Null} : Write(p, v)
  \/ FinalizerDrop \/ Destroy \/ Abort
  \/ \E o \in Obj : New(o) \/ Finalize(o)
  \/ \E p \in Obj, v \in Obj \cup {Null} : FinalizerStore(p, v)

AbsSpec == AbsInit /\ [][AbsNext]_absVars

\* GCObject.h:600-605: whatever the stack leads to, however far, exists and is
\* not being finalized.
ReachableExists == Within(roots, live \ {dying})

\* The inductive invariant: memory that is no object refers to nothing, too.
AbsInv ==
  /\ live \subseteq Obj /\ dying \in live \cup {Null}
  /\ field \in [Obj -> Obj \cup {Null}]
  /\ \A o \in Obj \ live : field[o] = Null
  /\ ReachableExists
=============================================================================
