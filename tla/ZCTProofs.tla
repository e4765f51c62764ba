------------------------------ MODULE ZCTProofs ------------------------------
(***************************************************************************)
(* Proofs about ZCT, for all sets of objects, sizes of blocks and tables,  *)
(* sticky counts and budgets, when a finalizer stores what was its own.    *)
(***************************************************************************)
EXTENDS ZCT, FiniteSetTheorems, TLAPS

USE ConstantsAssumption

-----------------------------------------------------------------------------
(* Sequences, products and cardinalities.                                   *)

LEMMA PrefixOf ==
  ASSUME NEW S, NEW q \in Seq(S), NEW n \in 0..Len(q)
  PROVE  /\ SubSeq(q, 1, n) \in Seq(S) /\ Len(SubSeq(q, 1, n)) = n
         /\ \A i \in 1..n : SubSeq(q, 1, n)[i] = q[i]
OBVIOUS

LEMMA FrontLast ==
  ASSUME NEW S, NEW q \in Seq(S), q # <<>>
  PROVE  /\ SeqExt!Front(q) \in Seq(S) /\ Len(q) \in Nat \ {0}
         /\ Len(SeqExt!Front(q)) = Len(q) - 1
         /\ \A i \in 1..(Len(q) - 1) : SeqExt!Front(q)[i] = q[i]
         /\ SeqExt!Last(q) = q[Len(q)] /\ q[Len(q)] \in S
<1>1. Len(q) \in Nat \ {0}
  OBVIOUS
<1>2. Len(q) - 1 \in 0..Len(q)
  BY <1>1
<1>3. /\ SubSeq(q, 1, Len(q) - 1) \in Seq(S)
      /\ Len(SubSeq(q, 1, Len(q) - 1)) = Len(q) - 1
      /\ \A i \in 1..(Len(q) - 1) : SubSeq(q, 1, Len(q) - 1)[i] = q[i]
  BY <1>2, PrefixOf
<1>4. q[Len(q)] \in S
  BY <1>1
<1> QED
  BY <1>1, <1>3, <1>4 DEF SeqExt!Front, SeqExt!Last

LEMMA Products ==
  ASSUME NEW b \in Nat
  PROVE  /\ b * BlockSize \in Nat
         /\ (b + 1) * BlockSize = b * BlockSize + BlockSize
         /\ (b - 1) * BlockSize = b * BlockSize - BlockSize
         /\ (b - 1 - 1) * BlockSize = b * BlockSize - BlockSize - BlockSize
OBVIOUS

LEMMA Overwrite ==
  ASSUME NEW S, NEW q \in Seq(S), NEW i \in DOMAIN q, NEW x \in S
  PROVE  [q EXCEPT ![i] = x] \in Seq(S) /\ Len([q EXCEPT ![i] = x]) = Len(q)
<1>1. [q EXCEPT ![i] = x] \in [1..Len(q) -> S] /\ Len(q) \in Nat
  OBVIOUS
<1> QED
  BY <1>1

\* The number of blocks that hold n entries.
LEMMA BlocksFor ==
  ASSUME NEW n \in Nat \ {0}
  PROVE  LET q == (n + BlockSize - 1) \div BlockSize
         IN /\ q \in Nat \ {0}
            /\ (q - 1) * BlockSize <= n /\ n <= q * BlockSize
<1> DEFINE m == n + BlockSize - 1
           q == m \div BlockSize
           r == m % BlockSize
<1>1. m \in Nat /\ BlockSize \in Nat \ {0, 1}
  OBVIOUS
<1>2. q \in Int /\ r \in 0..(BlockSize - 1) /\ m = BlockSize * q + r
  BY <1>1
<1> HIDE DEF q, r
<1>3. q \in Nat \ {0}
  BY <1>1, <1>2
<1>4. q * BlockSize = BlockSize * q /\ (q - 1) * BlockSize = q * BlockSize - BlockSize
  BY <1>1, <1>3
<1>5. q * BlockSize \in Nat
  BY <1>1, <1>3
<1> QED
  BY <1>1, <1>2, <1>3, <1>4, <1>5 DEF q

\* The counted fields that refer to o.
Refs(o) == {p \in live : field[p] = o /\ p \notin {store[1], inner[1]}}

LEMMA RefsFinite ==
  ASSUME TypeOK, NEW o
  PROVE  IsFiniteSet(Refs(o)) /\ Cardinality(Refs(o)) \in Nat
         /\ (Cardinality(Refs(o)) = 0 <=> Refs(o) = {})
<1>1. Refs(o) \subseteq Obj
  BY DEF Refs, TypeOK
<1> QED
  BY <1>1, FS_Subset, FS_CardinalityType, FS_EmptySet

LEMMA OneMore ==
  ASSUME NEW S, IsFiniteSet(S), NEW x, x \notin S
  PROVE  Cardinality(S \cup {x}) = Cardinality(S) + 1 /\ Cardinality(S) \in Nat
BY FS_AddElement, FS_CardinalityType

LEMMA OneLess ==
  ASSUME NEW S, IsFiniteSet(S), NEW x \in S
  PROVE  Cardinality(S \ {x}) = Cardinality(S) - 1 /\ Cardinality(S) \in Nat
BY FS_RemoveElement, FS_CardinalityType

-----------------------------------------------------------------------------
(* Consequences of the invariant.                                           *)

\* An object that a living object's field refers to is not in the table,
\* unless the field is one that is being stored to.
LEMMA Referred ==
  ASSUME IInv, after # "shut", NEW p \in live, p \notin {store[1], inner[1]},
         field[p] \in live
  PROVE  field[p] \in sticky \/ rc[field[p]] > 0
<1>1. p \in Refs(field[p])
  BY DEF Refs
<1>2. SUFFICES ASSUME field[p] \notin sticky PROVE rc[field[p]] > 0
  OBVIOUS
<1>3. rc[field[p]] = Cardinality(Refs(field[p])) + excess[field[p]]
      /\ excess[field[p]] \in Nat
  BY <1>2 DEF IInv, CountInv, CountExact, Refs, TypeOK
<1> QED
  BY <1>1, <1>3, RefsFinite DEF IInv

\* An object whose count is too high has one.
LEMMA Excessive ==
  ASSUME IInv, after # "shut", NEW o \in live \ sticky, excess[o] > 0
  PROVE  rc[o] > 0
<1>1. rc[o] = Cardinality(Refs(o)) + excess[o] /\ excess[o] \in Nat
  BY DEF IInv, CountInv, CountExact, Refs, TypeOK
<1> QED
  BY <1>1, RefsFinite DEF IInv

\* Only finalizers store in finalizers.
LEMMA NoInner ==
  ASSUME IInv, pc # "final"
  PROVE  inner = NoStore
BY DEF IInv, InnerInv

\* Whose finalizer runs during a Reap is neither on the stack nor stored to,
\* and no field refers to it.
LEMMA DyingAlone ==
  ASSUME IInv, pc = "final"
  PROVE  /\ after # "shut" /\ dying \in live /\ dying # Null /\ dying \notin roots
         /\ dying # store[1] /\ dying # pending
         /\ \A p \in live : field[p] # dying
<1>1. after # "shut" /\ dying \in live \ (flagged \cup sticky \cup held \cup kept)
      /\ rc[dying] = 0 /\ dying # Null
  BY DEF IInv, PhaseInv, DyingInv, DeadInv, TypeOK
<1>2. dying # pending
  BY <1>1 DEF IInv, WaitingInv
<1>3. dying \notin roots
  BY <1>1, <1>2 DEF IInv, KeptInv, Reaping
<1>4. dying # store[1]
  BY <1>1, <1>3 DEF IInv, WaitingInv, NoStore
<1>5. ASSUME NEW p \in live, field[p] = dying PROVE FALSE
  <2>1. p # Null
    BY DEF IInv, TypeOK
  <2>2. p # inner[1]
    BY <1>5, <2>1 DEF IInv, InnerInv, NoStore
  <2>3. p = store[1]
    BY <1>1, <1>5, <2>2, Referred
  <2>4. after = "store"
    BY <2>1, <2>3 DEF IInv, PhaseInv, NoStore
  <2>5. excess[dying] > 0
    BY <1>1, <1>2, <1>5, <2>2, <2>3, <2>4 DEF IInv, WaitingInv, Overwritten
  <2> QED
    BY <1>1, <2>5, Excessive
<1> QED
  BY <1>1, <1>2, <1>3, <1>4, <1>5

\* When the program runs, no store is in progress and nothing waits.
LEMMA Running ==
  ASSUME IInv, pc = "run"
  PROVE  /\ after = "run" /\ pending = Null /\ store = NoStore /\ dying = Null
         /\ held = {} /\ kept = {} /\ marked = {} /\ pinList = <<>>
         /\ roots \subseteq live /\ store[1] = Null /\ inner = NoStore
         /\ \A p \in live : field[p] # Null => field[p] \in live
<1>1. after = "run" /\ pending = Null /\ store = NoStore /\ dying = Null
      /\ held = {} /\ kept = {} /\ marked = {}
  BY DEF IInv, PhaseInv, DyingInv, Reaping, Sweeping
<1>2. pinList = <<>> /\ inner = NoStore
  BY <1>1, NoInner DEF IInv, TableInv, Reaping
<1> QED
  BY <1>1, <1>2 DEF IInv, NoDangling, NoStore, Sweeping
-----------------------------------------------------------------------------
(* Entering an object into the table.                                       *)

\* What Push leaves, in a table that had room or has grown.
Pushed(o) ==
  /\ Push(o) /\ table' \in Seq(Entry) /\ Len(table') = Len(table) + 1
  /\ blocks' \in Nat \ {0} /\ spare' \in Nat /\ budget' \in 0..Budget
  /\ (blocks' - 1) * BlockSize <= Len(table') /\ Len(table') <= blocks' * BlockSize

\* The table is left as it is.
Skipped ==
  /\ budget' \in 0..Budget
  /\ UNCHANGED <<table, flagged, index, pinned, blocks, spare>>

\* What Add does: it goes on at next, or starts a Reap.
AddGoesOn(o, next) ==
  /\ pc' = next /\ UNCHANGED <<after, pending, kept>>
  /\ Pushed(o) \/ Skipped

AddReaps(o, next) ==
  /\ ~Reaping /\ ~Sweeping
  /\ UNCHANGED <<table, flagged, index, blocks, budget, spare>>
  /\ pc' = "pop" /\ after' = next /\ pending' = o
  /\ pinned \subseteq pinned' /\ pinned' \subseteq pinned \cup live
  /\ live \cap (roots \cup {o}) \subseteq kept' /\ kept' = pinned' \cap live

LEMMA PushFits ==
  ASSUME TypeOK, NEW o \in Obj, Push(o), spare' \in Nat, budget' \in 0..Budget,
         (blocks - 1) * BlockSize <= Len(table), Len(table) <= blocks * BlockSize,
         \/ Room /\ blocks' = blocks
         \/ ~Room /\ blocks' = blocks + 1
  PROVE  Pushed(o)
<1>1. table' \in Seq(Entry) /\ Len(table') = Len(table) + 1 /\ Len(table) \in Nat
  BY DEF TypeOK, Push, Entry
<1>2. blocks \in Nat \ {0} /\ blocks * BlockSize \in Nat
      /\ (blocks + 1) * BlockSize = blocks * BlockSize + BlockSize
      /\ (blocks - 1) * BlockSize = blocks * BlockSize - BlockSize
  BY Products DEF TypeOK
<1>3. CASE Room /\ blocks' = blocks
  BY <1>1, <1>2, <1>3 DEF Pushed, Room
<1>4. CASE ~Room /\ blocks' = blocks + 1
  <2>1. blocks' - 1 = blocks /\ blocks' \in Nat \ {0}
    BY <1>2, <1>4
  <2>2. Len(table') = blocks * BlockSize + 1
    BY <1>1, <1>2, <1>4 DEF Room
  <2>3. blocks' * BlockSize = blocks * BlockSize + BlockSize
    BY <1>2, <1>4
  <2>4. (blocks' - 1) * BlockSize = blocks * BlockSize
    BY <2>1
  <2>5. /\ (blocks' - 1) * BlockSize <= Len(table')
        /\ Len(table') <= blocks' * BlockSize
    BY <1>2, <2>2, <2>3, <2>4
  <2> QED
    BY <1>1, <2>1, <2>5 DEF Pushed
<1> QED
  BY <1>3, <1>4

LEMMA GrowFits ==
  ASSUME IInv, NEW o \in Obj, NEW b \in 0..Budget, ~Room, GrowOrDrop(o, b)
  PROVE  Pushed(o) \/ Skipped
<1>1. CASE /\ CanGrow
           /\ TakeBlock
           /\ blocks' = blocks + 1
           /\ budget' = IF b > 0 THEN b - 1 ELSE 0
           /\ Push(o)
  <2>1. spare' \in Nat /\ budget' \in 0..Budget
    BY <1>1 DEF TakeBlock, IInv, TypeOK
  <2>2. TypeOK /\ (blocks - 1) * BlockSize <= Len(table) /\ Len(table) <= blocks * BlockSize
    BY DEF IInv, TableInv
  <2> QED
    BY <1>1, <2>1, <2>2, PushFits
<1>2. CASE budget' = b /\ UNCHANGED <<table, flagged, index, pinned, blocks, spare>>
  BY <1>2 DEF Skipped
<1> QED
  BY <1>1, <1>2 DEF GrowOrDrop

LEMMA AddCases ==
  ASSUME IInv, NEW o \in Obj, NEW next, Add(o, next)
  PROVE  AddGoesOn(o, next) \/ AddReaps(o, next)
<1>1. TypeOK /\ (blocks - 1) * BlockSize <= Len(table) /\ Len(table) <= blocks * BlockSize
      /\ budget \in 0..Budget /\ spare \in Nat /\ Budget \in 0..Budget
  BY DEF IInv, TableInv, TypeOK
<1>2. CASE /\ Sweeping /\ o \notin marked
           /\ pc' = next
           /\ UNCHANGED <<after, pending, kept, table, flagged, index, pinned, blocks,
                          budget, spare>>
  BY <1>1, <1>2 DEF AddGoesOn, Skipped
<1>3. CASE /\ Room /\ Push(o)
           /\ pc' = next
           /\ UNCHANGED <<after, pending, kept, blocks, budget, spare>>
  <2>1. Pushed(o)
    BY <1>1, <1>3, PushFits
  <2> QED
    BY <1>3, <2>1 DEF AddGoesOn
<1>4. CASE ~Room /\ AddGrow(o) /\ pc' = next /\ UNCHANGED <<after, pending, kept>>
  <2>1. GrowOrDrop(o, budget) \/ GrowOrDrop(o, Budget)
    BY <1>4 DEF AddGrow
  <2>2. Pushed(o) \/ Skipped
    BY <1>1, <1>4, <2>1, GrowFits
  <2> QED
    BY <1>4, <2>2 DEF AddGoesOn
<1>5. CASE /\ ~Reaping /\ ~Sweeping
           /\ BeginReap(o, next)
           /\ UNCHANGED <<table, flagged, index, blocks, budget, spare>>
  BY <1>5 DEF AddReaps, BeginReap
<1> QED
  BY <1>2, <1>3, <1>4, <1>5 DEF Add

\* What holds of the table once an object without an entry was pushed, or not.
LEMMA PushTable ==
  ASSUME IInv, NEW o \in Obj, Pushed(o) \/ Skipped, pinList' = pinList,
         Reaping' = Reaping, after = "shut" => after' = "shut",
         after # "shut" => o \notin flagged
  PROVE  /\ TableInv'
         /\ table' \in Seq(Entry) /\ index' \in [Obj -> Nat]
         /\ blocks' \in Nat \ {0} /\ budget' \in 0..Budget /\ spare' \in Nat
         /\ flagged \subseteq flagged' /\ flagged' \subseteq flagged \cup {o}
         /\ pinned' \subseteq pinned \cup live
<1>1. TypeOK /\ TableInv
  BY DEF IInv
<1>2. CASE Skipped
  <2>1. TableInv'
    BY <1>1, <1>2 DEF Skipped, TableInv, Entered, FoundIn, Entries
  <2> QED
    BY <1>1, <1>2, <2>1 DEF Skipped, TypeOK
<1>3. CASE Pushed(o)
  <2>1. /\ table' = Append(table, o) /\ flagged' = flagged \cup {o}
        /\ index' = [index EXCEPT ![o] = Len(table) + 1]
        /\ pinned' = IF Reaping THEN pinned ELSE pinned \ {o}
    BY <1>3 DEF Pushed, Push
  <2>2. /\ Len(table) \in Nat /\ DOMAIN table = 1..Len(table)
        /\ DOMAIN table' = 1..(Len(table) + 1)
        /\ (\A i \in 1..Len(table) : table'[i] = table[i])
        /\ table'[Len(table) + 1] = o
    BY <1>1, <2>1 DEF TypeOK, Entry
  <2>3. /\ index' \in [Obj -> Nat] /\ index'[o] = Len(table) + 1
        /\ \A x \in Obj \ {o} : index'[x] = index[x]
    BY <1>1, <2>1, <2>2 DEF TypeOK
  <2>4. SUFFICES ASSUME after' # "shut" PROVE TableInv'
    BY <1>1, <1>3, <2>1, <2>3 DEF Pushed, TableInv, TypeOK
  <2>5. after # "shut"
    BY <2>4
  <2>6. Entered(table)'
    BY <1>1, <2>1, <2>2, <2>3, <2>5 DEF TableInv, Entered, TypeOK
  <2>7. o \notin Entries(pinList) /\ Entered(pinList)'
    BY <1>1, <2>1, <2>3, <2>5 DEF TableInv, Entered, Entries, TypeOK
  <2>8. \A x \in flagged' : FoundIn(table, x)' \/ FoundIn(pinList, x)'
    BY <1>1, <2>1, <2>2, <2>3, <2>5 DEF TableInv, FoundIn, TypeOK
  <2>9. Entries(table') \subseteq Entries(table) \cup {o}
    BY <2>2 DEF Entries
  <2>10. Entries(table') \cap Entries(pinList') = {} /\ pinned' \cap Entries(pinList') = {}
    BY <1>1, <2>1, <2>5, <2>7, <2>9 DEF TableInv
  <2>11. ~Reaping' => pinList' = <<>> /\ pinned' \cap flagged' = {}
    BY <1>1, <2>1, <2>5 DEF TableInv
  <2> QED
    BY <1>3, <2>1, <2>6, <2>7, <2>8, <2>10, <2>11 DEF Pushed, TableInv
<1> QED
  BY <1>2, <1>3

\* The same for Add.
LEMMA AddTable ==
  ASSUME IInv, NEW o \in Obj, NEW next, Add(o, next), pinList' = pinList,
         after # "shut" => o \notin flagged, pc # "shut", next \in {"pop", "final"} <=> Reaping
  PROVE  /\ TableInv'
         /\ table' \in Seq(Entry) /\ index' \in [Obj -> Nat]
         /\ blocks' \in Nat \ {0} /\ budget' \in 0..Budget /\ spare' \in Nat
         /\ flagged \subseteq flagged' /\ flagged' \subseteq flagged \cup {o}
         /\ pinned' \subseteq pinned \cup live
<1>1. TypeOK /\ TableInv
  BY DEF IInv
<1>2. CASE AddReaps(o, next)
  <2>1. after # "shut"
    BY <1>2 DEF AddReaps, IInv, PhaseInv, Sweeping
  <2>2. pinList = <<>> /\ Entries(pinList) = {}
    BY <1>1, <1>2, <2>1 DEF AddReaps, TableInv, Entries
  <2>3. Entered(table)' /\ Entered(pinList)'
    BY <1>1, <1>2, <2>1 DEF AddReaps, TableInv, Entered
  <2>4. \A x \in flagged' : FoundIn(table, x)' \/ FoundIn(pinList, x)'
    BY <1>1, <1>2, <2>1 DEF AddReaps, TableInv, FoundIn
  <2>5. Reaping'
    BY <1>2 DEF AddReaps, Reaping
  <2>6. TableInv'
    BY <1>1, <1>2, <2>2, <2>3, <2>4, <2>5 DEF AddReaps, TableInv
  <2> QED
    BY <1>1, <1>2, <2>6 DEF AddReaps, TypeOK
<1>3. CASE AddGoesOn(o, next)
  <2>1. (Pushed(o) \/ Skipped) /\ Reaping' = Reaping /\ after' = after
    BY <1>3 DEF AddGoesOn, Reaping
  <2> QED
    BY <2>1, PushTable
<1> QED
  BY <1>2, <1>3, AddCases

\* What Add does to the control, to the pins and to the flags.
AddTurn(o, next) ==
  \/ /\ pc' = next /\ UNCHANGED <<after, pending, kept>>
     /\ Reaping => pinned' = pinned
  \/ /\ ~Reaping /\ ~Sweeping /\ pc' = "pop" /\ after' = next /\ pending' = o
     /\ live \cap (roots \cup {o}) \subseteq kept' /\ kept' = pinned' \cap live
     /\ flagged' = flagged

LEMMA AddControl ==
  ASSUME IInv, NEW o \in Obj, NEW next, Add(o, next)
  PROVE  AddTurn(o, next)
BY AddCases DEF AddTurn, AddGoesOn, AddReaps, Pushed, Push, Skipped, Reaping

-----------------------------------------------------------------------------
(* Removing an object from the table.                                       *)

LEMMA RemoveTable ==
  ASSUME IInv, NEW o \in Obj, RemoveIfFlagged(o), pinList' = pinList,
         blocks' = blocks, after' = after, Reaping' = Reaping,
         pinned' \subseteq pinned,
         after # "shut" /\ o \in flagged => o \notin Entries(pinList)
  PROVE  /\ TableInv' /\ RemoveFindsWhileRunning'
         /\ flagged' = flagged \ {o} /\ missed' \in BOOLEAN
         /\ table' \in Seq(Entry) /\ index' \in [Obj -> Nat]
<1>1. TypeOK /\ TableInv /\ RemoveFindsWhileRunning
  BY DEF IInv
<1>2. CASE o \notin flagged
  <2>1. UNCHANGED <<table, flagged, index, missed>>
    BY <1>2 DEF RemoveIfFlagged
  <2>2. TableInv'
    BY <1>1, <2>1 DEF TableInv, Entered, FoundIn, Entries
  <2> QED
    BY <1>1, <1>2, <2>1, <2>2 DEF TypeOK, RemoveFindsWhileRunning
<1>3. CASE o \in flagged
  <2>1. /\ missed' = (missed \/ index[o] \notin DOMAIN table \/ table[index[o]] # o)
        /\ table' = IF index[o] \in DOMAIN table
                    THEN [table EXCEPT ![index[o]] = Null] ELSE table
        /\ flagged' = flagged \ {o}
        /\ index' = [index EXCEPT ![o] = 0]
    BY <1>3 DEF RemoveIfFlagged, Remove
  <2>2. /\ DOMAIN table = 1..Len(table) /\ Len(table) \in Nat
        /\ table' \in Seq(Entry) /\ Len(table') = Len(table)
    <3>1. table \in Seq(Entry) /\ Null \in Entry
      BY <1>1 DEF TypeOK, Entry
    <3>2. index[o] \in DOMAIN table =>
            /\ [table EXCEPT ![index[o]] = Null] \in Seq(Entry)
            /\ Len([table EXCEPT ![index[o]] = Null]) = Len(table)
      BY <3>1, Overwrite
    <3>3. table' \in Seq(Entry) /\ Len(table') = Len(table)
      BY <2>1, <3>1, <3>2
    <3> QED
      BY <3>1, <3>3
  <2>3. /\ index' \in [Obj -> Nat]
        /\ \A x \in Obj \ {o} : index'[x] = index[x]
    BY <1>1, <2>1 DEF TypeOK
  <2>4. missed' \in BOOLEAN
    BY <1>1, <2>1 DEF TypeOK
  <2>5. SUFFICES ASSUME after # "shut" PROVE TableInv' /\ RemoveFindsWhileRunning'
    <3>1. after = "shut" => TableInv' /\ RemoveFindsWhileRunning'
      BY <1>1, <2>2 DEF TableInv, RemoveFindsWhileRunning
    <3> QED
      BY <3>1, <2>1, <2>2, <2>3, <2>4
  <2>6. FoundIn(table, o)
    BY <1>1, <1>3, <2>5 DEF TableInv, FoundIn, Entries
  <2>7. \A i \in 1..Len(table) :
          table'[i] = IF i = index[o] THEN Null ELSE table[i]
    BY <2>1, <2>2, <2>6, <1>1 DEF FoundIn, TypeOK
  <2>8. DOMAIN table' = 1..Len(table)
    BY <2>2
  <2>9. Entered(table)'
    BY <1>1, <2>1, <2>2, <2>3, <2>5, <2>6, <2>7, <2>8 DEF TableInv, Entered, FoundIn, TypeOK
  <2>10. Entered(pinList)'
    BY <1>1, <1>3, <2>1, <2>3, <2>5 DEF TableInv, Entered, Entries, TypeOK
  <2>11. \A x \in flagged' : FoundIn(table, x)' \/ FoundIn(pinList, x)'
    <3> SUFFICES ASSUME NEW x \in flagged \ {o}
                 PROVE  FoundIn(table, x)' \/ FoundIn(pinList, x)'
      BY <2>1
    <3>1. x \in Obj /\ index'[x] = index[x]
      BY <1>1, <2>3 DEF TypeOK
    <3>2. CASE FoundIn(table, x)
      <4>1. index[x] \in 1..Len(table) /\ table[index[x]] = x /\ index[x] # index[o]
        BY <3>2, <2>2, <2>6 DEF FoundIn
      <4> QED
        BY <3>1, <4>1, <2>7, <2>8 DEF FoundIn
    <3>3. CASE FoundIn(pinList, x)
      BY <3>1, <3>3 DEF FoundIn
    <3> QED
      BY <1>1, <2>5, <3>2, <3>3 DEF TableInv
  <2>12. Entries(table') \subseteq Entries(table)
    BY <2>2, <2>7, <2>8 DEF Entries
  <2>13. Entries(table') \cap Entries(pinList') = {} /\ pinned' \cap Entries(pinList') = {}
    BY <1>1, <2>5, <2>12 DEF TableInv
  <2>14. ~Reaping' => pinList' = <<>> /\ pinned' \cap flagged' = {}
    BY <1>1, <2>1, <2>5 DEF TableInv
  <2>15. RemoveFindsWhileRunning'
    BY <1>1, <2>1, <2>5, <2>6 DEF FoundIn, RemoveFindsWhileRunning
  <2> QED
    BY <1>1, <2>2, <2>5, <2>9, <2>10, <2>11, <2>13, <2>14, <2>15 DEF TableInv
<1> QED
  BY <1>2, <1>3

-----------------------------------------------------------------------------
(* Reference counts.                                                        *)

\* What IncrementRef does to the counts.
Incremented(o) ==
  /\ rc' \in [Obj -> 0..StickyCount]
  /\ \A x \in Obj \ {o} : rc'[x] = rc[x]
  /\ rc[o] <= rc'[o]
  /\ sticky \subseteq sticky' /\ sticky' \subseteq sticky \cup {o}
  /\ o \notin sticky' => rc'[o] = rc[o] + 1 /\ rc'[o] < StickyCount

LEMMA IncrementFacts ==
  ASSUME IInv, NEW o \in live, IncrementRef(o), pinList' = pinList,
         blocks' = blocks, after' = after, Reaping' = Reaping, after # "shut",
         pinned' = pinned, o \notin Entries(pinList)
  PROVE  /\ Incremented(o) /\ TableInv' /\ RemoveFindsWhileRunning'
         /\ flagged' = flagged \ {o} /\ missed' \in BOOLEAN
         /\ table' \in Seq(Entry) /\ index' \in [Obj -> Nat]
<1>1. TypeOK /\ TableInv /\ RemoveFindsWhileRunning /\ o \in Obj /\ rc[o] \in 0..StickyCount
  BY DEF IInv, TypeOK
<1>2. o \notin sticky => rc[o] < StickyCount
  BY <1>1 DEF IInv, CountInv
<1>3. CASE o \in sticky
  <2>1. UNCHANGED <<rc, sticky, table, flagged, index, missed>>
    BY <1>3 DEF IncrementRef
  <2>2. o \notin flagged
    BY <1>3 DEF IInv, DeadInv
  <2>3. RemoveIfFlagged(o)
    BY <2>1, <2>2 DEF RemoveIfFlagged
  <2> QED
    BY <1>1, <1>3, <2>1, <2>3, RemoveTable DEF Incremented, TypeOK
<1>4. CASE o \notin sticky
  <2>1. /\ rc' = [rc EXCEPT ![o] = rc[o] + 1]
        /\ IF rc[o] + 1 = StickyCount
           THEN sticky' = sticky \cup {o} /\ UNCHANGED <<table, flagged, index, missed>>
           ELSE RemoveIfFlagged(o) /\ UNCHANGED sticky
    BY <1>4 DEF IncrementRef
  <2>2. Incremented(o)
    BY <1>1, <1>2, <1>4, <2>1 DEF Incremented, TypeOK
  <2>3. rc[o] + 1 = StickyCount => o \notin flagged
    BY <1>1, <1>4 DEF IInv, CountInv, ZeroCountsOnly
  <2>4. RemoveIfFlagged(o)
    BY <2>1, <2>3 DEF RemoveIfFlagged
  <2> QED
    BY <1>1, <2>2, <2>4, RemoveTable
<1> QED
  BY <1>3, <1>4

\* What DecrementRef does to the counts, the flags and the control.
Decremented(o, next) ==
  /\ rc' \in [Obj -> 0..StickyCount]
  /\ \A x \in Obj \ {o} : rc'[x] = rc[x]
  /\ rc[o] - 1 <= rc'[o] /\ rc'[o] <= rc[o]
  /\ o \in sticky => rc'[o] = rc[o]
  /\ o \in live \ sticky /\ rc[o] > 0 => rc'[o] = rc[o] - 1
  /\ flagged \subseteq flagged' /\ flagged' \subseteq flagged \cup {o}
  /\ o \in flagged' \ flagged => o \in live \ sticky /\ rc[o] = 1 /\ rc'[o] = 0
  /\ \/ /\ pc' = next /\ UNCHANGED <<after, pending, kept>>
        /\ Reaping => pinned' = pinned
     \/ AddTurn(o, next) /\ o \in live \ sticky /\ rc[o] = 1 /\ rc'[o] = 0

LEMMA DecrementFacts ==
  ASSUME IInv, NEW o \in Obj, NEW next, DecrementRef(o, next), pinList' = pinList,
         pc # "shut", next \in {"pop", "final"} <=> Reaping
  PROVE  /\ Decremented(o, next) /\ TableInv'
         /\ table' \in Seq(Entry) /\ index' \in [Obj -> Nat]
         /\ blocks' \in Nat \ {0} /\ budget' \in 0..Budget /\ spare' \in Nat
         /\ pinned' \subseteq pinned \cup live
<1>1. TypeOK /\ TableInv /\ rc \in [Obj -> 0..StickyCount] /\ rc[o] \in 0..StickyCount
  BY DEF IInv, TypeOK
<1>2. CASE o \notin live \/ o \in sticky \/ rc[o] # 1
  <2>1. /\ rc' = IF o \in live \ sticky /\ rc[o] > 1
                 THEN [rc EXCEPT ![o] = rc[o] - 1] ELSE rc
        /\ pc' = next
        /\ UNCHANGED <<after, pending, kept, table, flagged, index, pinned,
                       blocks, budget, spare>>
    BY <1>2 DEF DecrementRef
  <2>2. Reaping' = Reaping
    BY <2>1 DEF Reaping
  <2>3. TableInv'
    BY <1>1, <2>1, <2>2 DEF TableInv, Entered, FoundIn, Entries
  <2>4. Decremented(o, next)
    BY <1>1, <1>2, <2>1 DEF Decremented
  <2> QED
    BY <1>1, <2>1, <2>3, <2>4 DEF TypeOK
<1>3. CASE o \in live /\ o \notin sticky /\ rc[o] = 1
  <2>1. rc' = [rc EXCEPT ![o] = 0] /\ Add(o, next)
    BY <1>3 DEF DecrementRef
  <2>2. after # "shut" => o \notin flagged
    BY <1>3 DEF IInv, CountInv, ZeroCountsOnly
  <2>3. /\ TableInv'
        /\ table' \in Seq(Entry) /\ index' \in [Obj -> Nat]
        /\ blocks' \in Nat \ {0} /\ budget' \in 0..Budget /\ spare' \in Nat
        /\ flagged \subseteq flagged' /\ flagged' \subseteq flagged \cup {o}
        /\ pinned' \subseteq pinned \cup live
    BY <2>1, <2>2, AddTable
  <2>4. AddTurn(o, next)
    BY <2>1, AddControl
  <2>5. Decremented(o, next)
    BY <1>1, <1>3, <2>1, <2>3, <2>4 DEF Decremented
  <2> QED
    BY <2>3, <2>5
<1> QED
  BY <1>2, <1>3

LEMMA LowerCounts ==
  ASSUME TypeOK, CountInv, NEW o \in Obj, NEW next, Decremented(o, next), sticky' = sticky
  PROVE  \A x \in (Obj \ sticky)' : rc'[x] < StickyCount
<1>1. rc' \in [Obj -> 0..StickyCount] /\ (\A x \in Obj \ {o} : rc'[x] = rc[x])
      /\ rc'[o] <= rc[o] /\ \A x \in Obj \ sticky : rc[x] < StickyCount
  BY DEF Decremented, CountInv
<1>2. rc'[o] \in Nat /\ rc[o] \in Nat
  BY <1>1 DEF TypeOK
<1> QED
  BY <1>1, <1>2

\* The count of o is exact: the conjunct of CountExact that is about o.
Exact(o) == rc[o] = Cardinality(Refs(o)) + excess[o]

LEMMA ExactIs ==
  CountExact <=> (after # "shut" => \A o \in live \ sticky : Exact(o))
BY DEF CountExact, Exact, Refs

LEMMA ExactSame ==
  ASSUME NEW o, Exact(o), rc'[o] = rc[o], excess'[o] = excess[o], Refs(o)' = Refs(o)
  PROVE  Exact(o)'
BY DEF Exact

LEMMA ExactMore ==
  ASSUME TypeOK, NEW o \in Obj, Exact(o), rc'[o] = rc[o] + 1, excess'[o] = excess[o],
         NEW p, p \notin Refs(o), Refs(o)' = Refs(o) \cup {p}
  PROVE  Exact(o)'
<1>1. excess[o] \in Nat
  BY DEF TypeOK
<1> QED
  BY <1>1, RefsFinite, OneMore DEF Exact

LEMMA ExactLess ==
  ASSUME TypeOK, NEW o \in Obj, Exact(o), rc'[o] = rc[o] - 1, excess'[o] = excess[o],
         NEW p, p \in Refs(o), Refs(o)' = Refs(o) \ {p}
  PROVE  Exact(o)'
<1>1. excess[o] \in Nat
  BY DEF TypeOK
<1> QED
  BY <1>1, RefsFinite, OneLess DEF Exact

\* What is counted in excess is taken from the count with it.
LEMMA ExactMoved ==
  ASSUME NEW o, Exact(o), rc[o] \in Int, rc'[o] \in Int, excess[o] \in Int,
         Cardinality(Refs(o)) \in Int,
         excess'[o] = excess[o] + rc'[o] - rc[o], Refs(o)' = Refs(o)
  PROVE  Exact(o)'
BY DEF Exact

-----------------------------------------------------------------------------
(* The initial states, and the steps of the program.                        *)

LEMMA EntriesFlagged ==
  ASSUME IInv, after # "shut"
  PROVE  Entries(table) \cup Entries(pinList) \subseteq flagged
BY DEF IInv, TableInv, Entered, Entries

LEMMA InitIInv ==
  ASSUME Init
  PROVE  IInv
<1>1. TypeOK
  <2>1. {live, sticky, pinned, flagged, roots, held, marked, kept} \subseteq SUBSET Obj
    BY DEF Init
  <2>2. rc \in [Obj -> 0..StickyCount] /\ index \in [Obj -> Nat] /\ field \in [Obj -> Entry]
    BY DEF Init, Entry
  <2>3. table \in Seq(Entry) /\ pinList \in Seq(Entry)
    BY DEF Init
  <2>4. blocks \in Nat \ {0} /\ budget \in 0..Budget /\ spare \in Nat
    BY DEF Init
  <2>5. /\ pc = "run" /\ after = "run" /\ missed \in BOOLEAN
        /\ pending \in Entry /\ dying \in Entry
    BY DEF Init, Entry
  <2>6. {store, inner} \subseteq Entry \X Entry
    BY DEF Init, Entry, NoStore
  <2>7. excess \in [Obj -> Nat]
    BY DEF Init
  <2> QED
    BY <2>1, <2>2, <2>3, <2>4, <2>5, <2>6, <2>7 DEF TypeOK
<1>2. DeadInv /\ WaitingInv /\ InnerInv /\ PhaseInv /\ DyingInv /\ KeptInv /\ MarkInv
      /\ NoDangling /\ RemoveFindsWhileRunning
  BY DEF Init, DeadInv, WaitingInv, Overwritten, InnerInv, PhaseInv, DyingInv, KeptInv, MarkInv, NoDangling,
         RemoveFindsWhileRunning, Reaping, Sweeping, Entries, Closed
<1>3. CountInv
  BY FS_EmptySet DEF Init, CountInv, CountExact, ZeroCountsOnly
<1>4. TableInv
  BY DEF Init, TableInv, Entered, FoundIn, Entries
<1> QED
  BY <1>1, <1>2, <1>3, <1>4 DEF IInv

LEMMA NewStep ==
  ASSUME IInv, NEW o \in Obj, New(o)
  PROVE  IInv'
<1>1. /\ pc = "run" /\ o \notin live /\ live' = live \cup {o} /\ roots' = roots \cup {o}
      /\ Add(o, "run")
      /\ UNCHANGED <<rc, sticky, field, pinList, store, inner, dying, held, marked, missed, excess>>
  BY DEF New
<1>2. /\ TypeOK /\ DeadInv /\ CountInv /\ TableInv /\ NoDangling
      /\ RemoveFindsWhileRunning
  BY DEF IInv
<1>3. /\ after = "run" /\ pending = Null /\ store = NoStore /\ dying = Null
      /\ held = {} /\ kept = {} /\ marked = {} /\ pinList = <<>>
      /\ roots \subseteq live /\ ~Reaping /\ ~Sweeping
      /\ \A p \in live : field[p] # Null => field[p] \in live
  BY <1>1, Running DEF Reaping, Sweeping
<1>4. /\ rc[o] = 0 /\ excess[o] = 0 /\ field[o] = Null /\ o \notin sticky \cup pinned \cup flagged
      /\ o # Null
  BY <1>1, <1>2 DEF DeadInv
<1>5. /\ TableInv'
      /\ table' \in Seq(Entry) /\ index' \in [Obj -> Nat]
      /\ blocks' \in Nat \ {0} /\ budget' \in 0..Budget /\ spare' \in Nat
      /\ flagged \subseteq flagged' /\ flagged' \subseteq flagged \cup {o}
      /\ pinned' \subseteq pinned \cup live
  BY <1>1, <1>3, <1>4, AddTable
<1>6. \/ /\ pc' = "run" /\ UNCHANGED <<after, pending, kept>>
      \/ /\ pc' = "pop" /\ after' = "run" /\ pending' = o
         /\ live \cap (roots \cup {o}) \subseteq kept' /\ kept' = pinned' \cap live
         /\ flagged' = flagged
  BY <1>1, AddControl DEF AddTurn
<1>7. after' = "run" /\ kept' \subseteq live /\ pending' \in {Null, o}
  BY <1>3, <1>6
<1>8. TypeOK'
  <2>1. {live, sticky, pinned, flagged, roots, held, marked, kept}' \subseteq SUBSET Obj
    BY <1>1, <1>2, <1>5, <1>7 DEF TypeOK
  <2> QED
    BY <1>1, <1>2, <1>5, <1>6, <1>7, <2>1 DEF TypeOK, Entry
<1>9. DeadInv'
  BY <1>1, <1>2, <1>3, <1>4, <1>5, <1>7 DEF DeadInv
<1>10. CountInv'
  <2>1. \A x \in live \ sticky : Exact(x) /\ Refs(x)' = Refs(x)
    BY <1>1, <1>2, <1>3, <1>4, ExactIs DEF CountInv, Refs, TypeOK
  <2>2. Refs(o)' = {}
    BY <1>1, <1>3, <1>4 DEF Refs
  <2>3. Exact(o)'
    BY <1>1, <1>4, <2>2, FS_EmptySet DEF Exact
  <2>4. \A x \in (live \ sticky)' : Exact(x)'
    BY <1>1, <2>1, <2>3, ExactSame DEF Exact
  <2>5. CountExact'
    BY <2>4, <1>7 DEF CountExact, Exact, Refs
  <2> QED
    BY <1>1, <1>2, <1>3, <1>4, <1>5, <2>5 DEF CountInv, ZeroCountsOnly
<1>11. WaitingInv'
  BY <1>1, <1>3, <1>4, <1>6, <1>7 DEF WaitingInv, Overwritten, NoStore
<1>12. PhaseInv'
  BY <1>1, <1>3, <1>4, <1>6, <1>7 DEF PhaseInv, Reaping, Sweeping
<1>13. DyingInv'
  BY <1>1, <1>3, <1>6 DEF DyingInv
<1>14. KeptInv'
  BY <1>1, <1>3, <1>6 DEF KeptInv, Reaping
<1>15. MarkInv' /\ NoDangling' /\ RemoveFindsWhileRunning'
  BY <1>1, <1>2, <1>3, <1>4, <1>6
     DEF MarkInv, NoDangling, RemoveFindsWhileRunning, Sweeping
<1>i. InnerInv'
  BY <1>1, NoInner DEF InnerInv
<1> QED
  BY <1>i, <1>5, <1>8, <1>9, <1>10, <1>11, <1>12, <1>13, <1>14, <1>15 DEF IInv

LEMMA LoadStep ==
  ASSUME IInv, NEW p \in Obj, Load(p)
  PROVE  IInv'
<1>1. /\ pc = "run" /\ p \in roots /\ field[p] # Null /\ roots' = roots \cup {field[p]}
      /\ UNCHANGED <<object, memory, control, missed, excess>>
  BY DEF Load
<1>2. /\ after = "run" /\ pending = Null /\ store = NoStore /\ roots \subseteq live
      /\ \A q \in live : field[q] # Null => field[q] \in live
  BY <1>1, Running
<1>3. roots' \subseteq live
  BY <1>1, <1>2
<1>4. TypeOK' /\ DeadInv'
  <2>1. {live, sticky, pinned, flagged, roots, held, marked, kept}' \subseteq SUBSET Obj
    BY <1>1, <1>3 DEF IInv, TypeOK, object, control
  <2>2. TypeOK'
    BY <1>1, <2>1 DEF IInv, TypeOK, object, memory, control
  <2> QED
    BY <1>1, <1>3, <2>2 DEF IInv, DeadInv, object, control
<1>5. CountInv' /\ TableInv' /\ RemoveFindsWhileRunning' /\ DyingInv'
  BY <1>1 DEF IInv, CountInv, CountExact, ZeroCountsOnly, TableInv, Entered, FoundIn,
              Entries, Reaping, RemoveFindsWhileRunning, DyingInv, object, memory, control
<1>6. WaitingInv' /\ PhaseInv' /\ KeptInv' /\ MarkInv' /\ NoDangling'
  BY <1>1, <1>2, <1>3
     DEF IInv, WaitingInv, Overwritten, PhaseInv, KeptInv, MarkInv, NoDangling, NoStore, Reaping, Sweeping,
         object, memory, control
<1>i. InnerInv'
  BY <1>1, NoInner DEF InnerInv, control
<1> QED
  BY <1>i, <1>4, <1>5, <1>6 DEF IInv

LEMMA ForgetStep ==
  ASSUME IInv, NEW o \in Obj, Forget(o)
  PROVE  IInv'
<1>1. /\ pc = "run" /\ roots' = roots \ {o}
      /\ UNCHANGED <<object, memory, control, missed, excess>>
  BY DEF Forget
<1>2. after = "run" /\ pending = Null /\ store = NoStore /\ roots \subseteq live
  BY <1>1, Running
<1>3. roots' \subseteq live
  BY <1>1, <1>2
<1>4. TypeOK' /\ DeadInv'
  <2>1. {live, sticky, pinned, flagged, roots, held, marked, kept}' \subseteq SUBSET Obj
    BY <1>1, <1>3 DEF IInv, TypeOK, object, control
  <2>2. TypeOK'
    BY <1>1, <2>1 DEF IInv, TypeOK, object, memory, control
  <2> QED
    BY <1>1, <1>3, <2>2 DEF IInv, DeadInv, object, control
<1>5. CountInv' /\ TableInv' /\ RemoveFindsWhileRunning' /\ DyingInv'
  BY <1>1 DEF IInv, CountInv, CountExact, ZeroCountsOnly, TableInv, Entered, FoundIn,
              Entries, Reaping, RemoveFindsWhileRunning, DyingInv, object, memory, control
<1>6. WaitingInv' /\ PhaseInv' /\ KeptInv' /\ MarkInv' /\ NoDangling'
  BY <1>1, <1>2, <1>3
     DEF IInv, WaitingInv, Overwritten, PhaseInv, KeptInv, MarkInv, NoDangling, NoStore, Reaping, Sweeping,
         object, memory, control
<1>i. InnerInv'
  BY <1>1, NoInner DEF InnerInv, control
<1> QED
  BY <1>i, <1>4, <1>5, <1>6 DEF IInv

LEMMA StickStep ==
  ASSUME IInv, NEW o \in Obj, Stick(o)
  PROVE  IInv'
<1>1. /\ pc = "run" /\ o \in roots \ sticky /\ sticky' = sticky \cup {o}
      /\ RemoveIfFlagged(o)
      /\ UNCHANGED <<live, rc, pinned, field, roots, blocks, budget, spare, pinList, control,
                     excess>>
  BY DEF Stick
<1>2. /\ TypeOK /\ DeadInv /\ CountInv /\ TableInv /\ NoDangling
      /\ RemoveFindsWhileRunning
  BY DEF IInv
<1>3. /\ after = "run" /\ pending = Null /\ store = NoStore /\ pinList = <<>>
      /\ roots \subseteq live
  BY <1>1, Running
<1>4. UNCHANGED <<pc, after, pending, store, inner, dying, held, marked, kept>> /\ Reaping' = Reaping
  BY <1>1 DEF control, Reaping
<1>5. Entries(pinList) = {}
  BY <1>3 DEF Entries
<1>6. /\ TableInv' /\ RemoveFindsWhileRunning'
      /\ flagged' = flagged \ {o} /\ missed' \in BOOLEAN
      /\ table' \in Seq(Entry) /\ index' \in [Obj -> Nat]
  BY <1>1, <1>4, <1>5, RemoveTable
<1>7. TypeOK' /\ DeadInv'
  <2>1. {live, sticky, pinned, flagged, roots, held, marked, kept}' \subseteq SUBSET Obj
    BY <1>1, <1>2, <1>4, <1>6 DEF TypeOK
  <2>2. TypeOK'
    BY <1>1, <1>2, <1>4, <1>6, <2>1 DEF TypeOK
  <2> QED
    BY <1>1, <1>2, <1>3, <1>4, <1>6, <2>2 DEF DeadInv
<1>8. CountInv'
  BY <1>1, <1>2, <1>4, <1>6 DEF CountInv, CountExact, ZeroCountsOnly
<1>9. WaitingInv' /\ PhaseInv' /\ DyingInv' /\ KeptInv' /\ MarkInv' /\ NoDangling'
  BY <1>1, <1>3, <1>4
     DEF IInv, WaitingInv, Overwritten, PhaseInv, DyingInv, KeptInv, MarkInv, NoDangling, NoStore, Closed,
         Reaping, Sweeping
<1>i. InnerInv'
  BY <1>1, NoInner DEF InnerInv, control
<1> QED
  BY <1>i, <1>6, <1>7, <1>8, <1>9 DEF IInv

LEMMA StoreBeginStep ==
  ASSUME IInv, NEW p \in Obj, NEW v \in Entry, StoreBegin(p, v)
  PROVE  IInv'
<1>1. /\ pc = "run" /\ p \in roots /\ v \in roots \cup {Null} /\ store' = <<p, v>>
      /\ UNCHANGED <<live, sticky, field, roots, pinList, inner, dying, held, marked, missed, excess>>
  BY DEF StoreBegin
<1>2. /\ TypeOK /\ DeadInv /\ CountInv /\ TableInv /\ NoDangling
      /\ RemoveFindsWhileRunning
  BY DEF IInv
<1>3. /\ after = "run" /\ pending = Null /\ store = NoStore /\ dying = Null
      /\ held = {} /\ kept = {} /\ marked = {} /\ pinList = <<>> /\ store[1] = Null
      /\ inner[1] = Null
      /\ roots \subseteq live /\ ~Reaping /\ ~Sweeping
      /\ \A q \in live : field[q] # Null => field[q] \in live
  BY <1>1, Running DEF Reaping, Sweeping, NoStore
<1>4. p \in live /\ p # Null /\ store'[1] = p /\ store'[2] = v /\ store' # NoStore
      /\ store' \in Entry \X Entry
  BY <1>1, <1>2, <1>3 DEF TypeOK, NoStore, Entry
<1>5. \A x : Refs(x)' = Refs(x) \ {p}
  <2>1. Null \notin live
    BY <1>2 DEF TypeOK
  <2> QED
    BY <1>1, <1>3, <1>4, <2>1 DEF Refs
<1>6. NoDangling' /\ RemoveFindsWhileRunning' /\ InnerInv'
  <2>1. after' # "shut" => ~missed
    BY <1>2, <1>3 DEF RemoveFindsWhileRunning
  <2> QED
    BY <1>1, <1>3, <2>1, NoInner DEF NoDangling, RemoveFindsWhileRunning, InnerInv
<1>7. CASE field[p] = Null
  <2>1. /\ pc' = "store"
        /\ UNCHANGED <<rc, after, pending, kept, table, flagged, index, pinned, blocks,
                       budget, spare>>
    BY <1>7 DEF StoreBegin
  <2>2. TypeOK' /\ DeadInv' /\ TableInv'
    <3>1. TypeOK'
      BY <1>1, <1>2, <1>4, <2>1 DEF TypeOK
    <3>2. DeadInv'
      BY <1>1, <1>2, <2>1 DEF DeadInv
    <3>3. Reaping' = Reaping
      BY <1>3, <2>1 DEF Reaping
    <3>4. TableInv'
      BY <1>1, <1>2, <2>1, <3>3 DEF TableInv, Entered, FoundIn, Entries
    <3> QED
      BY <3>1, <3>2, <3>4
  <2>3. CountInv'
    <3>1. \A x \in live \ sticky : Exact(x) /\ x \in Obj
      BY <1>2, <1>3, ExactIs DEF CountInv, TypeOK
    <3>2. \A x \in live : Refs(x)' = Refs(x)
      <4>1. \A x \in live : p \notin Refs(x)
        BY <1>2, <1>7 DEF Refs, TypeOK
      <4> QED
        BY <1>5, <4>1
    <3>3. \A x \in (live \ sticky)' : Exact(x)'
      BY <1>1, <2>1, <3>1, <3>2, ExactSame
    <3>4. CountExact'
      BY <3>3 DEF CountExact, Exact, Refs
    <3> QED
      BY <1>1, <1>2, <2>1, <3>4 DEF CountInv, ZeroCountsOnly
  <2>4. WaitingInv' /\ PhaseInv' /\ DyingInv' /\ KeptInv' /\ MarkInv'
    BY <1>1, <1>3, <1>4, <2>1
       DEF WaitingInv, Overwritten, PhaseInv, DyingInv, KeptInv, MarkInv, Reaping, Sweeping, Entries
  <2> QED
    BY <1>6, <2>2, <2>3, <2>4 DEF IInv
<1>8. CASE field[p] # Null
  <2>0. PICK w \in Obj : w = field[p]
    BY <1>2, <1>4, <1>8 DEF TypeOK, Entry
  <2>1. DecrementRef(w, "store") /\ w \in live
    BY <1>3, <1>4, <1>8, <2>0 DEF StoreBegin
  <2>2. w \in sticky \/ rc[w] > 0
    BY <1>3, <1>4, <2>0, <2>1, Referred
  <2>3. w \notin flagged /\ w # Null
    BY <1>2, <1>3, <2>2 DEF CountInv, ZeroCountsOnly, DeadInv
  <2>4. /\ Decremented(w, "store") /\ TableInv'
        /\ table' \in Seq(Entry) /\ index' \in [Obj -> Nat]
        /\ blocks' \in Nat \ {0} /\ budget' \in 0..Budget /\ spare' \in Nat
        /\ pinned' \subseteq pinned \cup live
    BY <1>1, <1>3, <2>1, DecrementFacts
  <2>5. \/ /\ pc' = "store" /\ UNCHANGED <<after, pending, kept>>
        \/ /\ pc' = "pop" /\ after' = "store" /\ pending' = w
           /\ live \cap (roots \cup {w}) \subseteq kept' /\ kept' = pinned' \cap live
           /\ flagged' = flagged /\ w \notin sticky /\ rc'[w] = 0
    BY <1>3, <2>4 DEF Decremented, AddTurn
  <2>6. TypeOK' /\ DeadInv'
    <3>1. /\ after' \in {"run", "store"} /\ pending' \in {Null, w} /\ pc' \in {"store", "pop"}
          /\ kept' \subseteq live /\ flagged' \subseteq flagged \cup {w}
          /\ w \in flagged' => w \notin sticky
      BY <1>3, <2>3, <2>4, <2>5 DEF Decremented
    <3>2. rc' \in [Obj -> 0..StickyCount]
      BY <2>4 DEF Decremented
    <3>3. {live, sticky, pinned, flagged, roots, held, marked, kept}' \subseteq SUBSET Obj
      BY <1>1, <1>2, <2>1, <2>4, <3>1 DEF TypeOK
    <3>4. TypeOK'
      BY <1>1, <1>2, <1>4, <2>1, <2>4, <3>1, <3>2, <3>3 DEF TypeOK, Entry
    <3> QED
      BY <1>1, <1>2, <2>1, <2>4, <3>1, <3>4 DEF DeadInv, Decremented
  <2>7. CountInv'
    <3>1. \A x \in live \ sticky : Exact(x) /\ x \in Obj
      BY <1>2, <1>3, ExactIs DEF CountInv, TypeOK
    <3>2. p \in Refs(w) /\ \A x \in live \ {w} : Refs(x)' = Refs(x)
      <4>1. p \in Refs(w) /\ \A x \in live \ {w} : p \notin Refs(x)
        BY <1>2, <1>3, <1>4, <2>0 DEF Refs, TypeOK
      <4> QED
        BY <1>5, <4>1
    <3>3. \A x \in (live \ sticky)' \ {w} : Exact(x)'
      BY <1>1, <2>4, <3>1, <3>2, ExactSame DEF Decremented
    <3>4. w \notin sticky => rc'[w] = rc[w] - 1
      BY <2>1, <2>2, <2>4 DEF Decremented
    <3>5. w \in (live \ sticky)' => Exact(w)'
      BY <1>1, <1>2, <1>5, <3>1, <3>2, <3>4, ExactLess
    <3>6. CountExact'
      BY <3>3, <3>5 DEF CountExact, Exact, Refs
    <3>7. ZeroCountsOnly'
      BY <1>1, <1>2, <1>3, <2>3, <2>4 DEF CountInv, ZeroCountsOnly, Decremented, TypeOK
    <3>8. \A x \in (Obj \ sticky)' : rc'[x] < StickyCount
      BY <1>1, <1>2, <2>4, LowerCounts
    <3> QED
      BY <3>6, <3>7, <3>8 DEF CountInv
  <2>8. WaitingInv' /\ PhaseInv' /\ DyingInv' /\ KeptInv' /\ MarkInv'
    <3>2. WaitingInv'
      BY <1>1, <1>3, <1>4, <2>0, <2>1, <2>3, <2>5 DEF WaitingInv, Overwritten
    <3>3. PhaseInv' /\ DyingInv'
      BY <1>1, <1>3, <1>4, <2>3, <2>5 DEF PhaseInv, DyingInv, Reaping, Sweeping
    <3>4. KeptInv' /\ MarkInv'
      BY <1>1, <1>3, <2>5 DEF KeptInv, MarkInv, Reaping, Sweeping
    <3> QED
      BY <3>2, <3>3, <3>4
  <2> QED
    BY <1>6, <2>4, <2>6, <2>7, <2>8 DEF IInv
<1> QED
  BY <1>7, <1>8

LEMMA StoreEndStep ==
  ASSUME IInv, StoreEnd
  PROVE  IInv'
<1>1. /\ pc = "store" /\ pc' = "run" /\ store' = NoStore
      /\ field' = [field EXCEPT ![store[1]] = store[2]]
      /\ UNCHANGED <<live, pinned, roots, blocks, budget, spare, pinList, after,
                     pending, inner, dying, held, marked, kept, excess>>
  BY DEF StoreEnd
<1>2. /\ TypeOK /\ DeadInv /\ CountInv /\ TableInv /\ NoDangling
      /\ RemoveFindsWhileRunning
  BY DEF IInv
<1>3. /\ after = "run" /\ pending = Null /\ store # NoStore /\ dying = Null
      /\ held = {} /\ kept = {} /\ marked = {} /\ ~Reaping /\ ~Sweeping
  BY <1>1 DEF IInv, PhaseInv, DyingInv, Reaping, Sweeping
<1>4. pinList = <<>> /\ Entries(pinList) = {} /\ Reaping' = Reaping /\ ~Sweeping'
  BY <1>1, <1>2, <1>3 DEF TableInv, Entries, Reaping, Sweeping
<1>5. PICK p \in live : p = store[1] /\ p \in roots
  BY <1>2, <1>3 DEF NoDangling, IInv, WaitingInv, Overwritten
<1>6. PICK v \in live \cup {Null} : v = store[2]
  BY <1>2, <1>3 DEF NoDangling, IInv, WaitingInv, Overwritten
<1>7. /\ p \in Obj /\ p # Null /\ Null \notin live /\ field' \in [Obj -> Entry]
      /\ field'[p] = v /\ \A q \in Obj \ {p} : field'[q] = field[q]
  BY <1>1, <1>2, <1>5, <1>6 DEF TypeOK, Entry
<1>8. store'[1] = Null /\ store' \in Entry \X Entry /\ inner[1] = Null
  BY <1>1, NoInner DEF NoStore, Entry
<1>9. \A x \in live : Refs(x)' = IF x = v THEN Refs(x) \cup {p} ELSE Refs(x)
  <2>1. live \subseteq Obj
    BY <1>2 DEF TypeOK
  <2>2. inner'[1] = Null
    BY <1>1, <1>8
  <2> QED
    BY <1>1, <1>5, <1>7, <1>8, <2>1, <2>2 DEF Refs
<1>10. /\ TableInv' /\ RemoveFindsWhileRunning'
       /\ flagged' \subseteq flagged /\ missed' \in BOOLEAN
       /\ table' \in Seq(Entry) /\ index' \in [Obj -> Nat]
       /\ rc' \in [Obj -> 0..StickyCount]
       /\ sticky \subseteq sticky' /\ sticky' \subseteq live
       /\ \A x \in Obj \ sticky' :
            /\ rc'[x] < StickyCount
            /\ rc'[x] = IF x = v THEN rc[x] + 1 ELSE rc[x]
       /\ v \notin flagged'
       /\ sticky' \cap flagged' = {}
  <2>1. sticky \subseteq live
    BY <1>2 DEF DeadInv, TypeOK
  <2>2. CASE v = Null
    <3>1. UNCHANGED <<rc, sticky, table, flagged, index, missed>>
      BY <1>6, <2>2 DEF StoreEnd
    <3>2. TableInv'
      BY <1>1, <1>2, <1>4, <3>1 DEF TableInv, Entered, FoundIn, Entries
    <3>3. RemoveFindsWhileRunning'
      BY <1>1, <1>2, <3>1 DEF RemoveFindsWhileRunning
    <3> QED
      BY <1>2, <2>1, <2>2, <3>1, <3>2, <3>3 DEF TypeOK, CountInv, DeadInv
  <2>3. CASE v # Null
    <3>1. IncrementRef(v) /\ v \in live /\ v \notin Entries(pinList)
      BY <1>4, <1>6, <2>3 DEF StoreEnd
    <3>2. /\ Incremented(v) /\ TableInv' /\ RemoveFindsWhileRunning'
          /\ flagged' = flagged \ {v} /\ missed' \in BOOLEAN
          /\ table' \in Seq(Entry) /\ index' \in [Obj -> Nat]
      BY <1>1, <1>3, <1>4, <3>1, IncrementFacts
    <3>3. \A x \in Obj \ sticky : rc[x] < StickyCount
      BY <1>2 DEF CountInv
    <3> QED
      BY <1>2, <2>1, <3>1, <3>2, <3>3 DEF Incremented, DeadInv
  <2> QED
    BY <2>2, <2>3
<1>11. TypeOK' /\ DeadInv'
  <2>0. {store, inner}' \subseteq Entry \X Entry
    BY <1>1, <1>2, <1>8 DEF TypeOK
  <2>1. {live, sticky, pinned, flagged, roots, held, marked, kept}' \subseteq SUBSET Obj
    BY <1>1, <1>2, <1>10 DEF TypeOK
  <2>2. TypeOK'
    BY <1>1, <1>2, <1>7, <1>8, <1>10, <2>1, <2>0 DEF TypeOK
  <2>3. \A x \in Obj \ live : rc'[x] = 0 /\ field'[x] = Null
    <3> SUFFICES ASSUME NEW x \in Obj \ live PROVE rc'[x] = 0 /\ field'[x] = Null
      OBVIOUS
    <3>1. rc[x] = 0 /\ field[x] = Null
      BY <1>2 DEF DeadInv
    <3>2. rc'[x] = rc[x]
      BY <1>5, <1>6, <1>10
    <3>3. field'[x] = field[x]
      BY <1>5, <1>7
    <3> QED
      BY <3>1, <3>2, <3>3
  <2> QED
    BY <1>1, <1>2, <1>10, <2>2, <2>3 DEF DeadInv
<1>12. CountInv'
  <2>1. \A x \in live \ sticky : Exact(x) /\ x \in Obj
    BY <1>2, <1>3, ExactIs DEF CountInv, TypeOK
  <2>2. ASSUME NEW x \in live \ sticky' PROVE Exact(x)'
    <3>1. x \in live \ sticky /\ x \in Obj
      BY <1>10, <2>1, <2>2
    <3>2. CASE x = v
      <4>1. rc'[x] = rc[x] + 1 /\ Exact(x) /\ Refs(x)' = Refs(x) \cup {p}
        BY <1>9, <1>10, <2>1, <2>2, <3>1, <3>2
      <4>2. p \notin Refs(x)
        BY <1>5 DEF Refs
      <4> QED
        BY <1>1, <1>2, <3>1, <4>1, <4>2, ExactMore
    <3>3. CASE x # v
      <4>1. rc'[x] = rc[x] /\ Exact(x) /\ Refs(x)' = Refs(x)
        BY <1>9, <1>10, <2>1, <2>2, <3>1, <3>3
      <4> QED
        BY <1>1, <4>1, ExactSame
    <3> QED
      BY <3>2, <3>3
  <2>3. CountExact'
    BY <1>1, <2>2 DEF CountExact, Exact, Refs
  <2>4. ZeroCountsOnly'
    <3>1. \A x \in flagged \ sticky : rc[x] = 0 /\ x \in Obj
      BY <1>2, <1>3 DEF CountInv, ZeroCountsOnly, TypeOK
    <3>2. \A x \in flagged' \ sticky' : rc'[x] = 0
      BY <1>10, <3>1
    <3> QED
      BY <3>2 DEF ZeroCountsOnly
  <2> QED
    BY <1>10, <2>3, <2>4 DEF CountInv
<1>13. WaitingInv' /\ PhaseInv' /\ DyingInv' /\ KeptInv' /\ MarkInv'
  BY <1>1, <1>3, <1>4
     DEF WaitingInv, Overwritten, PhaseInv, DyingInv, KeptInv, MarkInv, Reaping, Sweeping
<1>14. NoDangling'
  BY <1>1, <1>2, <1>3, <1>5, <1>6, <1>7 DEF NoDangling, TypeOK
<1>i. InnerInv'
  BY <1>1, NoInner DEF InnerInv
<1> QED
  BY <1>i, <1>10, <1>11, <1>12, <1>13, <1>14 DEF IInv

LEMMA AddAfterReapStep ==
  ASSUME IInv, AddAfterReap
  PROVE  IInv'
<1>1. /\ pc = "add" /\ pc' = after /\ after' = "run" /\ pending' = Null
      /\ UNCHANGED <<live, rc, sticky, field, roots, pinList, store, inner, dying, held,
                     marked, kept, missed, excess>>
  BY DEF AddAfterReap
<1>2. /\ TypeOK /\ DeadInv /\ CountInv /\ TableInv /\ NoDangling
      /\ RemoveFindsWhileRunning
  BY DEF IInv
<1>3. /\ after \in {"run", "store"} /\ dying = Null
      /\ held = {} /\ kept = {} /\ marked = {} /\ ~Reaping /\ ~Sweeping
  BY <1>1, <1>2 DEF IInv, TypeOK, PhaseInv, DyingInv, Reaping, Sweeping
<1>4. PICK o \in Obj : o = pending /\ o \in live \ (flagged \cup sticky) /\ rc[o] = 0
  BY <1>1, <1>2 DEF IInv, WaitingInv, Overwritten, PhaseInv, TypeOK, Entry
<1>5. Reaping' = Reaping /\ ~Reaping' /\ ~Sweeping'
  BY <1>1, <1>3 DEF Reaping, Sweeping
<1>6. Pushed(o) \/ Skipped
  <2>1. Budget \in 0..Budget
    OBVIOUS
  <2>2. CASE Room
    <3>1. Push(o) /\ budget' = Budget /\ UNCHANGED <<blocks, spare>>
      BY <1>4, <2>2 DEF AddAfterReap
    <3>2. spare' \in Nat /\ (blocks - 1) * BlockSize <= Len(table)
          /\ Len(table) <= blocks * BlockSize
      BY <1>2, <3>1 DEF TypeOK, TableInv
    <3> QED
      BY <1>2, <2>1, <2>2, <3>1, <3>2, PushFits
  <2>3. CASE ~Room
    <3>1. GrowOrDrop(o, Budget)
      BY <1>4, <2>3 DEF AddAfterReap
    <3> QED
      BY <2>1, <2>3, <3>1, GrowFits
  <2> QED
    BY <2>2, <2>3
<1>7. /\ TableInv'
      /\ table' \in Seq(Entry) /\ index' \in [Obj -> Nat]
      /\ blocks' \in Nat \ {0} /\ budget' \in 0..Budget /\ spare' \in Nat
      /\ flagged \subseteq flagged' /\ flagged' \subseteq flagged \cup {o}
      /\ pinned' \subseteq pinned \cup live
  BY <1>1, <1>3, <1>4, <1>5, <1>6, PushTable
<1>8. TypeOK' /\ DeadInv'
  <2>1. {live, sticky, pinned, flagged, roots, held, marked, kept}' \subseteq SUBSET Obj
    BY <1>1, <1>2, <1>7 DEF TypeOK
  <2>2. pending' \in Entry
    BY <1>1 DEF Entry
  <2>3. TypeOK'
    BY <1>1, <1>2, <1>3, <1>7, <2>1, <2>2 DEF TypeOK
  <2> QED
    BY <1>1, <1>2, <1>4, <1>7, <2>3 DEF DeadInv
<1>9. CountInv'
  <2>1. CountExact'
    BY <1>1, <1>2, <1>3 DEF CountInv, CountExact
  <2>2. ZeroCountsOnly'
    BY <1>1, <1>2, <1>3, <1>4, <1>7 DEF CountInv, ZeroCountsOnly
  <2> QED
    BY <1>1, <1>2, <2>1, <2>2 DEF CountInv
<1>10. WaitingInv' /\ PhaseInv' /\ DyingInv' /\ KeptInv' /\ MarkInv'
  <2>1. WaitingInv'
    BY <1>1 DEF IInv, WaitingInv, Overwritten, NoStore
  <2>2. PhaseInv'
    <3>1. store # NoStore <=> after = "store"
      BY <1>1 DEF IInv, PhaseInv, WaitingInv, Overwritten
    <3> QED
      BY <1>1, <1>3, <3>1 DEF PhaseInv, Reaping, Sweeping
  <2> QED
    BY <1>1, <1>3, <1>5, <2>1, <2>2 DEF IInv, DyingInv, KeptInv, MarkInv, Entries
<1>11. NoDangling' /\ RemoveFindsWhileRunning'
  BY <1>1, <1>2, <1>3 DEF NoDangling, RemoveFindsWhileRunning
<1>i. InnerInv'
  BY <1>1, NoInner DEF InnerInv
<1> QED
  BY <1>i, <1>7, <1>8, <1>9, <1>10, <1>11 DEF IInv

-----------------------------------------------------------------------------
(* The steps of a Reap.                                                     *)

LEMMA ReapStep ==
  ASSUME IInv, Reap
  PROVE  IInv'
<1>1. /\ pc = "run" /\ BeginReap(Null, "run")
      /\ UNCHANGED <<live, rc, sticky, flagged, index, field, roots, memory, store,
                     inner, dying, held, marked, missed, excess>>
  BY DEF Reap
<1>2. /\ TypeOK /\ DeadInv /\ CountInv /\ TableInv /\ NoDangling
      /\ RemoveFindsWhileRunning
  BY DEF IInv
<1>3. /\ after = "run" /\ store = NoStore /\ dying = Null
      /\ held = {} /\ marked = {} /\ pinList = <<>>
      /\ roots \subseteq live /\ ~Reaping /\ ~Sweeping
  BY <1>1, Running DEF Reaping, Sweeping
<1>4. /\ pc' = "pop" /\ after' = "run" /\ pending' = Null
      /\ pinned \subseteq pinned' /\ pinned' \subseteq pinned \cup live
      /\ roots \subseteq kept' /\ kept' = pinned' \cap live
  BY <1>1, <1>3 DEF BeginReap
<1>5. UNCHANGED <<table, blocks, budget, spare, pinList>>
  BY <1>1 DEF memory
<1>6. Entries(pinList) = {} /\ Reaping' /\ ~Sweeping'
  BY <1>3, <1>4 DEF Entries, Reaping, Sweeping
<1>7. TypeOK' /\ DeadInv'
  <2>1. {live, sticky, pinned, flagged, roots, held, marked, kept}' \subseteq SUBSET Obj
    BY <1>1, <1>2, <1>4 DEF TypeOK
  <2>2. TypeOK'
    BY <1>1, <1>2, <1>4, <1>5, <2>1 DEF TypeOK, Entry
  <2> QED
    BY <1>1, <1>2, <1>4, <2>2 DEF DeadInv
<1>8. CountInv' /\ RemoveFindsWhileRunning'
  BY <1>1, <1>2, <1>3, <1>4 DEF CountInv, CountExact, ZeroCountsOnly, RemoveFindsWhileRunning
<1>9. TableInv'
  BY <1>1, <1>2, <1>3, <1>5, <1>6 DEF TableInv, Entered, FoundIn
<1>10. WaitingInv' /\ PhaseInv' /\ DyingInv' /\ KeptInv' /\ MarkInv' /\ NoDangling'
  BY <1>1, <1>2, <1>3, <1>4, <1>5, <1>6
     DEF WaitingInv, Overwritten, PhaseInv, DyingInv, KeptInv, MarkInv, NoDangling
<1>i. InnerInv'
  BY <1>1, NoInner DEF InnerInv
<1> QED
  BY <1>i, <1>7, <1>8, <1>9, <1>10 DEF IInv

\* What is left of the table once its last entry is popped.
LEMMA PoppedTable ==
  ASSUME TypeOK, TableInv, table # <<>>, table' = SeqExt!Front(table),
         blocks' = IF Len(table) = (blocks - 1) * BlockSize THEN blocks - 1 ELSE blocks
  PROVE  /\ table' \in Seq(Entry) /\ Len(table) \in Nat \ {0} /\ Len(table') = Len(table) - 1
         /\ DOMAIN table = 1..Len(table) /\ DOMAIN table' = 1..(Len(table) - 1)
         /\ \A i \in 1..(Len(table) - 1) : table'[i] = table[i]
         /\ SeqExt!Last(table) = table[Len(table)] /\ table[Len(table)] \in Entry
         /\ blocks' \in Nat \ {0}
         /\ (blocks' - 1) * BlockSize <= Len(table') /\ Len(table') <= blocks' * BlockSize
<1>1. table \in Seq(Entry) /\ blocks \in Nat \ {0}
  BY DEF TypeOK
<1>2. /\ table' \in Seq(Entry) /\ Len(table) \in Nat \ {0} /\ Len(table') = Len(table) - 1
      /\ \A i \in 1..(Len(table) - 1) : table'[i] = table[i]
      /\ SeqExt!Last(table) = table[Len(table)] /\ table[Len(table)] \in Entry
  BY <1>1, FrontLast
<1>3. DOMAIN table = 1..Len(table) /\ DOMAIN table' = 1..(Len(table) - 1)
  BY <1>1, <1>2
<1>4. /\ blocks * BlockSize \in Nat /\ (blocks - 1) * BlockSize = blocks * BlockSize - BlockSize
      /\ (blocks - 1 - 1) * BlockSize = blocks * BlockSize - BlockSize - BlockSize
  BY <1>1, Products
<1>5. (blocks - 1) * BlockSize <= Len(table) /\ Len(table) <= blocks * BlockSize
  BY DEF TableInv
<1>6. CASE Len(table) = (blocks - 1) * BlockSize
  <2>1. blocks' = blocks - 1
    BY <1>6
  <2>2. blocks # 1
    BY <1>2, <1>4, <1>6
  <2>3. (blocks' - 1) * BlockSize = blocks * BlockSize - BlockSize - BlockSize
        /\ blocks' * BlockSize = blocks * BlockSize - BlockSize
    BY <1>4, <2>1
  <2>4. (blocks' - 1) * BlockSize <= Len(table') /\ Len(table') <= blocks' * BlockSize
    BY <1>2, <1>4, <1>6, <2>3
  <2> QED
    BY <1>1, <1>2, <1>3, <2>1, <2>2, <2>4
<1>7. CASE Len(table) # (blocks - 1) * BlockSize
  <2>1. blocks' = blocks
    BY <1>7
  <2>2. (blocks - 1) * BlockSize <= Len(table) - 1
    <3>1. \A a, b \in Int : a <= b /\ b # a => a <= b - 1
      OBVIOUS
    <3>2. (blocks - 1) * BlockSize \in Int /\ Len(table) \in Int
      BY <1>1, <1>2, <1>4
    <3> QED
      BY <1>5, <1>7, <3>1, <3>2
  <2>3. (blocks' - 1) * BlockSize <= Len(table') /\ Len(table') <= blocks' * BlockSize
    BY <1>2, <1>4, <1>5, <2>1, <2>2
  <2> QED
    BY <1>1, <1>2, <1>3, <2>1, <2>3
<1> QED
  BY <1>6, <1>7

\* The last entry of the table during a Reap.
LEMMA LastEntry ==
  ASSUME IInv, pc = "pop", table # <<>>, NEW o \in Obj, o = table[Len(table)]
  PROVE  /\ after # "shut" /\ o \in flagged /\ index[o] = Len(table)
         /\ o \notin Entries(pinList) /\ o \in live \ sticky /\ rc[o] = 0
         /\ o # pending /\ o # Null
<1>1. Len(table) \in DOMAIN table /\ o # Null /\ after # "shut"
  BY DEF IInv, TypeOK, PhaseInv
<1>2. o \in flagged /\ index[o] = Len(table)
  BY <1>1 DEF IInv, TableInv, Entered
<1>3. o \in Entries(table)
  BY <1>1 DEF Entries
<1>4. o \notin Entries(pinList)
  BY <1>1, <1>3 DEF IInv, TableInv
<1>5. o \in live \ sticky /\ rc[o] = 0
  BY <1>1, <1>2 DEF IInv, DeadInv, CountInv, ZeroCountsOnly
<1>6. o # pending
  BY <1>1, <1>2 DEF IInv, WaitingInv, Overwritten
<1> QED
  BY <1>1, <1>2, <1>4, <1>5, <1>6

LEMMA PopEmptyStep ==
  ASSUME IInv, PopEmpty
  PROVE  IInv'
<1>1. /\ pc = "pop" /\ table # <<>> /\ table' = SeqExt!Front(table)
      /\ blocks' = IF Len(table) = (blocks - 1) * BlockSize THEN blocks - 1 ELSE blocks
      /\ spare' \in {spare, spare + 1} /\ budget' = budget
      /\ SeqExt!Last(table) = Null
      /\ UNCHANGED <<object, roots, pinList, control, missed, excess>>
  BY DEF PopEmpty, Pop
<1>2. /\ TypeOK /\ DeadInv /\ CountInv /\ TableInv /\ NoDangling
      /\ RemoveFindsWhileRunning
  BY DEF IInv
<1>3. after # "shut" /\ Reaping
  BY <1>1 DEF IInv, PhaseInv, Reaping
<1>4. /\ UNCHANGED <<live, rc, sticky, pinned, flagged, index, field>>
      /\ UNCHANGED <<pc, after, pending, store, inner, dying, held, marked, kept>>
      /\ Reaping' = Reaping /\ Sweeping' = Sweeping
  BY <1>1 DEF object, control, Reaping, Sweeping
<1>5. /\ table' \in Seq(Entry) /\ Len(table) \in Nat \ {0}
      /\ DOMAIN table = 1..Len(table) /\ DOMAIN table' = 1..(Len(table) - 1)
      /\ \A i \in 1..(Len(table) - 1) : table'[i] = table[i]
      /\ table[Len(table)] = Null
  BY <1>1, <1>2, PoppedTable
<1>5a. /\ blocks' \in Nat \ {0}
      /\ (blocks' - 1) * BlockSize <= Len(table') /\ Len(table') <= blocks' * BlockSize
  BY <1>1, <1>2, PoppedTable
<1>6. TypeOK' /\ DeadInv' /\ CountInv'
  <2>1. spare' \in Nat
    BY <1>1, <1>2 DEF TypeOK
  <2>2. TypeOK'
    BY <1>1, <1>2, <1>4, <1>5, <1>5a, <2>1 DEF TypeOK
  <2> QED
    BY <1>1, <1>2, <1>4, <2>2 DEF DeadInv, CountInv, CountExact, ZeroCountsOnly
<1>7. TableInv'
  <2>1. Entered(table)' /\ Entered(pinList)'
    BY <1>1, <1>2, <1>3, <1>4, <1>5 DEF TableInv, Entered
  <2>2. \A x \in flagged' : FoundIn(table, x)' \/ FoundIn(pinList, x)'
    <3> SUFFICES ASSUME NEW x \in flagged, FoundIn(table, x) PROVE FoundIn(table, x)'
      BY <1>1, <1>2, <1>3, <1>4 DEF TableInv, FoundIn
    <3>1. index[x] # Len(table)
      BY <1>2, <1>5 DEF FoundIn, TypeOK
    <3>2. index[x] \in 1..(Len(table) - 1)
      BY <1>5, <3>1 DEF FoundIn
    <3> QED
      BY <1>4, <1>5, <3>2 DEF FoundIn
  <2>3. Entries(table') \subseteq Entries(table)
    BY <1>5 DEF Entries
  <2> QED
    BY <1>1, <1>2, <1>3, <1>4, <1>5a, <2>1, <2>2, <2>3 DEF TableInv
<1>8. WaitingInv' /\ PhaseInv' /\ DyingInv' /\ KeptInv'
  BY <1>1, <1>4 DEF IInv, WaitingInv, Overwritten, PhaseInv, DyingInv, KeptInv
<1>9. MarkInv' /\ NoDangling' /\ RemoveFindsWhileRunning'
  BY <1>1, <1>4 DEF IInv, MarkInv, Closed, NoDangling, RemoveFindsWhileRunning
<1>i. InnerInv'
  BY <1>1, NoInner DEF InnerInv, control
<1> QED
  BY <1>i, <1>6, <1>7, <1>8, <1>9 DEF IInv

\* The pinning table, with a link where a block starts.
Linked(s) == IF Len(s) % BlockSize = 0 THEN Append(s, Null) ELSE s

LEMMA LinkedEntries ==
  ASSUME NEW s \in Seq(Entry), NEW o \in Obj
  PROVE  LET t == Append(Linked(s), o)
         IN /\ t \in Seq(Entry) /\ Len(Linked(s)) \in Nat
            /\ DOMAIN s = 1..Len(s) /\ DOMAIN t = 1..(Len(Linked(s)) + 1)
            /\ Len(s) \in Nat /\ Len(s) <= Len(Linked(s))
            /\ \A i \in 1..Len(s) : t[i] = s[i]
            /\ t[Len(Linked(s)) + 1] = o
            /\ \A i \in DOMAIN t : i <= Len(s) \/ i = Len(Linked(s)) + 1 \/ t[i] = Null
            /\ Entries(t) = Entries(s) \cup {o}
<1> DEFINE l == Linked(s)
           t == Append(l, o)
<1>1. l \in Seq(Entry) /\ Len(l) \in {Len(s), Len(s) + 1} /\ Len(s) \in Nat
      /\ (\A i \in 1..Len(s) : l[i] = s[i])
      /\ (Len(l) = Len(s) + 1 => l[Len(s) + 1] = Null)
  <2>1. CASE Len(s) % BlockSize = 0
    <3>1. l = Append(s, Null) /\ Null \in Entry
      BY <2>1 DEF Linked, Entry
    <3> QED
      BY <3>1
  <2>2. CASE Len(s) % BlockSize # 0
    BY <2>2 DEF Linked
  <2> QED
    BY <2>1, <2>2
<1> HIDE DEF l
<1>2. t = Append(l, o) /\ o \in Entry
  BY DEF Entry
<1> HIDE DEF t
<1>3. /\ t \in Seq(Entry) /\ DOMAIN t = 1..(Len(l) + 1) /\ DOMAIN s = 1..Len(s)
      /\ (\A i \in 1..Len(l) : t[i] = l[i]) /\ t[Len(l) + 1] = o
  BY <1>1, <1>2
<1>4. \A i \in DOMAIN t : i <= Len(s) \/ i = Len(l) + 1 \/ t[i] = Null
  BY <1>1, <1>3
<1>5. \A i \in 1..Len(s) : t[i] = s[i]
  BY <1>1, <1>3
<1>6. Entries(t) = Entries(s) \cup {o}
  <2>1. Entries(t) \subseteq Entries(s) \cup {o}
    <3> SUFFICES ASSUME NEW i \in DOMAIN t, t[i] # Null PROVE t[i] \in Entries(s) \cup {o}
      BY DEF Entries
    <3>1. CASE i = Len(l) + 1
      BY <1>3, <3>1
    <3>2. CASE i # Len(l) + 1
      <4>1. i \in 1..Len(s) /\ t[i] = s[i]
        BY <1>1, <1>3, <1>4, <1>5, <3>2
      <4> QED
        BY <1>3, <4>1 DEF Entries
    <3> QED
      BY <3>1, <3>2
  <2>2. Entries(s) \subseteq Entries(t)
    <3> SUFFICES ASSUME NEW i \in DOMAIN s, s[i] # Null PROVE s[i] \in Entries(t)
      BY DEF Entries
    <3>1. i \in DOMAIN t /\ t[i] = s[i]
      BY <1>1, <1>3, <1>5
    <3> QED
      BY <3>1 DEF Entries
  <2>3. o \in Entries(t)
    BY <1>1, <1>3 DEF Entries
  <2> QED
    BY <2>1, <2>2, <2>3
<1> QED
  BY <1>1, <1>3, <1>4, <1>5, <1>6 DEF l, t

LEMMA PopPinnedStep ==
  ASSUME IInv, PopPinned
  PROVE  IInv'
<1>0. PICK o \in Obj : o = SeqExt!Last(table)
  BY DEF IInv, TypeOK, PopPinned
<1>1. /\ pc = "pop" /\ table # <<>> /\ o \in pinned /\ table' = SeqExt!Front(table)
      /\ blocks' = IF Len(table) = (blocks - 1) * BlockSize THEN blocks - 1 ELSE blocks
      /\ UNCHANGED <<live, rc, sticky, field, roots, budget, control, missed, excess>>
  BY <1>0 DEF PopPinned
<1>2. \/ /\ pinList' = Append(Linked(pinList), o)
         /\ index' = [index EXCEPT ![o] = Len(Linked(pinList)) + 1]
         /\ pinned' = pinned \ {o} /\ flagged' = flagged
      \/ /\ flagged' = flagged \ {o}
         /\ index' = [index EXCEPT ![o] = 0]
         /\ UNCHANGED <<pinList, pinned>>
  BY <1>0 DEF PopPinned, Linked
<1>3. /\ TypeOK /\ DeadInv /\ CountInv /\ TableInv /\ NoDangling
      /\ RemoveFindsWhileRunning /\ KeptInv
  BY DEF IInv
<1>4. spare' \in Nat
  <2> DEFINE free == spare + (IF Len(table) = (blocks - 1) * BlockSize THEN 1 ELSE 0)
  <2>1. free \in Nat
    BY <1>3 DEF TypeOK
  <2>2. spare' = free \/ (free > 0 /\ spare' = free - 1)
    BY DEF PopPinned
  <2> HIDE DEF free
  <2> QED
    BY <2>1, <2>2
<1>5. /\ UNCHANGED <<pc, after, pending, store, inner, dying, held, marked, kept>>
      /\ Reaping /\ Reaping' = Reaping /\ Sweeping' = Sweeping /\ held = {} /\ ~Sweeping
  BY <1>1 DEF IInv, PhaseInv, control, Reaping, Sweeping
<1>6. /\ table' \in Seq(Entry) /\ Len(table) \in Nat \ {0}
      /\ DOMAIN table = 1..Len(table) /\ DOMAIN table' = 1..(Len(table) - 1)
      /\ \A i \in 1..(Len(table) - 1) : table'[i] = table[i]
  BY <1>1, <1>3, PoppedTable
<1>6a. /\ blocks' \in Nat \ {0}
      /\ (blocks' - 1) * BlockSize <= Len(table') /\ Len(table') <= blocks' * BlockSize
  BY <1>1, <1>3, PoppedTable
<1>7. /\ after # "shut" /\ o \in flagged /\ index[o] = Len(table)
      /\ o \notin Entries(pinList) /\ o \in live \ sticky /\ rc[o] = 0
  <2>1. table[Len(table)] = o
    BY <1>0, <1>1, <1>3, PoppedTable
  <2> QED
    BY <1>1, <2>1, LastEntry
<1>8. /\ flagged' \subseteq flagged /\ pinned' \subseteq pinned
      /\ index' \in [Obj -> Nat] /\ (\A x \in Obj \ {o} : index'[x] = index[x])
      /\ pinList \in Seq(Entry) /\ Len(Linked(pinList)) \in Nat
  <2>1. pinList \in Seq(Entry) /\ index \in [Obj -> Nat]
    BY <1>3 DEF TypeOK
  <2>2. Len(Linked(pinList)) \in Nat
    BY <2>1, LinkedEntries
  <2>3. index' \in [Obj -> Nat] /\ \A x \in Obj \ {o} : index'[x] = index[x]
    BY <1>2, <2>1, <2>2
  <2>4. flagged' \subseteq flagged /\ pinned' \subseteq pinned
    BY <1>2
  <2> QED
    BY <2>1, <2>2, <2>3, <2>4
<1>9. pinList' \in Seq(Entry)
  <2>1. Append(Linked(pinList), o) \in Seq(Entry)
    BY <1>8, LinkedEntries
  <2> QED
    BY <1>2, <1>8, <2>1
<1>10. TypeOK' /\ DeadInv' /\ CountInv'
  <2>1. {live, sticky, pinned, flagged, roots, held, marked, kept}' \subseteq SUBSET Obj
    BY <1>1, <1>3, <1>5, <1>8 DEF TypeOK
  <2>2. TypeOK'
    BY <1>1, <1>3, <1>4, <1>5, <1>6, <1>6a, <1>8, <1>9, <2>1 DEF TypeOK
  <2>3. DeadInv'
    BY <1>1, <1>3, <1>5, <1>8 DEF DeadInv
  <2> QED
    BY <1>1, <1>3, <1>5, <1>8, <2>2, <2>3 DEF CountInv, CountExact, ZeroCountsOnly
<1>11. \A i \in 1..(Len(table) - 1) : table[i] # o
  <2>1. \A i \in 1..(Len(table) - 1) : i \in DOMAIN table /\ i # Len(table)
    <3>1. Len(table) \in Nat \ {0} /\ DOMAIN table = 1..Len(table)
      BY <1>6
    <3>2. \A n \in Nat \ {0} : \A i \in 1..(n - 1) : i \in 1..n /\ i # n
      OBVIOUS
    <3>3. \A i \in 1..(Len(table) - 1) : i \in 1..Len(table) /\ i # Len(table)
      BY <3>1, <3>2
    <3> QED
      BY <3>1, <3>3
  <2> SUFFICES ASSUME NEW i \in 1..(Len(table) - 1), table[i] = o PROVE FALSE
    OBVIOUS
  <2>2. index[o] = i
    BY <1>3, <1>7, <2>1 DEF TableInv, Entered
  <2> QED
    BY <1>7, <2>1, <2>2
<1>12. \A x \in Obj \ {o} : FoundIn(table, x) => FoundIn(table, x)'
  <2> SUFFICES ASSUME NEW x \in Obj \ {o}, FoundIn(table, x) PROVE FoundIn(table, x)'
    OBVIOUS
  <2>1. index[x] \in 1..Len(table) /\ table[index[x]] = x
    BY <1>6 DEF FoundIn
  <2>2. table[Len(table)] # x
    BY <1>0, <1>1, <1>3, PoppedTable
  <2>3. index[x] \in 1..(Len(table) - 1)
    BY <1>6, <2>1, <2>2
  <2> QED
    BY <1>6, <1>8, <2>1, <2>3 DEF FoundIn
<1>13. Entries(table') \subseteq Entries(table) \ {o}
  <2> SUFFICES ASSUME NEW i \in DOMAIN table', table'[i] # Null
               PROVE  table'[i] \in Entries(table) \ {o}
    BY DEF Entries
  <2>1. i \in 1..(Len(table) - 1) /\ i \in DOMAIN table /\ table'[i] = table[i]
    BY <1>6
  <2> QED
    BY <1>11, <2>1 DEF Entries
<1>14. Entered(table)'
  <2> SUFFICES ASSUME NEW i \in DOMAIN table', table'[i] # Null
               PROVE  table'[i] \in flagged' /\ index'[table'[i]] = i
    BY DEF Entered
  <2>1. i \in DOMAIN table /\ i \in 1..(Len(table) - 1) /\ table'[i] = table[i]
    BY <1>6
  <2>2. table[i] \in flagged /\ index[table[i]] = i
    BY <1>3, <1>7, <2>1 DEF TableInv, Entered
  <2>3. table[i] \in Obj \ {o}
    BY <1>3, <1>11, <2>1, <2>2 DEF TypeOK
  <2> QED
    BY <1>2, <1>8, <2>1, <2>2, <2>3
<1>15. (TableInv /\ KeptInv)' => IInv'
  <2>1. WaitingInv' /\ PhaseInv' /\ DyingInv'
    BY <1>1, <1>5, <1>8 DEF IInv, WaitingInv, Overwritten, PhaseInv, DyingInv
  <2>2. MarkInv' /\ NoDangling' /\ RemoveFindsWhileRunning'
    BY <1>1, <1>3, <1>5 DEF MarkInv, NoDangling, RemoveFindsWhileRunning
  <2>3. InnerInv'
    BY <1>1, NoInner DEF InnerInv, control
  <2> QED
    BY <1>10, <2>1, <2>2, <2>3 DEF IInv
<1>16. CASE /\ pinList' = Append(Linked(pinList), o)
            /\ index' = [index EXCEPT ![o] = Len(Linked(pinList)) + 1]
            /\ pinned' = pinned \ {o} /\ flagged' = flagged
  <2>1. /\ DOMAIN pinList = 1..Len(pinList)
        /\ DOMAIN pinList' = 1..(Len(Linked(pinList)) + 1)
        /\ Len(pinList) \in Nat /\ Len(pinList) <= Len(Linked(pinList))
        /\ \A i \in 1..Len(pinList) : pinList'[i] = pinList[i]
        /\ pinList'[Len(Linked(pinList)) + 1] = o
        /\ \A i \in DOMAIN pinList' :
             i <= Len(pinList) \/ i = Len(Linked(pinList)) + 1 \/ pinList'[i] = Null
        /\ Entries(pinList') = Entries(pinList) \cup {o}
    <3> DEFINE t == Append(Linked(pinList), o)
    <3>1. /\ DOMAIN pinList = 1..Len(pinList)
          /\ DOMAIN t = 1..(Len(Linked(pinList)) + 1)
          /\ Len(pinList) \in Nat /\ Len(pinList) <= Len(Linked(pinList))
          /\ \A i \in 1..Len(pinList) : t[i] = pinList[i]
          /\ t[Len(Linked(pinList)) + 1] = o
          /\ \A i \in DOMAIN t :
               i <= Len(pinList) \/ i = Len(Linked(pinList)) + 1 \/ t[i] = Null
          /\ Entries(t) = Entries(pinList) \cup {o}
      BY <1>8, LinkedEntries
    <3>2. pinList' = t
      BY <1>16
    <3>3. Entries(pinList') = Entries(t)
      BY <3>2
    <3> HIDE DEF t
    <3> QED
      BY <3>1, <3>2, <3>3
  <2>2. index'[o] = Len(Linked(pinList)) + 1
    BY <1>3, <1>6, <1>16 DEF TypeOK
  <2>3. Entered(pinList)'
    <3> SUFFICES ASSUME NEW i \in DOMAIN pinList', pinList'[i] # Null
                 PROVE  pinList'[i] \in flagged' /\ index'[pinList'[i]] = i
      BY DEF Entered
    <3>1. CASE i = Len(Linked(pinList)) + 1
      BY <1>7, <1>16, <2>1, <2>2, <3>1
    <3>2. CASE i # Len(Linked(pinList)) + 1
      <4>1. i \in DOMAIN pinList /\ pinList'[i] = pinList[i]
        BY <1>8, <2>1, <3>2
      <4>2. pinList[i] \in flagged /\ index[pinList[i]] = i
        BY <1>3, <1>7, <4>1 DEF TableInv, Entered
      <4>3. pinList[i] # o /\ pinList[i] \in Obj
        BY <1>3, <1>7, <4>1, <4>2 DEF Entries, TypeOK
      <4> QED
        BY <1>8, <1>16, <4>1, <4>2, <4>3
    <3> QED
      BY <3>1, <3>2
  <2>4. \A x \in flagged' : FoundIn(table, x)' \/ FoundIn(pinList, x)'
    <3> SUFFICES ASSUME NEW x \in flagged
                 PROVE  FoundIn(table, x)' \/ FoundIn(pinList, x)'
      BY <1>16
    <3>1. CASE x = o
      BY <1>8, <2>1, <2>2, <3>1 DEF FoundIn
    <3>2. CASE x # o /\ FoundIn(table, x)
      BY <1>3, <1>12, <3>2 DEF TypeOK
    <3>3. CASE x # o /\ FoundIn(pinList, x)
      <4>1. index'[x] = index[x] /\ index[x] \in 1..Len(pinList) /\ pinList[index[x]] = x
        BY <1>3, <1>8, <2>1, <3>3 DEF FoundIn, TypeOK
      <4>2. index[x] \in DOMAIN pinList' /\ pinList'[index[x]] = x
        BY <1>8, <2>1, <4>1
      <4> QED
        BY <4>1, <4>2 DEF FoundIn
    <3> QED
      BY <1>3, <1>7, <3>1, <3>2, <3>3 DEF TableInv
  <2>5. Entries(table') \cap Entries(pinList') = {} /\ pinned' \cap Entries(pinList') = {}
    BY <1>3, <1>7, <1>13, <1>16, <2>1 DEF TableInv
  <2>6. TableInv'
    BY <1>5, <1>6a, <1>14, <2>3, <2>4, <2>5 DEF TableInv
  <2>7. KeptInv'
    BY <1>1, <1>3, <1>5, <1>16, <2>1 DEF KeptInv
  <2> QED
    BY <2>6, <2>7, <1>10, <1>15
<1>17. CASE /\ flagged' = flagged \ {o}
            /\ UNCHANGED <<pinList, pinned>>
  <2>1. Entered(pinList)'
    BY <1>3, <1>7, <1>8, <1>17 DEF TableInv, Entered, Entries, TypeOK
  <2>2. \A x \in flagged' : FoundIn(table, x)' \/ FoundIn(pinList, x)'
    BY <1>3, <1>7, <1>8, <1>12, <1>17 DEF TableInv, FoundIn, TypeOK
  <2>3. TableInv'
    BY <1>3, <1>5, <1>6a, <1>7, <1>13, <1>14, <1>17, <2>1, <2>2 DEF TableInv
  <2>4. KeptInv'
    BY <1>1, <1>3, <1>5, <1>17 DEF KeptInv
  <2> QED
    BY <2>3, <2>4, <1>15
<1> QED
  BY <1>2, <1>16, <1>17

\* The table without its last entry, if the object of that entry is unflagged.
LEMMA PopRemoves ==
  ASSUME IInv, pc = "pop", table # <<>>, table' = SeqExt!Front(table),
         blocks' = IF Len(table) = (blocks - 1) * BlockSize THEN blocks - 1 ELSE blocks,
         NEW o \in Obj, o = SeqExt!Last(table), flagged' = flagged \ {o},
         index' = [index EXCEPT ![o] = 0],
         UNCHANGED <<pinned, pinList, after>>, Reaping'
  PROVE  TableInv'
<1>1. TypeOK /\ TableInv
  BY DEF IInv
<1>2. /\ table' \in Seq(Entry) /\ Len(table) \in Nat \ {0}
      /\ DOMAIN table = 1..Len(table) /\ DOMAIN table' = 1..(Len(table) - 1)
      /\ \A i \in 1..(Len(table) - 1) : table'[i] = table[i]
  BY <1>1, PoppedTable
<1>2a. /\ blocks' \in Nat \ {0}
      /\ (blocks' - 1) * BlockSize <= Len(table') /\ Len(table') <= blocks' * BlockSize
  BY <1>1, PoppedTable
<1>3. table[Len(table)] = o
  BY <1>1, PoppedTable
<1>4. /\ after # "shut" /\ index[o] = Len(table) /\ o \notin Entries(pinList)
  BY <1>3, LastEntry
<1>5. \A x \in Obj \ {o} : index'[x] = index[x]
  BY <1>1 DEF TypeOK
<1>6. ASSUME NEW i \in DOMAIN table', table'[i] # Null
      PROVE  /\ i \in DOMAIN table /\ table'[i] = table[i] /\ table[i] \in flagged \ {o}
             /\ index[table[i]] = i
  <2>1. i \in DOMAIN table /\ i # Len(table) /\ table'[i] = table[i]
    BY <1>2
  <2>2. table[i] \in flagged /\ index[table[i]] = i
    BY <1>1, <1>4, <1>6, <2>1 DEF TableInv, Entered
  <2> QED
    BY <1>4, <2>1, <2>2
<1>7. Entered(table)'
  BY <1>1, <1>5, <1>6 DEF Entered, TypeOK
<1>8. Entered(pinList)'
  BY <1>1, <1>4, <1>5 DEF TableInv, Entered, Entries, TypeOK
<1>9. \A x \in flagged' : FoundIn(table, x)' \/ FoundIn(pinList, x)'
  <2> SUFFICES ASSUME NEW x \in flagged \ {o}
               PROVE  FoundIn(table, x)' \/ FoundIn(pinList, x)'
    OBVIOUS
  <2>1. x \in Obj /\ index'[x] = index[x]
    BY <1>1, <1>5 DEF TypeOK
  <2>2. CASE FoundIn(table, x)
    <3>1. index[x] \in 1..Len(table) /\ table[index[x]] = x
      BY <1>2, <2>2 DEF FoundIn
    <3>2. index[x] \in 1..(Len(table) - 1)
      BY <1>2, <1>3, <3>1
    <3> QED
      BY <1>2, <2>1, <3>1, <3>2 DEF FoundIn
  <2>3. CASE FoundIn(pinList, x)
    BY <2>1, <2>3 DEF FoundIn
  <2> QED
    BY <1>1, <1>4, <2>2, <2>3 DEF TableInv
<1>10. Entries(table') \subseteq Entries(table)
  BY <1>6 DEF Entries
<1> QED
  BY <1>1, <1>2a, <1>4, <1>7, <1>8, <1>9, <1>10 DEF TableInv

LEMMA PopDyingStep ==
  ASSUME IInv, PopDying
  PROVE  IInv'
<1>0. PICK o \in Obj : o = SeqExt!Last(table)
  BY DEF PopDying
<1>1. /\ pc = "pop" /\ table # <<>> /\ o \notin pinned /\ table' = SeqExt!Front(table)
      /\ blocks' = IF Len(table) = (blocks - 1) * BlockSize THEN blocks - 1 ELSE blocks
      /\ flagged' = flagged \ {o} /\ index' = [index EXCEPT ![o] = 0]
      /\ pc' = "final" /\ dying' = o /\ budget' = budget
      /\ UNCHANGED <<live, rc, sticky, pinned, field, roots, pinList, after,
                     pending, store, inner, held, marked, kept, missed, excess>>
  BY <1>0 DEF PopDying, Pop
<1>2. /\ TypeOK /\ DeadInv /\ CountInv /\ TableInv /\ NoDangling
      /\ RemoveFindsWhileRunning /\ KeptInv
  BY DEF IInv
<1>3. spare' \in Nat
  BY <1>2 DEF PopDying, Pop, TypeOK
<1>4. Reaping /\ Reaping' /\ ~Sweeping /\ ~Sweeping' /\ held = {} /\ after # "shut"
  BY <1>1 DEF IInv, PhaseInv, Reaping, Sweeping
<1>5. TableInv'
  BY <1>0, <1>1, <1>4, PopRemoves
<1>6. /\ table' \in Seq(Entry) /\ blocks' \in Nat \ {0} /\ table[Len(table)] = o
  BY <1>0, <1>1, <1>2, PoppedTable
<1>7. /\ o \notin Entries(pinList) /\ o \in live \ sticky /\ rc[o] = 0 /\ o # pending /\ o # Null
  BY <1>1, <1>6, LastEntry
<1>8. o \notin kept
  BY <1>1, <1>2, <1>4, <1>7 DEF KeptInv
<1>9. TypeOK' /\ DeadInv'
  <2>1. {live, sticky, pinned, flagged, roots, held, marked, kept}' \subseteq SUBSET Obj
    BY <1>1, <1>2 DEF TypeOK
  <2>2. index' \in [Obj -> Nat] /\ dying' \in Entry
    BY <1>1, <1>2 DEF TypeOK, Entry
  <2>3. TypeOK'
    BY <1>1, <1>2, <1>3, <1>6, <2>1, <2>2 DEF TypeOK
  <2> QED
    BY <1>1, <1>2, <2>3 DEF DeadInv
<1>10. CountInv' /\ RemoveFindsWhileRunning'
  BY <1>1, <1>2 DEF CountInv, CountExact, ZeroCountsOnly, RemoveFindsWhileRunning
<1>11. WaitingInv'
  BY <1>1, <1>7 DEF IInv, WaitingInv, Overwritten
<1>12. PhaseInv' /\ DyingInv'
  BY <1>1, <1>4, <1>7, <1>8 DEF IInv, PhaseInv, DyingInv
<1>13. KeptInv' /\ MarkInv' /\ NoDangling'
  BY <1>1, <1>2, <1>4 DEF KeptInv, MarkInv, NoDangling
<1>i. InnerInv'
  BY <1>1, NoInner DEF InnerInv
<1> QED
  BY <1>i, <1>5, <1>9, <1>10, <1>11, <1>12, <1>13 DEF IInv

LEMMA EndReapStep ==
  ASSUME IInv, EndReap
  PROVE  IInv'
<1>1. /\ pc = "pop" /\ table = <<>> /\ pinList' = <<>> /\ kept' = {}
      /\ pc' = IF pending = Null THEN "run" ELSE "add"
      /\ UNCHANGED <<object, roots, budget, after, pending, store, inner, dying, held,
                     marked, missed, excess>>
  BY DEF EndReap
<1>2. /\ TypeOK /\ DeadInv /\ CountInv /\ TableInv /\ NoDangling
      /\ RemoveFindsWhileRunning
  BY DEF IInv
<1>3. UNCHANGED <<live, rc, sticky, pinned, flagged, index, field>>
  BY <1>1 DEF object
<1>4. /\ Reaping /\ ~Reaping' /\ ~Sweeping /\ ~Sweeping' /\ held = {} /\ after # "shut"
      /\ marked = {} /\ dying = Null
  BY <1>1 DEF IInv, PhaseInv, DyingInv, Reaping, Sweeping
<1>5. /\ table' = pinList /\ pinList \in Seq(Entry)
      /\ blocks' \in Nat \ {0} /\ spare' \in Nat
      /\ (blocks' - 1) * BlockSize <= Len(table') /\ Len(table') <= blocks' * BlockSize
  <2>1. CASE pinList = <<>>
    <3>1. UNCHANGED <<table, blocks, spare>>
      BY <2>1 DEF EndReap
    <3> QED
      BY <1>1, <1>2, <2>1, <3>1 DEF TypeOK, TableInv
  <2>2. CASE pinList # <<>>
    <3>1. /\ table' = pinList /\ spare' = spare + blocks
          /\ blocks' = (Len(pinList) + BlockSize - 1) \div BlockSize
      BY <2>2 DEF EndReap
    <3>2. pinList \in Seq(Entry) /\ Len(pinList) \in Nat \ {0} /\ spare' \in Nat
      BY <1>2, <2>2, <3>1 DEF TypeOK
    <3>3. /\ blocks' \in Nat \ {0} /\ (blocks' - 1) * BlockSize <= Len(pinList)
          /\ Len(pinList) <= blocks' * BlockSize
      BY <3>1, <3>2, BlocksFor
    <3> QED
      BY <3>1, <3>2, <3>3
  <2> QED
    BY <2>1, <2>2
<1>6. TypeOK' /\ DeadInv'
  <2>1. pinList' \in Seq(Entry)
    BY <1>1
  <2>2. {live, sticky, pinned, flagged, roots, held, marked, kept}' \subseteq SUBSET Obj
    BY <1>1, <1>2, <1>3 DEF TypeOK
  <2>3. TypeOK'
    BY <1>1, <1>2, <1>3, <1>5, <2>1, <2>2 DEF TypeOK
  <2> QED
    BY <1>1, <1>2, <1>3, <2>3 DEF DeadInv
<1>7. CountInv' /\ RemoveFindsWhileRunning'
  BY <1>1, <1>2, <1>3 DEF CountInv, CountExact, ZeroCountsOnly, RemoveFindsWhileRunning
<1>8. TableInv'
  <2>1. Entered(table)' /\ Entered(pinList)'
    BY <1>1, <1>2, <1>3, <1>4, <1>5 DEF TableInv, Entered
  <2>2. \A x \in flagged : ~FoundIn(table, x) /\ FoundIn(pinList, x)
    BY <1>1, <1>2, <1>4 DEF TableInv, FoundIn
  <2>3. \A x \in flagged' : FoundIn(table, x)'
    BY <1>3, <1>5, <2>2 DEF FoundIn
  <2>4. flagged \subseteq Entries(pinList)
    BY <1>2, <2>2 DEF FoundIn, Entries, TypeOK
  <2>5. pinned' \cap flagged' = {}
    BY <1>2, <1>3, <1>4, <2>4 DEF TableInv
  <2>6. Entries(pinList') = {}
    BY <1>1 DEF Entries
  <2> QED
    BY <1>1, <1>5, <2>1, <2>3, <2>5, <2>6 DEF TableInv
<1>9. WaitingInv' /\ PhaseInv'
  BY <1>1, <1>2, <1>3, <1>4 DEF IInv, WaitingInv, Overwritten, PhaseInv, TypeOK
<1>10. DyingInv' /\ KeptInv' /\ MarkInv' /\ NoDangling'
  BY <1>1, <1>2, <1>3, <1>4 DEF DyingInv, KeptInv, MarkInv, NoDangling
<1>i. InnerInv'
  BY <1>1, NoInner DEF InnerInv
<1> QED
  BY <1>i, <1>6, <1>7, <1>8, <1>9, <1>10 DEF IInv

-----------------------------------------------------------------------------
(* The steps of a finalizer.                                                *)

LEMMA FinalizerDropStep ==
  ASSUME IInv, FinalizerDrop
  PROVE  IInv'
<1>1. /\ pc \in {"final", "sweepFinal"} /\ inner = NoStore /\ field[dying] # Null
      /\ DecrementRef(field[dying], pc)
      /\ field' = [field EXCEPT ![dying] = Null]
      /\ held' = IF Reaping THEN held \cup {field[dying]} ELSE held
      /\ UNCHANGED <<live, sticky, roots, pinList, store, inner, dying, marked, missed, excess>>
  BY DEF FinalizerDrop
<1>2. /\ TypeOK /\ DeadInv /\ CountInv /\ TableInv /\ NoDangling
      /\ RemoveFindsWhileRunning /\ MarkInv /\ KeptInv
  BY DEF IInv
<1>3. PICK d \in live : d = dying
  BY <1>1 DEF IInv, DyingInv
<1>4. PICK v \in Obj : v = field[d]
  BY <1>1, <1>2, <1>3 DEF TypeOK, Entry
<1>5. /\ d \in Obj /\ d # Null /\ v # Null /\ inner[1] = Null /\ field' \in [Obj -> Entry] /\ field'[d] = Null
      /\ \A q \in Obj \ {d} : field'[q] = field[q]
  BY <1>1, <1>2, <1>3, <1>4 DEF TypeOK, Entry, NoStore
<1>6. /\ Decremented(v, pc) /\ TableInv'
      /\ table' \in Seq(Entry) /\ index' \in [Obj -> Nat]
      /\ blocks' \in Nat \ {0} /\ budget' \in 0..Budget /\ spare' \in Nat
      /\ pinned' \subseteq pinned \cup live
  BY <1>1, <1>3, <1>4, DecrementFacts DEF Reaping
<1>7. /\ pc' = pc /\ UNCHANGED <<after, pending, kept>> /\ (Reaping => pinned' = pinned)
      /\ Reaping' = Reaping /\ Sweeping' = Sweeping
  BY <1>1, <1>6 DEF Decremented, AddTurn, Reaping, Sweeping
<1>8. /\ rc' \in [Obj -> 0..StickyCount] /\ (\A x \in Obj \ {v} : rc'[x] = rc[x])
      /\ (v \in live \ sticky /\ rc[v] > 0 => rc'[v] = rc[v] - 1)
      /\ rc'[v] <= rc[v]
      /\ flagged \subseteq flagged' /\ flagged' \subseteq flagged \cup {v}
      /\ (v \in flagged' \ flagged => v \in live \ sticky /\ rc[v] = 1 /\ rc'[v] = 0)
  BY <1>6 DEF Decremented
<1>9. ASSUME pc = "final"
      PROVE  /\ after # "shut" /\ d # store[1] /\ v \in live
             /\ v # d /\ v # pending /\ v \notin flagged
             /\ (v \in sticky \/ rc[v] > 0)
  <2>1. after # "shut" /\ d # store[1] /\ d \notin sticky /\ rc[d] = 0
        /\ \A q \in live : field[q] # d
    BY <1>3, <1>9, DyingAlone DEF IInv, DyingInv
  <2>2. v \in live
    BY <1>2, <1>3, <1>4, <1>5, <1>9 DEF NoDangling, Sweeping
  <2>3. v \in sticky \/ rc[v] > 0
    BY <1>1, <1>3, <1>4, <1>5, <2>1, <2>2, Referred DEF NoStore
  <2>4. v \notin flagged
    BY <1>2, <2>1, <2>3 DEF DeadInv, CountInv, ZeroCountsOnly
  <2>5. v # pending
    BY <1>5, <2>3 DEF IInv, WaitingInv, Overwritten
  <2> QED
    BY <1>3, <1>4, <2>1, <2>2, <2>3, <2>4, <2>5
<1>10. TypeOK' /\ DeadInv'
  <2>1. held' \subseteq live
    BY <1>1, <1>2, <1>3, <1>4, <1>9 DEF DeadInv, Reaping
  <2>2. {live, sticky, pinned, flagged, roots, held, marked, kept}' \subseteq SUBSET Obj
    <3>1. {live, sticky, pinned, flagged, roots, held, marked, kept} \subseteq SUBSET Obj
      BY <1>2 DEF TypeOK
    <3>2. flagged' \subseteq Obj
      BY <1>8, <3>1
    <3>3. pinned' \subseteq Obj /\ held' \subseteq Obj
      BY <1>6, <2>1, <3>1
    <3> QED
      BY <1>1, <1>7, <3>1, <3>2, <3>3
  <2>3. TypeOK'
    BY <1>1, <1>2, <1>5, <1>6, <1>7, <1>8, <2>2 DEF TypeOK
  <2>4. \A x \in Obj \ live : rc[x] = 0 /\ rc'[x] = 0
    <3> SUFFICES ASSUME NEW x \in Obj \ live PROVE rc[x] = 0 /\ rc'[x] = 0
      OBVIOUS
    <3>1. rc[x] = 0 /\ rc'[x] \in Nat
      BY <1>2, <1>8 DEF DeadInv
    <3> QED
      BY <1>8, <3>1
  <2>5. \A x \in Obj \ live : field'[x] = Null /\ x \notin pinned' \cup flagged'
    BY <1>2, <1>3, <1>5, <1>6, <1>8 DEF DeadInv
  <2>6. flagged' \subseteq live \ sticky
    BY <1>2, <1>8 DEF DeadInv
  <2> QED
    BY <1>1, <1>2, <1>7, <2>1, <2>3, <2>4, <2>5, <2>6 DEF DeadInv
<1>11. after # "shut" => d # store[1]
  <2>1. CASE pc = "sweepFinal"
    <3>1. after # "shut" => store = NoStore
      BY <2>1 DEF IInv, PhaseInv
    <3> QED
      BY <1>5, <3>1 DEF NoStore
  <2> QED
    BY <1>1, <1>9, <2>1
<1>12. CountInv'
  <2>1. \A x \in Obj : Refs(x)' = IF x = v THEN Refs(x) \ {d} ELSE Refs(x)
    BY <1>1, <1>2, <1>3, <1>4, <1>5 DEF Refs, TypeOK
  <2>2. ASSUME after # "shut", NEW x \in live \ sticky PROVE Exact(x)'
    <3>1. x \in Obj /\ Exact(x)
      BY <1>2, <2>2, ExactIs DEF CountInv, TypeOK
    <3>2. CASE x = v
      <4>1. d \in Refs(x)
        BY <1>3, <1>4, <1>5, <1>11, <2>2, <3>2 DEF Refs
      <4>2. rc[x] > 0
        <5>1. excess[x] \in Nat
          BY <1>2, <3>1 DEF TypeOK
        <5> QED
          BY <1>2, <3>1, <4>1, <5>1, RefsFinite DEF Exact
      <4>3. rc'[x] = rc[x] - 1 /\ Refs(x)' = Refs(x) \ {d}
        BY <1>8, <2>1, <2>2, <3>1, <3>2, <4>2
      <4> QED
        BY <1>1, <1>2, <3>1, <4>1, <4>3, ExactLess
    <3>3. CASE x # v
      <4>1. rc'[x] = rc[x] /\ Refs(x)' = Refs(x)
        BY <1>8, <2>1, <3>1, <3>3
      <4> QED
        BY <1>1, <3>1, <4>1, ExactSame
    <3> QED
      BY <3>2, <3>3
  <2>3. CountExact'
    BY <1>1, <1>7, <2>2 DEF CountExact, Exact, Refs
  <2>4. ZeroCountsOnly'
    <3> SUFFICES ASSUME after # "shut", NEW x \in flagged' \ sticky PROVE rc'[x] = 0
      BY <1>1, <1>7 DEF ZeroCountsOnly
    <3>1. CASE x \in flagged
      <4>1. x \in Obj /\ rc[x] = 0
        BY <1>2, <3>1 DEF CountInv, ZeroCountsOnly, TypeOK
      <4>2. rc'[x] \in Nat
        BY <1>8, <4>1
      <4> QED
        BY <1>8, <4>1, <4>2
    <3>2. CASE x \notin flagged
      BY <1>8, <3>2
    <3> QED
      BY <3>1, <3>2
  <2>5. \A x \in (Obj \ sticky)' : rc'[x] < StickyCount
    BY <1>1, <1>2, <1>6, LowerCounts
  <2> QED
    BY <2>3, <2>4, <2>5 DEF CountInv
<1>13. WaitingInv'
  <2>1. CASE pc = "final"
    <3>1. /\ pending # Null => /\ pending \in live \ (flagged' \cup sticky \cup held' \cup {dying})
                               /\ rc'[pending] = 0
      BY <1>1, <1>3, <1>4, <1>8, <1>9, <1>2, <2>1 DEF IInv, WaitingInv, Overwritten, TypeOK
    <3>2. after = "store" => store # NoStore /\ pending # Null /\ Overwritten /\ store[1] \in Obj
      BY <1>2 DEF IInv, WaitingInv, TypeOK
    <3>3. after = "store" => field'[store[1]] = field[store[1]]
      BY <1>5, <1>9, <2>1, <3>2
    <3>4. after = "store" => Overwritten'
      BY <1>1, <1>7, <3>2, <3>3 DEF Overwritten
    <3>5. store # NoStore => store[1] \in roots /\ store[2] \in roots \cup {Null}
      BY DEF IInv, WaitingInv
    <3> QED
      BY <1>1, <1>7, <3>1, <3>2, <3>4, <3>5 DEF WaitingInv
  <2>2. CASE pc = "sweepFinal"
    <3>1. pending = Null /\ after # "store"
      BY <2>2 DEF IInv, PhaseInv
    <3> QED
      BY <1>1, <1>7, <3>1 DEF IInv, WaitingInv, Overwritten
  <2> QED
    BY <1>1, <2>1, <2>2
<1>14. PhaseInv'
  BY <1>1, <1>7 DEF IInv, PhaseInv, Reaping
<1>15. DyingInv'
  <2>1. CASE pc = "final"
    <3>1. rc'[d] = 0 /\ d \notin flagged' \cup held'
      BY <1>1, <1>3, <1>4, <1>5, <1>8, <1>9, <2>1 DEF IInv, DyingInv
    <3> QED
      BY <1>1, <1>3, <1>7, <2>1, <3>1 DEF IInv, DyingInv
  <2>2. CASE pc = "sweepFinal"
    BY <1>1, <1>7, <2>2 DEF IInv, DyingInv
  <2> QED
    BY <1>1, <2>1, <2>2
<1>16. KeptInv'
  <2>1. CASE pc = "final"
    <3>1. v \notin Entries(pinList)
      BY <1>9, <2>1, EntriesFlagged
    <3> QED
      BY <1>1, <1>2, <1>3, <1>4, <1>7, <2>1, <3>1 DEF KeptInv, Reaping
  <2>2. CASE pc = "sweepFinal"
    BY <1>1, <1>2, <1>7, <2>2 DEF KeptInv, Reaping
  <2> QED
    BY <1>1, <2>1, <2>2
<1>17. MarkInv'
  <2>1. ASSUME Closed(marked), marked \subseteq Obj PROVE Closed(marked)'
    BY <1>1, <1>5, <2>1 DEF Closed
  <2> QED
    BY <1>1, <1>2, <1>7, <2>1 DEF MarkInv, TypeOK
<1>18. NoDangling' /\ RemoveFindsWhileRunning'
  BY <1>1, <1>2, <1>5, <1>7 DEF NoDangling, RemoveFindsWhileRunning, TypeOK
<1>i. InnerInv'
  BY <1>1 DEF InnerInv
<1> QED
  BY <1>i, <1>6, <1>10, <1>12, <1>13, <1>14, <1>15, <1>16, <1>17, <1>18 DEF IInv

LEMMA FinalizerNewStep ==
  ASSUME IInv, NEW o \in Obj, FinalizerNew(o)
  PROVE  IInv'
<1>1. /\ pc = "final" /\ inner = NoStore /\ o \notin live /\ live' = live \cup {o} /\ held' = held \cup {o}
      /\ Add(o, "final")
      /\ UNCHANGED <<rc, sticky, field, roots, pinList, store, inner, dying, marked, missed, excess>>
  BY DEF FinalizerNew
<1>2. /\ TypeOK /\ DeadInv /\ CountInv /\ TableInv /\ NoDangling
      /\ RemoveFindsWhileRunning /\ KeptInv
  BY DEF IInv
<1>3. Reaping /\ ~Sweeping /\ after # "shut"
  BY <1>1 DEF IInv, PhaseInv, Reaping, Sweeping
<1>4. /\ rc[o] = 0 /\ excess[o] = 0 /\ field[o] = Null /\ o \notin sticky \cup pinned \cup flagged
      /\ o # Null /\ o # dying
  BY <1>1, <1>2 DEF DeadInv, IInv, DyingInv
<1>5. /\ TableInv'
      /\ table' \in Seq(Entry) /\ index' \in [Obj -> Nat]
      /\ blocks' \in Nat \ {0} /\ budget' \in 0..Budget /\ spare' \in Nat
      /\ flagged \subseteq flagged' /\ flagged' \subseteq flagged \cup {o}
  BY <1>1, <1>3, <1>4, AddTable
<1>6. pc' = "final" /\ UNCHANGED <<after, pending, kept, pinned>>
      /\ Reaping' /\ ~Sweeping'
  BY <1>1, <1>3, AddControl DEF AddTurn, Reaping, Sweeping
<1>7. \A q \in live : field[q] # Null => field[q] \in live
  BY <1>2, <1>3 DEF NoDangling
<1>8. TypeOK' /\ DeadInv'
  <2>1. {live, sticky, pinned, flagged, roots, held, marked, kept}' \subseteq SUBSET Obj
    BY <1>1, <1>2, <1>5, <1>6 DEF TypeOK
  <2>2. TypeOK'
    BY <1>1, <1>2, <1>5, <1>6, <2>1 DEF TypeOK
  <2> QED
    BY <1>1, <1>2, <1>4, <1>5, <1>6, <2>2 DEF DeadInv
<1>9. CountInv'
  <2>1. \A x \in live \ sticky : Exact(x) /\ Refs(x)' = Refs(x)
    BY <1>1, <1>2, <1>3, <1>4, ExactIs DEF CountInv, Refs, TypeOK
  <2>2. Refs(o)' = {}
    BY <1>1, <1>4, <1>7 DEF Refs
  <2>3. Exact(o)'
    BY <1>1, <1>4, <2>2, FS_EmptySet DEF Exact
  <2>4. \A x \in (live \ sticky)' : Exact(x)'
    BY <1>1, <2>1, <2>3, ExactSame DEF Exact
  <2>5. CountExact'
    BY <2>4 DEF CountExact, Exact, Refs
  <2> QED
    BY <1>1, <1>2, <1>3, <1>4, <1>5, <2>5 DEF CountInv, ZeroCountsOnly
<1>10. WaitingInv'
  BY <1>1, <1>5, <1>6 DEF IInv, WaitingInv, Overwritten
<1>11. PhaseInv' /\ DyingInv'
  BY <1>1, <1>3, <1>4, <1>5, <1>6, <1>2 DEF IInv, PhaseInv, DyingInv, DeadInv
<1>12. KeptInv'
  <2>1. o \notin Entries(pinList)
    BY <1>3, <1>4, EntriesFlagged
  <2> QED
    BY <1>1, <1>2, <1>3, <1>6, <2>1 DEF KeptInv
<1>13. MarkInv' /\ NoDangling' /\ RemoveFindsWhileRunning'
  BY <1>1, <1>2, <1>4, <1>6, <1>7
     DEF MarkInv, NoDangling, RemoveFindsWhileRunning
<1>i. InnerInv'
  BY <1>1 DEF InnerInv
<1> QED
  BY <1>i, <1>5, <1>8, <1>9, <1>10, <1>11, <1>12, <1>13 DEF IInv

\* The only steps that depend on what finalizers store.
LEMMA FinalizerStoreBeginStep ==
  ASSUME IInv, Reads = "own", NEW p \in Obj, NEW v \in Entry, FinalizerStoreBegin(p, v)
  PROVE  IInv'
<1>1. /\ pc = "final" /\ inner = NoStore /\ inner' = <<p, v>>
      /\ p \in held \ {dying} /\ v \in (held \ {dying}) \cup {Null}
      /\ UNCHANGED <<live, sticky, field, roots, pinList, store, dying, held, marked,
                     missed>>
  BY DEF FinalizerStoreBegin, Reachable
<1>2. /\ TypeOK /\ DeadInv /\ CountInv /\ TableInv /\ NoDangling
      /\ RemoveFindsWhileRunning /\ KeptInv /\ WaitingInv /\ PhaseInv
  BY DEF IInv
<1>3. /\ Reaping /\ ~Sweeping /\ after # "shut" /\ p \in live /\ p # Null
      /\ dying \in live /\ rc[dying] = 0 /\ dying \notin flagged
      /\ \A q \in live : field[q] # dying
  BY <1>1, <1>2, DyingAlone DEF PhaseInv, DeadInv, TypeOK, Reaping, Sweeping, IInv, DyingInv
<1>4. /\ inner'[1] = p /\ inner'[2] = v /\ inner' \in Entry \X Entry /\ inner[1] = Null
  BY <1>1 DEF NoStore, Entry
<1>5. ASSUME UNCHANGED <<pc, after>>
      PROVE  InnerInv' /\ NoDangling' /\ RemoveFindsWhileRunning'
  <2>1. InnerInv'
    BY <1>1, <1>3, <1>4, <1>5 DEF InnerInv
  <2>2. NoDangling' /\ RemoveFindsWhileRunning'
    BY <1>1, <1>2, <1>3, <1>5 DEF NoDangling, RemoveFindsWhileRunning, Sweeping
  <2> QED
    BY <2>1, <2>2
<1>6. \A x : Refs(x)' = Refs(x) \ {p}
  <2>1. Null \notin live
    BY <1>2 DEF TypeOK
  <2> QED
    BY <1>1, <1>4, <2>1 DEF Refs
<1>7. CASE field[p] = Null
  <2>1. UNCHANGED <<rc, pc, after, pending, kept, table, flagged, index, pinned, blocks,
                    budget, spare, excess>>
    BY <1>7 DEF FinalizerStoreBegin
  <2>2. Reaping' = Reaping /\ Sweeping' = Sweeping
    BY <2>1 DEF Reaping, Sweeping
  <2>3. TypeOK' /\ DeadInv' /\ TableInv'
    <3>1. TypeOK'
      BY <1>1, <1>2, <1>4, <2>1 DEF TypeOK
    <3>2. DeadInv'
      BY <1>1, <1>2, <2>1 DEF DeadInv
    <3>3. TableInv'
      BY <1>1, <1>2, <2>1, <2>2 DEF TableInv, Entered, FoundIn, Entries
    <3> QED
      BY <3>1, <3>2, <3>3
  <2>4. CountInv'
    <3>1. \A x \in live \ sticky : Exact(x) /\ x \in Obj
      BY <1>2, <1>3, ExactIs DEF CountInv, TypeOK
    <3>2. \A x \in live : Refs(x)' = Refs(x)
      <4>1. \A x \in live : p \notin Refs(x)
        BY <1>2, <1>7 DEF Refs, TypeOK
      <4> QED
        BY <1>6, <4>1
    <3>3. \A x \in (live \ sticky)' : Exact(x)'
      BY <1>1, <2>1, <3>1, <3>2, ExactSame
    <3>4. CountExact'
      BY <3>3 DEF CountExact, Exact, Refs
    <3> QED
      BY <1>1, <1>2, <2>1, <3>4 DEF CountInv, ZeroCountsOnly
  <2>5. WaitingInv'
    <3>1. after = "store" => Overwritten'
      BY <1>1, <1>2, <1>3, <1>4, <2>1 DEF WaitingInv, Overwritten, PhaseInv, TypeOK
    <3> QED
      BY <1>1, <1>2, <2>1, <3>1 DEF WaitingInv
  <2>6. PhaseInv' /\ DyingInv' /\ KeptInv' /\ MarkInv'
    BY <1>1, <1>3, <2>1, <2>2 DEF IInv, PhaseInv, DyingInv, KeptInv, MarkInv, Closed, Entries
  <2> QED
    BY <1>5, <2>1, <2>3, <2>4, <2>5, <2>6 DEF IInv
<1>8. CASE field[p] # Null
  <2>0. PICK w \in Obj : w = field[p]
    BY <1>2, <1>8 DEF TypeOK, Entry
  <2>1. DecrementRef(w, pc) /\ Overrun(p) /\ w \in live /\ w # dying /\ w # Null
    BY <1>2, <1>3, <1>8, <2>0 DEF FinalizerStoreBegin, NoDangling
  <2>2. /\ Decremented(w, pc) /\ TableInv'
        /\ table' \in Seq(Entry) /\ index' \in [Obj -> Nat]
        /\ blocks' \in Nat \ {0} /\ budget' \in 0..Budget /\ spare' \in Nat
        /\ pinned' \subseteq pinned \cup live
    BY <1>1, <1>3, <2>1, DecrementFacts DEF Reaping
  <2>3. /\ UNCHANGED <<pc, after, pending, kept, pinned>>
        /\ Reaping' = Reaping /\ Sweeping' = Sweeping
    BY <1>3, <2>2 DEF Decremented, AddTurn, Reaping, Sweeping
  <2>4. /\ rc' \in [Obj -> 0..StickyCount] /\ (\A x \in Obj \ {w} : rc'[x] = rc[x])
        /\ rc'[w] \in Nat /\ rc[w] \in Nat /\ rc[w] - 1 <= rc'[w] /\ rc'[w] <= rc[w]
        /\ (w \notin sticky /\ rc[w] > 0 => rc'[w] = rc[w] - 1)
        /\ (w \in sticky => rc'[w] = rc[w])
        /\ flagged \subseteq flagged' /\ flagged' \subseteq flagged \cup {w}
        /\ (w \in flagged' \ flagged => w \notin sticky /\ rc[w] = 1 /\ rc'[w] = 0)
    <3>1. rc[w] \in Nat /\ rc' \in [Obj -> 0..StickyCount]
      BY <1>2, <2>2 DEF TypeOK, Decremented
    <3>2. rc'[w] \in Nat
      BY <3>1
    <3> QED
      BY <2>1, <2>2, <3>1, <3>2 DEF Decremented
  <2>5. excess \in [Obj -> Nat]
    BY <1>2 DEF TypeOK
  <2>6. p # store[1] => (w \in sticky \/ rc[w] > 0) /\ excess' = excess
    BY <1>3, <1>4, <2>0, <2>1, Referred DEF Overrun
  <2>7. p = store[1] => /\ w \in sticky \/ (w = pending /\ rc[w] = 0) \/ (excess[w] > 0 /\ rc[w] > 0)
                        /\ excess' = [x \in Obj |-> excess[x] + rc'[x] - rc[x]]
    <3> SUFFICES ASSUME p = store[1]
                 PROVE  /\ w \in sticky \/ (w = pending /\ rc[w] = 0) \/ (excess[w] > 0 /\ rc[w] > 0)
                        /\ excess' = [x \in Obj |-> excess[x] + rc'[x] - rc[x]]
      OBVIOUS
    <3>1. after = "store"
      BY <1>1, <1>2, <1>3 DEF PhaseInv, NoStore
    <3>2. w \in {Null, pending} \cup sticky \/ excess[w] > 0
      BY <1>2, <1>3, <1>4, <2>0, <3>1 DEF WaitingInv, Overwritten
    <3>3. w = pending => rc[w] = 0
      BY <1>2, <2>1 DEF WaitingInv
    <3>4. w \notin sticky /\ excess[w] > 0 => rc[w] > 0
      BY <1>3, <2>1, Excessive
    <3> QED
      BY <2>1, <3>2, <3>3, <3>4 DEF Overrun
  <2>8. w \notin flagged
    BY <1>2, <1>3, <2>1, <2>6, <2>7 DEF CountInv, ZeroCountsOnly, DeadInv, WaitingInv
  <2>9. /\ excess' \in [Obj -> Nat]
        /\ \A x \in Obj \ {w} : excess'[x] = excess[x]
        /\ excess'[w] = IF p = store[1] THEN excess[w] + rc'[w] - rc[w] ELSE excess[w]
    <3>1. CASE p # store[1]
      BY <2>5, <2>6, <3>1
    <3>2. CASE p = store[1]
      <4>1. \A x \in Obj : excess'[x] = excess[x] + rc'[x] - rc[x]
        BY <2>7, <3>2
      <4>2. ASSUME NEW x \in Obj \ {w} PROVE excess'[x] = excess[x] /\ excess'[x] \in Nat
        <5>1. rc'[x] = rc[x] /\ rc[x] \in Nat /\ excess[x] \in Nat
          BY <1>2, <2>4 DEF TypeOK
        <5> QED
          BY <4>1, <5>1
      <4>3. excess'[w] = excess[w] + rc'[w] - rc[w] /\ excess[w] \in Nat
        BY <2>5, <4>1
      <4>4. excess[w] + rc'[w] - rc[w] \in Nat
        <5>1. rc'[w] = rc[w] \/ excess[w] > 0
          BY <2>4, <2>7, <3>2
        <5> QED
          BY <2>4, <4>3, <5>1
      <4>5. excess' = [x \in Obj |-> excess'[x]] /\ \A x \in Obj : excess'[x] \in Nat
        BY <2>7, <3>2, <4>2, <4>3, <4>4
      <4>6. excess' \in [Obj -> Nat]
        BY <4>5
      <4> QED
        BY <3>2, <4>2, <4>3, <4>6
    <3> QED
      BY <3>1, <3>2
  <2>10. TypeOK' /\ DeadInv'
    <3>1. {live, sticky, pinned, flagged, roots, held, marked, kept}' \subseteq SUBSET Obj
      BY <1>1, <1>2, <2>3, <2>4 DEF TypeOK
    <3>2. TypeOK'
      BY <1>1, <1>2, <1>4, <2>2, <2>3, <2>4, <2>9, <3>1 DEF TypeOK
    <3>3. \A x \in Obj \ live : rc'[x] = 0 /\ excess'[x] = 0 /\ field'[x] = Null
      BY <1>1, <1>2, <2>1, <2>4, <2>9 DEF DeadInv
    <3>4. flagged' \subseteq live \ sticky
      BY <1>2, <2>1, <2>4 DEF DeadInv
    <3>5. /\ sticky \subseteq live /\ pinned \subseteq live
          /\ roots \cup held \cup marked \cup kept \subseteq live
      BY <1>2 DEF DeadInv, TypeOK
    <3> QED
      BY <1>1, <2>3, <3>2, <3>3, <3>4, <3>5 DEF DeadInv
  <2>11. CountInv'
    <3>1. \A x \in live \ sticky : Exact(x) /\ x \in Obj
      BY <1>2, <1>3, ExactIs DEF CountInv, TypeOK
    <3>2. \A x \in live \ {w} : Refs(x)' = Refs(x)
      <4>1. \A x \in live \ {w} : p \notin Refs(x)
        BY <2>0 DEF Refs
      <4> QED
        BY <1>6, <4>1
    <3>3. \A x \in (live \ sticky)' \ {w} : Exact(x)'
      BY <1>1, <2>4, <2>9, <3>1, <3>2, ExactSame
    <3>4. ASSUME w \notin sticky PROVE Exact(w)'
      <4>1. Exact(w)
        BY <2>1, <3>1, <3>4
      <4>2. CASE p # store[1]
        <5>1. p \in Refs(w)
          BY <1>3, <1>4, <2>0, <4>2 DEF Refs
        <5>2. rc'[w] = rc[w] - 1 /\ excess'[w] = excess[w] /\ Refs(w)' = Refs(w) \ {p}
          BY <1>6, <2>4, <2>6, <3>4, <4>2
        <5> QED
          BY <1>2, <4>1, <5>1, <5>2, ExactLess
      <4>3. CASE p = store[1]
        <5>1. p \notin Refs(w)
          BY <4>3 DEF Refs
        <5>2. excess'[w] = excess[w] + rc'[w] - rc[w] /\ Refs(w)' = Refs(w)
          BY <1>6, <2>9, <4>3, <5>1
        <5>3. /\ rc[w] \in Int /\ rc'[w] \in Int /\ excess[w] \in Int
              /\ Cardinality(Refs(w)) \in Int
          BY <1>2, <2>4, <2>5, RefsFinite
        <5> QED
          BY <4>1, <5>2, <5>3, ExactMoved
      <4> QED
        BY <4>2, <4>3
    <3>5. \A x \in (live \ sticky)' : Exact(x)'
      BY <1>1, <3>3, <3>4
    <3>6. CountExact'
      BY <3>5 DEF CountExact, Exact, Refs
    <3>7. ZeroCountsOnly'
      <4> SUFFICES ASSUME NEW x \in flagged' \ sticky PROVE rc'[x] = 0
        BY <1>1, <2>3 DEF ZeroCountsOnly
      <4>1. CASE x \in flagged
        <5>1. x \in Obj \ {w} /\ rc[x] = 0
          BY <1>2, <1>3, <2>8, <4>1 DEF CountInv, ZeroCountsOnly, TypeOK
        <5> QED
          BY <2>4, <5>1
      <4>2. CASE x \notin flagged
        BY <2>4, <4>2
      <4> QED
        BY <4>1, <4>2
    <3>8. \A x \in (Obj \ sticky)' : rc'[x] < StickyCount
      BY <1>1, <1>2, <2>2, LowerCounts
    <3> QED
      BY <3>6, <3>7, <3>8 DEF CountInv
  <2>12. WaitingInv'
    <3>1. pending # Null => /\ pending \in live \ (flagged' \cup sticky \cup held \cup {dying})
                            /\ rc'[pending] = 0
      <4> SUFFICES ASSUME pending # Null
                   PROVE  pending \in live \ (flagged' \cup sticky \cup held \cup {dying})
                          /\ rc'[pending] = 0
        OBVIOUS
      <4>1. pending \in live \ (flagged \cup sticky \cup held \cup {dying}) /\ rc[pending] = 0
            /\ pending \in Obj
        BY <1>2 DEF WaitingInv, TypeOK
      <4>2. rc'[pending] = 0 /\ pending \notin flagged'
        BY <2>4, <4>1
      <4> QED
        BY <4>1, <4>2
    <3>2. after = "store" => Overwritten'
      <4>1. CASE p = store[1]
        BY <1>1, <1>4, <4>1 DEF Overwritten
      <4>2. CASE p # store[1]
        <5>1. after = "store" => Overwritten /\ store[1] # inner[1]
          BY <1>2, <1>4 DEF WaitingInv, NoStore, TypeOK
        <5>2. excess' = excess
          BY <2>6, <4>2
        <5> QED
          BY <1>1, <2>3, <5>1, <5>2 DEF Overwritten
      <4> QED
        BY <4>1, <4>2
    <3> QED
      BY <1>1, <1>2, <2>3, <3>1, <3>2 DEF WaitingInv
  <2>13. PhaseInv'
    BY <1>1, <1>2, <2>3 DEF PhaseInv
  <2>14. DyingInv'
    <3>1. rc'[dying] = 0 /\ dying \notin flagged'
      BY <1>2, <1>3, <2>1, <2>4 DEF TypeOK
    <3> QED
      BY <1>1, <2>3, <3>1 DEF IInv, DyingInv
  <2>15. KeptInv' /\ MarkInv'
    BY <1>1, <1>2, <1>3, <2>3 DEF KeptInv, MarkInv, Entries
  <2> QED
    BY <1>5, <2>2, <2>3, <2>10, <2>11, <2>12, <2>13, <2>14, <2>15 DEF IInv
<1> QED
  BY <1>7, <1>8

LEMMA FinalizerStoreEndStep ==
  ASSUME IInv, FinalizerStoreEnd
  PROVE  IInv'
<1>1. /\ inner # NoStore /\ inner' = NoStore
      /\ field' = [field EXCEPT ![inner[1]] = inner[2]]
      /\ UNCHANGED <<live, pinned, roots, blocks, budget, spare, pinList, pc, after,
                     pending, store, dying, held, marked, kept>>
  BY DEF FinalizerStoreEnd
<1>2. /\ TypeOK /\ DeadInv /\ CountInv /\ TableInv /\ NoDangling
      /\ RemoveFindsWhileRunning /\ KeptInv /\ WaitingInv /\ PhaseInv /\ InnerInv
  BY DEF IInv
<1>3. PICK p \in live : p = inner[1] /\ p \in held \ {dying}
  BY <1>1, <1>2 DEF InnerInv, DeadInv
<1>4. PICK v \in live \cup {Null} : v = inner[2] /\ v \in (held \ {dying}) \cup {Null}
  BY <1>1, <1>2 DEF InnerInv, DeadInv
<1>5. /\ Reaping /\ Reaping' = Reaping /\ ~Sweeping /\ ~Sweeping' /\ after # "shut"
      /\ pc = "final" /\ Null \notin live
  BY <1>1, <1>2 DEF InnerInv, PhaseInv, Reaping, Sweeping, TypeOK
<1>6. p \in Obj /\ p # Null /\ v \notin Entries(pinList)
  BY <1>2, <1>3, <1>4, <1>5 DEF KeptInv, TypeOK, Entries
<1>7. /\ field' \in [Obj -> Entry] /\ field'[p] = v
      /\ \A q \in Obj \ {p} : field'[q] = field[q]
  BY <1>1, <1>2, <1>3, <1>4, <1>6 DEF TypeOK, Entry
<1>8. inner' \in Entry \X Entry /\ inner'[1] = Null
  BY <1>1 DEF NoStore, Entry
<1>9. /\ TableInv' /\ RemoveFindsWhileRunning'
      /\ flagged' \subseteq flagged /\ missed' \in BOOLEAN
      /\ table' \in Seq(Entry) /\ index' \in [Obj -> Nat]
      /\ rc' \in [Obj -> 0..StickyCount]
      /\ sticky \subseteq sticky' /\ sticky' \subseteq sticky \cup ({v} \ {Null})
      /\ \A x \in Obj \ sticky' : rc'[x] < StickyCount
      /\ \A x \in Obj \ sticky' : rc'[x] = IF x = v THEN rc[x] + 1 ELSE rc[x]
      /\ \A x \in Obj : rc[x] <= rc'[x] /\ (x # v => rc'[x] = rc[x])
      /\ v \notin flagged'
  <2>1. CASE v = Null
    <3>1. UNCHANGED <<rc, sticky, table, flagged, index, missed>>
      BY <1>4, <2>1 DEF FinalizerStoreEnd
    <3>2. TableInv'
      BY <1>1, <1>2, <1>5, <3>1 DEF TableInv, Entered, FoundIn, Entries
    <3>3. RemoveFindsWhileRunning'
      BY <1>1, <1>2, <3>1 DEF RemoveFindsWhileRunning
    <3>4. Null \notin Obj /\ Null \notin flagged /\ \A x \in Obj : rc[x] \in Nat
      BY <1>2 DEF TypeOK
    <3>5. /\ missed \in BOOLEAN /\ table \in Seq(Entry) /\ index \in [Obj -> Nat]
          /\ rc \in [Obj -> 0..StickyCount]
      BY <1>2 DEF TypeOK
    <3>6. \A x \in Obj \ sticky : rc[x] < StickyCount
      BY <1>2 DEF CountInv
    <3>7. \A x \in Obj : rc[x] <= rc'[x] /\ rc'[x] = rc[x] /\ x # v
      BY <2>1, <3>1, <3>4
    <3> QED
      BY <2>1, <3>1, <3>2, <3>3, <3>4, <3>5, <3>6, <3>7
  <2>2. CASE v # Null
    <3>1. IncrementRef(v) /\ v \in live /\ v \in Obj
      BY <1>2, <1>4, <2>2 DEF FinalizerStoreEnd, TypeOK
    <3>2. /\ Incremented(v) /\ TableInv' /\ RemoveFindsWhileRunning'
          /\ flagged' = flagged \ {v} /\ missed' \in BOOLEAN
          /\ table' \in Seq(Entry) /\ index' \in [Obj -> Nat]
      BY <1>1, <1>5, <1>6, <3>1, IncrementFacts
    <3>3. \A x \in Obj \ sticky : rc[x] < StickyCount
      BY <1>2 DEF CountInv
    <3>4. \A x \in Obj : rc[x] \in Nat
      BY <1>2 DEF TypeOK
    <3>5. /\ rc' \in [Obj -> 0..StickyCount] /\ \A x \in Obj \ {v} : rc'[x] = rc[x]
          /\ rc[v] <= rc'[v]
          /\ sticky \subseteq sticky' /\ sticky' \subseteq sticky \cup {v}
          /\ v \notin sticky' => rc'[v] = rc[v] + 1 /\ rc'[v] < StickyCount
      BY <3>2 DEF Incremented
    <3>6. \A x \in Obj \ sticky' : rc'[x] < StickyCount /\ rc'[x] = IF x = v THEN rc[x] + 1 ELSE rc[x]
      BY <3>1, <3>3, <3>5
    <3>7. \A x \in Obj : rc[x] <= rc'[x] /\ (x # v => rc'[x] = rc[x])
      BY <3>1, <3>4, <3>5
    <3> QED
      BY <2>2, <3>1, <3>2, <3>5, <3>6, <3>7
  <2> QED
    BY <2>1, <2>2
<1>10. /\ p # store[1] => excess' = excess
       /\ p = store[1] => \A x \in Obj : excess'[x] = excess[x] + rc'[x] - rc[x]
       /\ excess' \in [Obj -> Nat]
       /\ \A x \in Obj : x # v => excess'[x] = excess[x]
  <2>1. excess \in [Obj -> Nat] /\ \A x \in Obj : rc[x] \in Nat /\ rc'[x] \in Nat
    BY <1>2, <1>9 DEF TypeOK
  <2>2. CASE v = Null
    <3>1. excess' = excess /\ rc' = rc
      BY <1>4, <2>2 DEF FinalizerStoreEnd
    <3> QED
      BY <2>1, <3>1
  <2>3. CASE v # Null
    <3>1. excess' = IF p = store[1] THEN [o \in Obj |-> excess[o] + rc'[o] - rc[o]] ELSE excess
      BY <1>3, <1>4, <2>3 DEF FinalizerStoreEnd, Overrun
    <3>2. CASE p # store[1]
      BY <2>1, <3>1, <3>2
    <3>3. CASE p = store[1]
      <4>1. excess' = [o \in Obj |-> excess[o] + rc'[o] - rc[o]]
        BY <3>1, <3>3
      <4>2. ASSUME NEW x \in Obj PROVE excess[x] + rc'[x] - rc[x] \in Nat
        <5>1. excess[x] \in Nat /\ rc[x] \in Nat /\ rc'[x] \in Nat /\ rc[x] <= rc'[x]
          BY <1>9, <2>1
        <5> QED
          BY <5>1
      <4>3. ASSUME NEW x \in Obj, x # v PROVE excess'[x] = excess[x]
        <5>1. excess[x] \in Nat /\ rc[x] \in Nat /\ rc'[x] = rc[x]
          BY <1>9, <2>1, <4>3
        <5> QED
          BY <4>1, <5>1
      <4>4. excess' \in [Obj -> Nat]
        BY <4>1, <4>2
      <4> QED
        BY <3>3, <4>1, <4>3, <4>4
    <3> QED
      BY <3>2, <3>3
  <2> QED
    BY <2>2, <2>3
<1>11. TypeOK' /\ DeadInv'
  <2>0. {store, inner}' \subseteq Entry \X Entry
    BY <1>1, <1>2, <1>8 DEF TypeOK
  <2>1. {live, sticky, pinned, flagged, roots, held, marked, kept}' \subseteq SUBSET Obj
    BY <1>1, <1>2, <1>4, <1>9 DEF TypeOK
  <2>2. TypeOK'
    BY <1>1, <1>2, <1>7, <1>8, <1>9, <1>10, <2>0, <2>1 DEF TypeOK
  <2>3. \A x \in Obj \ live : rc'[x] = 0 /\ excess'[x] = 0 /\ field'[x] = Null
    <3> SUFFICES ASSUME NEW x \in Obj \ live
                 PROVE  rc'[x] = 0 /\ excess'[x] = 0 /\ field'[x] = Null
      OBVIOUS
    <3>1. rc[x] = 0 /\ excess[x] = 0 /\ field[x] = Null /\ x # v /\ x # p
      BY <1>2, <1>3, <1>4 DEF DeadInv
    <3> QED
      BY <1>7, <1>9, <1>10, <3>1
  <2>4. /\ flagged \subseteq live \ sticky /\ sticky \subseteq live /\ pinned \subseteq live
        /\ roots \cup held \cup marked \cup kept \subseteq live
    BY <1>2 DEF DeadInv, TypeOK
  <2>5. sticky' \subseteq live /\ flagged' \subseteq live \ sticky'
    BY <1>4, <1>9, <2>4
  <2> QED
    BY <1>1, <2>2, <2>3, <2>4, <2>5 DEF DeadInv
<1>12. CountInv'
  <2>1. \A x \in live : Refs(x)' = IF x = v /\ p # store[1] THEN Refs(x) \cup {p} ELSE Refs(x)
    BY <1>1, <1>2, <1>3, <1>5, <1>6, <1>7, <1>8 DEF Refs, TypeOK
  <2>2. ASSUME NEW x \in live \ sticky' PROVE Exact(x)'
    <3>1. x \in live \ sticky /\ x \in Obj /\ Exact(x)
      BY <1>2, <1>5, <1>9, <2>2, ExactIs DEF CountInv, TypeOK
    <3>2. CASE p = store[1]
      <4>1. excess'[x] = excess[x] + rc'[x] - rc[x] /\ Refs(x)' = Refs(x)
        BY <1>10, <2>1, <3>1, <3>2
      <4>2. /\ rc[x] \in Int /\ rc'[x] \in Int /\ excess[x] \in Int
            /\ Cardinality(Refs(x)) \in Int
        <5>1. rc[x] \in Int /\ rc'[x] \in Int /\ excess[x] \in Int
          BY <1>2, <1>9, <3>1 DEF TypeOK
        <5> QED
          BY <1>2, <5>1, RefsFinite
      <4> QED
        BY <3>1, <4>1, <4>2, ExactMoved
    <3>3. CASE p # store[1] /\ x = v
      <4>1. rc'[x] = rc[x] + 1 /\ excess'[x] = excess[x] /\ Refs(x)' = Refs(x) \cup {p}
        BY <1>9, <1>10, <2>1, <2>2, <3>1, <3>3
      <4>2. p \notin Refs(x)
        BY <1>3 DEF Refs
      <4> QED
        BY <1>2, <3>1, <4>1, <4>2, ExactMore
    <3>4. CASE x # v
      <4>1. rc'[x] = rc[x] /\ excess'[x] = excess[x] /\ Refs(x)' = Refs(x)
        BY <1>9, <1>10, <2>1, <3>1, <3>4
      <4> QED
        BY <3>1, <4>1, ExactSame
    <3> QED
      BY <3>2, <3>3, <3>4
  <2>3. CountExact'
    BY <1>1, <2>2 DEF CountExact, Exact, Refs
  <2>4. ZeroCountsOnly'
    <3>1. \A x \in flagged \ sticky : rc[x] = 0 /\ x \in Obj
      BY <1>2, <1>5 DEF CountInv, ZeroCountsOnly, TypeOK
    <3>2. \A x \in flagged' \ sticky' : rc'[x] = 0
      BY <1>9, <3>1
    <3> QED
      BY <3>2 DEF ZeroCountsOnly
  <2>5. \A x \in (Obj \ sticky)' : rc'[x] < StickyCount
    BY <1>9
  <2> QED
    BY <2>3, <2>4, <2>5 DEF CountInv
<1>13. WaitingInv'
  <2>1. pending # Null => /\ pending \in live \ (flagged' \cup sticky' \cup held \cup {dying})
                          /\ rc'[pending] = 0
    <3> SUFFICES ASSUME pending # Null
                 PROVE  pending \in live \ (flagged' \cup sticky' \cup held \cup {dying})
                        /\ rc'[pending] = 0
      OBVIOUS
    <3>1. pending \in live \ (flagged \cup sticky \cup held \cup {dying}) /\ rc[pending] = 0
          /\ pending \in Obj
      BY <1>2 DEF WaitingInv, TypeOK
    <3>2. pending # v
      BY <1>4, <3>1
    <3> QED
      BY <1>9, <3>1, <3>2
  <2>2. after = "store" => Overwritten'
    <3>1. CASE p = store[1] /\ v # Null
      <4>1. v \in Obj /\ (v \in sticky' \/ excess'[v] = excess[v] + 1) /\ excess[v] \in Nat
        <5>1. v \in Obj /\ excess[v] \in Nat /\ rc[v] \in Nat
          BY <1>2, <1>4, <3>1 DEF TypeOK
        <5>2. v \notin sticky' => rc'[v] = rc[v] + 1
          BY <1>9, <5>1
        <5>3. excess'[v] = excess[v] + rc'[v] - rc[v]
          BY <1>10, <3>1, <5>1
        <5> QED
          BY <5>1, <5>2, <5>3
      <4>2. field'[store'[1]] = v
        BY <1>1, <1>7, <3>1
      <4> QED
        BY <4>1, <4>2 DEF Overwritten
    <3>2. CASE p = store[1] /\ v = Null
      BY <1>1, <1>7, <3>2 DEF Overwritten
    <3>3. CASE p # store[1]
      <4> SUFFICES ASSUME after = "store" PROVE Overwritten'
        OBVIOUS
      <4>1. Overwritten /\ store[1] \in live
        BY <1>2 DEF WaitingInv, NoDangling
      <4>2. field'[store'[1]] = field[store[1]]
        BY <1>1, <1>2, <1>7, <3>3, <4>1 DEF TypeOK
      <4> QED
        BY <1>1, <1>3, <1>9, <1>10, <3>3, <4>1, <4>2 DEF Overwritten
    <3> QED
      BY <3>1, <3>2, <3>3
  <2> QED
    BY <1>1, <1>2, <2>1, <2>2 DEF WaitingInv
<1>14. PhaseInv' /\ InnerInv'
  BY <1>1, <1>2, <1>5 DEF PhaseInv, InnerInv
<1>15. DyingInv'
  <2>1. dying \in live /\ dying \in Obj /\ rc[dying] = 0 /\ dying # v
        /\ dying \notin flagged \cup sticky \cup held \cup kept
    BY <1>2, <1>4, <1>5 DEF IInv, DyingInv, TypeOK
  <2>2. rc'[dying] = 0 /\ dying \notin flagged' \cup sticky'
    BY <1>9, <2>1
  <2> QED
    BY <1>1, <1>5, <2>1, <2>2 DEF DyingInv
<1>16. KeptInv' /\ MarkInv'
  BY <1>1, <1>2, <1>5 DEF KeptInv, MarkInv, Entries
<1>17. NoDangling'
  <2>1. live \subseteq Obj /\ roots \subseteq live
        /\ \A q \in live : field[q] # Null => field[q] \in live
    BY <1>2, <1>5 DEF NoDangling, TypeOK
  <2>2. \A q \in live : field'[q] # Null => field'[q] \in live
    BY <1>4, <1>7, <2>1
  <2> QED
    BY <1>1, <2>1, <2>2 DEF NoDangling
<1> QED
  BY <1>9, <1>11, <1>12, <1>13, <1>14, <1>15, <1>16, <1>17 DEF IInv

LEMMA FinalizerEndStep ==
  ASSUME IInv, FinalizerEnd
  PROVE  IInv'
<1>1. /\ pc \in {"final", "sweepFinal"} /\ inner = NoStore /\ field[dying] = Null
      /\ live' = live \ {dying} /\ sticky' = sticky \ {dying} /\ pinned' = pinned \ {dying}
      /\ rc' = [rc EXCEPT ![dying] = 0] /\ excess' = [excess EXCEPT ![dying] = 0]
      /\ RemoveIfFlagged(dying)
      /\ pc' = IF Reaping THEN "pop" ELSE "sweep"
      /\ dying' = Null /\ held' = {}
      /\ UNCHANGED <<field, roots, blocks, budget, spare, pinList, after, pending,
                     store, inner, marked, kept>>
  BY DEF FinalizerEnd, Destroy
<1>2. /\ TypeOK /\ DeadInv /\ CountInv /\ TableInv /\ NoDangling
      /\ RemoveFindsWhileRunning /\ KeptInv /\ MarkInv
  BY DEF IInv
<1>3. PICK d \in live : d = dying
  BY <1>1 DEF IInv, DyingInv
<1>4. d \in Obj /\ d # Null /\ field[d] = Null
  BY <1>1, <1>2, <1>3 DEF TypeOK
<1>5. /\ live' = live \ {d} /\ sticky' = sticky \ {d} /\ pinned' = pinned \ {d}
      /\ rc' = [rc EXCEPT ![d] = 0] /\ excess' = [excess EXCEPT ![d] = 0]
      /\ RemoveIfFlagged(d)
  BY <1>1, <1>3
<1>6. Reaping' = Reaping /\ Sweeping' = Sweeping /\ (Reaping <=> pc = "final")
      /\ (Sweeping <=> pc = "sweepFinal")
  BY <1>1 DEF Reaping, Sweeping
<1>7. after # "shut" /\ d \in flagged => d \notin Entries(pinList)
  <2>1. CASE pc = "final"
    BY <1>3, <2>1 DEF IInv, DyingInv
  <2>2. CASE pc = "sweepFinal"
    BY <1>2, <1>6, <2>2 DEF TableInv, Entries, Reaping
  <2> QED
    BY <1>1, <2>1, <2>2
<1>8. /\ TableInv' /\ RemoveFindsWhileRunning'
      /\ flagged' = flagged \ {d} /\ missed' \in BOOLEAN
      /\ table' \in Seq(Entry) /\ index' \in [Obj -> Nat]
  BY <1>1, <1>4, <1>5, <1>6, <1>7, RemoveTable
<1>9. d \notin roots \cup kept \cup marked
  <2>1. CASE pc = "final"
    <3>1. d \notin roots /\ d \notin kept /\ marked = {}
      BY <1>3, <1>6, <2>1, DyingAlone DEF IInv, DyingInv, PhaseInv, Sweeping
    <3> QED
      BY <3>1
  <2>2. CASE pc = "sweepFinal"
    <3>1. d \notin marked /\ kept = {}
      BY <1>3, <1>6, <2>2 DEF IInv, DyingInv, PhaseInv, Reaping
    <3>2. roots \subseteq marked
      BY <1>2, <1>6, <2>2 DEF MarkInv, IInv, PhaseInv
    <3> QED
      BY <3>1, <3>2
  <2> QED
    BY <1>1, <2>1, <2>2
<1>10. ASSUME NEW q \in live, field[q] = d
       PROVE  Sweeping /\ q \notin marked
  <2>1. pc # "final"
    BY <1>3, <1>10, DyingAlone
  <2>2. Closed(marked) /\ d \notin marked
    BY <1>1, <1>2, <1>6, <1>9, <2>1 DEF MarkInv, IInv, PhaseInv, Closed
  <2> QED
    BY <1>1, <1>4, <1>6, <1>10, <2>1, <2>2 DEF Closed
<1>11. TypeOK' /\ DeadInv'
  <2>1. {live, sticky, pinned, flagged, roots, held, marked, kept}' \subseteq SUBSET Obj
    BY <1>1, <1>2, <1>5, <1>8 DEF TypeOK
  <2>2. /\ rc' \in [Obj -> 0..StickyCount] /\ rc'[d] = 0 /\ \A x \in Obj \ {d} : rc'[x] = rc[x]
        /\ excess' \in [Obj -> Nat] /\ excess'[d] = 0
        /\ \A x \in Obj \ {d} : excess'[x] = excess[x]
    BY <1>2, <1>4, <1>5 DEF TypeOK
  <2>3. dying' \in Entry
    BY <1>1 DEF Entry
  <2>4. pc' \in {"pop", "sweep"}
    BY <1>1
  <2>5. TypeOK'
    BY <1>1, <1>2, <1>8, <2>1, <2>2, <2>3, <2>4 DEF TypeOK
  <2> QED
    BY <1>1, <1>2, <1>4, <1>5, <1>8, <1>9, <2>2, <2>5 DEF DeadInv
<1>12. CountInv'
  <2>1. \A x \in live \ {d} : Refs(x)' = Refs(x) /\ rc'[x] = rc[x] /\ excess'[x] = excess[x]
    BY <1>1, <1>2, <1>4, <1>5 DEF Refs, TypeOK
  <2>2. after # "shut" => \A x \in live' \ sticky' : Exact(x)'
    BY <1>2, <1>5, <2>1, ExactIs, ExactSame DEF CountInv
  <2>3. CountExact'
    BY <1>1, <2>2 DEF CountExact, Exact, Refs
  <2>4. ZeroCountsOnly'
    BY <1>1, <1>2, <1>4, <1>5, <1>8 DEF CountInv, ZeroCountsOnly, TypeOK
  <2>5. \A x \in Obj \ sticky' : rc'[x] < StickyCount
    BY <1>2, <1>4, <1>5 DEF CountInv, TypeOK
  <2> QED
    BY <2>3, <2>4, <2>5 DEF CountInv
<1>13. WaitingInv'
  <2>1. pending # Null => rc'[pending] = 0 /\ pending # d
    BY <1>2, <1>3, <1>5 DEF IInv, WaitingInv, Overwritten, TypeOK
  <2>2. pc = "final" /\ after = "store" => Overwritten /\ store[1] \in Obj
    BY <1>2 DEF IInv, WaitingInv, TypeOK
  <2>3. pc # "final" => after # "store"
    BY <1>1 DEF IInv, PhaseInv
  <2>4. after = "store" => Overwritten'
    <3> SUFFICES ASSUME after = "store" PROVE Overwritten'
      OBVIOUS
    <3>1. pc = "final" /\ Overwritten /\ store[1] \in live
      BY <1>2, <2>2, <2>3 DEF IInv, WaitingInv, NoDangling
    <3>2. field[store[1]] # d
      BY <1>3, <3>1, DyingAlone
    <3>3. field[store[1]] \in Entry
      BY <1>2, <2>2, <3>1 DEF TypeOK
    <3>4. field[store[1]] \in Obj => excess'[field[store[1]]] = excess[field[store[1]]]
      BY <1>2, <1>5, <3>2 DEF TypeOK
    <3>5. inner[1] # store[1]
      BY <1>1, <1>2, <3>1 DEF NoStore, TypeOK
    <3>6. Null \in {Null, pending} \cup sticky'
      OBVIOUS
    <3>7. field[store[1]] \in sticky => field[store[1]] \in sticky'
      BY <1>5, <3>2
    <3> QED
      BY <1>1, <3>1, <3>3, <3>4, <3>5, <3>6, <3>7 DEF Overwritten, Entry
  <2>5. (pending # Null => pending \in live \ (flagged \cup sticky \cup held \cup {dying}))
        /\ (store # NoStore => store[1] \in roots /\ store[2] \in roots \cup {Null})
        /\ (after = "store" => store # NoStore /\ pending # Null)
    BY DEF IInv, WaitingInv
  <2> QED
    BY <1>1, <1>5, <1>8, <2>1, <2>4, <2>5 DEF WaitingInv
<1>14. PhaseInv' /\ DyingInv'
  BY <1>1, <1>6 DEF IInv, PhaseInv, DyingInv, Reaping
<1>15. KeptInv' /\ MarkInv'
  BY <1>1, <1>2, <1>5, <1>6, <1>9 DEF KeptInv, MarkInv, Closed
<1>16. NoDangling'
  <2>1. roots \subseteq live'
    BY <1>2, <1>5, <1>9 DEF NoDangling
  <2>2. ASSUME NEW q \in live', field[q] # Null
        PROVE  field[q] \in live' \/ (Sweeping /\ {q, field[q]} \cap marked = {})
    BY <1>2, <1>5, <1>9, <1>10, <2>2 DEF NoDangling
  <2> QED
    BY <1>1, <1>6, <2>1, <2>2 DEF NoDangling
<1>i. InnerInv'
  BY <1>1 DEF InnerInv
<1> QED
  BY <1>i, <1>8, <1>11, <1>12, <1>13, <1>14, <1>15, <1>16 DEF IInv

-----------------------------------------------------------------------------
(* The steps of the collector.                                              *)

LEMMA SweepStep ==
  ASSUME IInv, Sweep
  PROVE  IInv'
<1>1. /\ pc = "run" /\ pc' = "sweep" /\ after' = "run" /\ spare' = 0
      /\ marked' \subseteq live /\ roots \subseteq marked' /\ Closed(marked')
      /\ UNCHANGED <<object, roots, table, blocks, budget, pinList, pending, store,
                     inner, dying, held, kept, missed, excess>>
  BY DEF Sweep
<1>2. UNCHANGED <<live, rc, sticky, pinned, flagged, index, field>>
  BY <1>1 DEF object
<1>3. /\ after = "run" /\ pending = Null /\ store = NoStore /\ dying = Null
      /\ held = {} /\ kept = {} /\ ~Reaping /\ ~Reaping' /\ Sweeping'
      /\ \A q \in live : field[q] # Null => field[q] \in live
  BY <1>1, Running DEF Reaping, Sweeping
<1>4. TypeOK' /\ DeadInv'
  <2>1. {live, sticky, pinned, flagged, roots, held, marked, kept}' \subseteq SUBSET Obj
    BY <1>1, <1>2 DEF IInv, TypeOK
  <2>2. TypeOK'
    BY <1>1, <1>2, <2>1 DEF IInv, TypeOK
  <2> QED
    BY <1>1, <1>2, <2>2 DEF IInv, DeadInv
<1>5. CountInv' /\ RemoveFindsWhileRunning'
  BY <1>1, <1>2, <1>3
     DEF IInv, CountInv, CountExact, ZeroCountsOnly, RemoveFindsWhileRunning
<1>6. TableInv'
  BY <1>1, <1>2, <1>3 DEF IInv, TableInv, Entered, FoundIn, Entries
<1>7. WaitingInv' /\ PhaseInv' /\ DyingInv' /\ KeptInv'
  BY <1>1, <1>2, <1>3 DEF IInv, WaitingInv, Overwritten, PhaseInv, DyingInv, KeptInv
<1>8. MarkInv' /\ NoDangling'
  BY <1>1, <1>2, <1>3 DEF IInv, MarkInv, Closed, NoDangling
<1>i. InnerInv'
  BY <1>1, NoInner DEF InnerInv
<1> QED
  BY <1>i, <1>4, <1>5, <1>6, <1>7, <1>8 DEF IInv

LEMMA SweepFinalizeStep ==
  ASSUME IInv, NEW o \in Obj, SweepFinalize(o)
  PROVE  IInv'
<1>1. /\ pc = "sweep" /\ o \in live \ marked /\ pc' = "sweepFinal" /\ dying' = o
      /\ UNCHANGED <<object, roots, memory, after, pending, store, inner, held, marked,
                     kept, missed, excess>>
  BY DEF SweepFinalize
<1>2. /\ UNCHANGED <<live, rc, sticky, pinned, flagged, index, field>>
      /\ UNCHANGED <<table, blocks, budget, spare, pinList>>
  BY <1>1 DEF object, memory
<1>3. ~Reaping /\ ~Reaping' /\ Sweeping /\ Sweeping' /\ pending = Null
  BY <1>1 DEF IInv, PhaseInv, Reaping, Sweeping
<1>4. TypeOK' /\ DeadInv'
  <2>1. TypeOK'
    BY <1>1, <1>2 DEF IInv, TypeOK, Entry
  <2> QED
    BY <1>1, <1>2, <2>1 DEF IInv, DeadInv
<1>5. CountInv' /\ RemoveFindsWhileRunning'
  BY <1>1, <1>2
     DEF IInv, CountInv, CountExact, ZeroCountsOnly, RemoveFindsWhileRunning
<1>6. TableInv'
  BY <1>1, <1>2, <1>3 DEF IInv, TableInv, Entered, FoundIn, Entries
<1>7. WaitingInv' /\ PhaseInv' /\ DyingInv' /\ KeptInv'
  BY <1>1, <1>2, <1>3 DEF IInv, WaitingInv, Overwritten, PhaseInv, DyingInv, KeptInv, Entries
<1>8. MarkInv' /\ NoDangling'
  BY <1>1, <1>2, <1>3 DEF IInv, MarkInv, Closed, NoDangling
<1>i. InnerInv'
  BY <1>1, NoInner DEF InnerInv
<1> QED
  BY <1>i, <1>4, <1>5, <1>6, <1>7, <1>8 DEF IInv

LEMMA SweepEndStep ==
  ASSUME IInv, SweepEnd
  PROVE  IInv'
<1>1. /\ pc = "sweep" /\ live \subseteq marked /\ pc' = after /\ marked' = {}
      /\ UNCHANGED <<object, roots, memory, after, pending, store, inner, dying, held,
                     kept, missed, excess>>
  BY DEF SweepEnd
<1>2. /\ UNCHANGED <<live, rc, sticky, pinned, flagged, index, field>>
      /\ UNCHANGED <<table, blocks, budget, spare, pinList>>
  BY <1>1 DEF object, memory
<1>3. /\ after \in {"run", "shut"} /\ pending = Null /\ dying = Null /\ held = {} /\ kept = {}
      /\ (after = "shut" => live = {}) /\ store = NoStore
  BY <1>1 DEF IInv, PhaseInv, DyingInv, Reaping
<1>4. ~Reaping /\ ~Reaping' /\ Sweeping /\ ~Sweeping'
  BY <1>1, <1>3 DEF Reaping, Sweeping
<1>5. TypeOK' /\ DeadInv'
  <2>1. TypeOK'
    BY <1>1, <1>2, <1>3 DEF IInv, TypeOK
  <2> QED
    BY <1>1, <1>2, <2>1 DEF IInv, DeadInv
<1>6. CountInv' /\ RemoveFindsWhileRunning'
  BY <1>1, <1>2
     DEF IInv, CountInv, CountExact, ZeroCountsOnly, RemoveFindsWhileRunning
<1>7. TableInv'
  BY <1>1, <1>2, <1>4 DEF IInv, TableInv, Entered, FoundIn, Entries
<1>8. WaitingInv' /\ PhaseInv' /\ DyingInv' /\ KeptInv'
  BY <1>1, <1>2, <1>3, <1>4 DEF IInv, WaitingInv, Overwritten, PhaseInv, DyingInv, KeptInv
<1>9. MarkInv' /\ NoDangling'
  BY <1>1, <1>2, <1>4 DEF IInv, MarkInv, NoDangling
<1>i. InnerInv'
  BY <1>1, NoInner DEF InnerInv
<1> QED
  BY <1>i, <1>5, <1>6, <1>7, <1>8, <1>9 DEF IInv

LEMMA AbortStep ==
  ASSUME IInv, Abort
  PROVE  IInv'
<1>1. /\ pc \in {"final", "sweepFinal"} /\ inner = NoStore
      /\ pinList' = IF Sweeping THEN <<>> ELSE pinList
      /\ pc' = "sweep" /\ after' = "shut" /\ marked' = {}
      /\ roots' = {} /\ pending' = Null /\ store' = NoStore /\ dying' = Null
      /\ held' = {} /\ kept' = {}
      /\ UNCHANGED <<object, table, blocks, budget, spare, inner, missed, excess>>
  BY DEF Abort
<1>2. UNCHANGED <<live, rc, sticky, pinned, flagged, index, field>>
  BY <1>1 DEF object
<1>3. ~Reaping' /\ Sweeping'
  BY <1>1 DEF Reaping, Sweeping
<1>4. TypeOK' /\ DeadInv'
  <2>1. {live, sticky, pinned, flagged, roots, held, marked, kept}' \subseteq SUBSET Obj
    BY <1>1, <1>2 DEF IInv, TypeOK
  <2>2. pinList' \in Seq(Entry)
    BY <1>1 DEF IInv, TypeOK
  <2>3. pending' \in Entry /\ dying' \in Entry /\ store' \in Entry \X Entry
    BY <1>1 DEF Entry, NoStore
  <2>4. TypeOK'
    BY <1>1, <1>2, <2>1, <2>2, <2>3 DEF IInv, TypeOK
  <2> QED
    BY <1>1, <1>2, <2>4 DEF IInv, DeadInv
<1>5. CountInv' /\ RemoveFindsWhileRunning'
  BY <1>1, <1>2
     DEF IInv, CountInv, CountExact, ZeroCountsOnly, RemoveFindsWhileRunning
<1>6. TableInv'
  BY <1>1, <1>2 DEF IInv, TableInv
<1>7. WaitingInv' /\ PhaseInv' /\ DyingInv' /\ KeptInv'
  BY <1>1, <1>2, <1>3 DEF IInv, WaitingInv, Overwritten, PhaseInv, DyingInv, KeptInv
<1>8. MarkInv' /\ NoDangling'
  BY <1>1, <1>2, <1>3 DEF IInv, MarkInv, NoDangling
<1>i. InnerInv'
  BY <1>1 DEF InnerInv
<1> QED
  BY <1>i, <1>4, <1>5, <1>6, <1>7, <1>8 DEF IInv

-----------------------------------------------------------------------------
(* The theorems.                                                            *)

LEMMA StutterStep ==
  ASSUME IInv, UNCHANGED vars
  PROVE  IInv'
<1>1. /\ UNCHANGED <<live, rc, sticky, pinned, flagged, index, field, roots>>
      /\ UNCHANGED <<table, blocks, budget, spare, pinList, missed, excess>>
      /\ UNCHANGED <<pc, after, pending, store, inner, dying, held, marked, kept>>
  BY DEF vars, object, memory, control
<1>2. TypeOK' /\ DeadInv' /\ CountInv' /\ RemoveFindsWhileRunning'
  BY <1>1 DEF IInv, TypeOK, DeadInv, CountInv, CountExact, ZeroCountsOnly,
              RemoveFindsWhileRunning
<1>3. TableInv' /\ WaitingInv' /\ PhaseInv'
  <2>1. TableInv'
    BY <1>1 DEF IInv, TableInv, Entered, FoundIn, Entries, Reaping
  <2>2. WaitingInv'
    BY <1>1 DEF IInv, WaitingInv, Overwritten
  <2>3. PhaseInv'
    BY <1>1 DEF IInv, PhaseInv, Reaping, Sweeping
  <2> QED
    BY <2>1, <2>2, <2>3
<1>4. DyingInv' /\ KeptInv' /\ MarkInv' /\ NoDangling'
  BY <1>1 DEF IInv, DyingInv, KeptInv, MarkInv, NoDangling, Closed, Entries, Reaping, Sweeping
<1>i. InnerInv'
  BY <1>1 DEF IInv, InnerInv
<1> QED
  BY <1>i, <1>2, <1>3, <1>4 DEF IInv

\* Whatever reaps, sweeps, stores and finalizers do, and in the middle of what,
\* the invariant holds: ZCT.cpp and the counts of GCObject.h.
THEOREM ZCTInvariant ==
  ASSUME Reads = "own"
  PROVE  Spec => []IInv
<1>1. Init => IInv
  BY InitIInv
<1>2. IInv /\ [Next]_vars => IInv'
  <2> SUFFICES ASSUME IInv, [Next]_vars PROVE IInv'
    OBVIOUS
  <2>1. ASSUME NEW o \in Obj, New(o) \/ Load(o) \/ Forget(o) \/ Stick(o)
        PROVE  IInv'
    BY <2>1, NewStep, LoadStep, ForgetStep, StickStep
  <2>2. ASSUME NEW o \in Obj, FinalizerNew(o) \/ SweepFinalize(o)
        PROVE  IInv'
    BY <2>2, FinalizerNewStep, SweepFinalizeStep
  <2>3. ASSUME NEW p \in Obj, NEW v \in Entry, StoreBegin(p, v)
        PROVE  IInv'
    BY <2>3, StoreBeginStep
  <2>4. ASSUME NEW p \in Obj, NEW v \in Entry, FinalizerStoreBegin(p, v)
        PROVE  IInv'
    BY <2>4, FinalizerStoreBeginStep
  <2>5. CASE StoreEnd \/ FinalizerStoreEnd \/ AddAfterReap
    BY <2>5, StoreEndStep, FinalizerStoreEndStep, AddAfterReapStep
  <2>6. CASE Reap \/ PopEmpty \/ PopPinned \/ PopDying \/ EndReap
    BY <2>6, ReapStep, PopEmptyStep, PopPinnedStep, PopDyingStep, EndReapStep
  <2>7. CASE FinalizerDrop \/ FinalizerEnd
    BY <2>7, FinalizerDropStep, FinalizerEndStep
  <2>8. CASE Sweep \/ SweepEnd \/ Abort
    BY <2>8, SweepStep, SweepEndStep, AbortStep
  <2>9. CASE UNCHANGED vars
    BY <2>9, StutterStep
  <2> QED
    BY <2>1, <2>2, <2>3, <2>4, <2>5, <2>6, <2>7, <2>8, <2>9 DEF Next
<1> QED
  BY <1>1, <1>2, PTL DEF Spec

\* No reap and no sweep destroys what the stack or a counted field of a living
\* object refers to (GCObject.h:600-605).
THEOREM ZCTNoDangling ==
  ASSUME Reads = "own"
  PROVE  Spec => []NoDangling
<1>1. IInv => NoDangling
  BY DEF IInv
<1> QED
  BY <1>1, ZCTInvariant, PTL

\* Outside Reap flags, indices and entries agree, and no block is held past the
\* current segment (ZCT.cpp:58-61, 94-97, 437-443).
THEOREM ZCTTableSound ==
  ASSUME Reads = "own"
  PROVE  Spec => []TableSound
<1>1. IInv => TableSound
  <2> SUFFICES ASSUME IInv PROVE TableSound
    OBVIOUS
  <2>1. flagged \subseteq live \ sticky
    BY DEF IInv, DeadInv
  <2>2. ASSUME ~Reaping, after # "shut"
        PROVE  /\ \A o \in flagged :
                    index[o] \in DOMAIN table /\ table[index[o]] = o /\ o \notin pinned
               /\ \A i \in DOMAIN table :
                    table[i] # Null => table[i] \in flagged /\ index[table[i]] = i
               /\ pinList = <<>>
    BY <2>2 DEF IInv, TableInv, FoundIn, Entered
  <2> QED
    BY <2>1, <2>2 DEF TableSound, IInv, TableInv
<1> QED
  BY <1>1, ZCTInvariant, PTL

\* A Remove finds its object where the object's index says, also while a Reap
\* moves the entries (ZCT-inlines.h:99-100).
THEOREM ZCTRemoveFinds ==
  ASSUME Reads = "own"
  PROVE  Spec => []RemoveFindsWhileRunning
<1>1. IInv => RemoveFindsWhileRunning
  BY DEF IInv
<1> QED
  BY <1>1, ZCTInvariant, PTL

\* The count of an object is the number of counted fields that refer to it,
\* those being stored to excepted, and too high just by what finalizers stored in
\* the field of the store that reaped (GCObject.h:595-598).
THEOREM ZCTCounts ==
  ASSUME Reads = "own"
  PROVE  Spec => []CountExact
<1>1. IInv => CountExact
  BY DEF IInv, CountInv
<1> QED
  BY <1>1, ZCTInvariant, PTL

\* What is in the table has count zero, whatever finalizers did between a
\* DecrementRef and the Add it leads to (ZCT.cpp:68-71).
THEOREM ZCTZeroCounts ==
  ASSUME Reads = "own"
  PROVE  Spec => []ZeroCountsOnly
<1>1. IInv => ZeroCountsOnly
  BY DEF IInv, CountInv
<1> QED
  BY <1>1, ZCTInvariant, PTL

\* What was found pinned when a Reap started survives it (ZCT.cpp:614-617).
THEOREM ZCTPinnedSurvive ==
  ASSUME Reads = "own"
  PROVE  Spec => []PinnedSurvive
<1>1. IInv => PinnedSurvive
  BY DEF IInv, DeadInv, PinnedSurvive
<1> QED
  BY <1>1, ZCTInvariant, PTL

-----------------------------------------------------------------------------
(* The pinning list.                                                        *)

LEMMA Cancel ==
  ASSUME NEW a \in Nat, NEW b \in Nat, a * BlockSize <= b * BlockSize
  PROVE  a <= b
<1> SUFFICES ASSUME a > b PROVE FALSE
  OBVIOUS
<1> DEFINE d == a - b - 1
<1>1. d \in Nat /\ a = b + 1 + d /\ BlockSize \in Nat \ {0, 1}
  OBVIOUS
<1> HIDE DEF d
<1>2. /\ d * BlockSize \in Nat /\ b * BlockSize \in Nat
      /\ (b + 1 + d) * BlockSize = b * BlockSize + BlockSize + d * BlockSize
  BY <1>1
<1> QED
  BY <1>1, <1>2

\* Links are added with an object: q links go with n entries, c of them objects.
LEMMA LinksOnce ==
  ASSUME NEW n \in Nat, NEW c \in Nat, NEW q \in Nat, n = c + q, n <= q * BlockSize,
         q > 0 => (q - 1) * BlockSize + 2 <= n,
         NEW m \in Nat, c <= m * (BlockSize - 1)
  PROVE  n <= m * BlockSize
<1>1. BlockSize \in Nat \ {0, 1} /\ m * (BlockSize - 1) = m * BlockSize - m
      /\ m * BlockSize \in Nat
  OBVIOUS
<1>2. CASE q <= m
  <2> DEFINE d == m - q
  <2>1. d \in Nat /\ m = q + d
    BY <1>2
  <2> HIDE DEF d
  <2>2. d * BlockSize \in Nat /\ (q + d) * BlockSize = q * BlockSize + d * BlockSize
        /\ q * BlockSize \in Nat
    BY <1>1, <2>1
  <2> QED
    BY <2>1, <2>2
<1>3. CASE q > m
  <2> DEFINE d == q - 1 - m
  <2>1. d \in Nat /\ q - 1 = m + d
    BY <1>3
  <2> HIDE DEF d
  <2>2. /\ (m + d) * BlockSize = m * BlockSize + d * BlockSize
        /\ d * BlockSize \in Nat /\ d * BlockSize >= d
    BY <1>1, <2>1
  <2>3. (q - 1) * BlockSize = m * BlockSize + d * BlockSize
    BY <2>1, <2>2
  <2> QED
    BY <1>1, <1>3, <2>1, <2>2, <2>3
<1> QED
  BY <1>2, <1>3

LEMMA Commute ==
  ASSUME NEW a \in Nat
  PROVE  a * BlockSize = BlockSize * a
OBVIOUS

LEMMA Multiple ==
  ASSUME NEW q \in Nat
  PROVE  (q * BlockSize) % BlockSize = 0
<1> DEFINE m == q * BlockSize
           d == m \div BlockSize
           r == m % BlockSize
<1>1. m \in Nat /\ BlockSize \in Nat \ {0, 1}
  OBVIOUS
<1> HIDE DEF m
<1>2. d \in Nat /\ r \in 0..(BlockSize - 1) /\ m = BlockSize * d + r
  BY <1>1
<1> HIDE DEF d, r
<1>3. /\ d * BlockSize = BlockSize * d /\ d * BlockSize \in Nat
      /\ (d + 1) * BlockSize = d * BlockSize + BlockSize
  BY <1>2, Commute, Products
<1>4. d <= q
  <2>1. d * BlockSize <= q * BlockSize
    BY <1>1, <1>2, <1>3 DEF m
  <2> QED
    BY <1>2, <2>1, Cancel
<1>5. q <= d
  <2> SUFFICES ASSUME d + 1 <= q PROVE FALSE
    BY <1>2
  <2> DEFINE e == q - d - 1
  <2>1. e \in Nat /\ q = (d + 1) + e /\ d + 1 \in Nat
    BY <1>2
  <2> HIDE DEF e
  <2>2. e * BlockSize \in Nat /\ ((d + 1) + e) * BlockSize = (d + 1) * BlockSize + e * BlockSize
    BY <1>1, <2>1
  <2>3. m = d * BlockSize + BlockSize + e * BlockSize
    BY <1>3, <2>1, <2>2 DEF m
  <2> QED
    BY <1>1, <1>2, <1>3, <2>2, <2>3
<1>6. q = d
  BY <1>2, <1>4, <1>5
<1>7. m = BlockSize * d
  BY <1>3, <1>6 DEF m
<1> QED
  BY <1>1, <1>2, <1>7 DEF m, r

\* PinObject: a block is begun with its link and the object, or goes on.
LEMMA LinkedExact ==
  ASSUME TypeOK, LinksExact, NEW o \in Obj \ Entries(pinList),
         pinList' = Append(Linked(pinList), o)
  PROVE  LinksExact'
<1>1. PICK q \in 0..Len(pinList) :
        /\ Len(pinList) = Cardinality(Entries(pinList)) + q /\ Len(pinList) <= q * BlockSize
        /\ q > 0 => (q - 1) * BlockSize + 2 <= Len(pinList)
  BY DEF LinksExact
<1> DEFINE n == Len(pinList)
           c == Cardinality(Entries(pinList))
<1>2. pinList \in Seq(Entry) /\ n \in Nat /\ q \in Nat /\ BlockSize \in Nat \ {0, 1}
  BY DEF TypeOK
<1>3. Entries(pinList) \subseteq Obj
  BY <1>2 DEF Entries, Entry
<1>4. IsFiniteSet(Entries(pinList)) /\ c \in Nat
  BY <1>3, FS_Subset, FS_CardinalityType
<1>5. Entries(pinList') = Entries(pinList) \cup {o}
  BY <1>2, LinkedEntries
<1>6. Cardinality(Entries(pinList')) = c + 1
  BY <1>4, <1>5, FS_AddElement
<1>7. Len(pinList') = IF n % BlockSize = 0 THEN n + 2 ELSE n + 1
  <2>1. Len(Linked(pinList)) = IF n % BlockSize = 0 THEN n + 1 ELSE n
    BY <1>2 DEF Linked, Entry
  <2>2. Linked(pinList) \in Seq(Entry)
    BY <1>2 DEF Linked, Entry
  <2>3. o \in Entry
    BY DEF Entry
  <2>4. Len(pinList') = Len(Linked(pinList)) + 1
    BY <2>2, <2>3
  <2> QED
    BY <1>2, <2>1, <2>4
<1>8. /\ q * BlockSize \in Nat
      /\ (q + 1) * BlockSize = q * BlockSize + BlockSize
      /\ (q - 1) * BlockSize = q * BlockSize - BlockSize
  BY <1>2, Products
<1> HIDE DEF n, c
<1>9. n = c + q /\ n <= q * BlockSize /\ (q > 0 => (q - 1) * BlockSize + 2 <= n)
  BY <1>1 DEF n, c
<1>10. CASE n % BlockSize = 0
  <2>1. n = q * BlockSize
    <3> DEFINE k == n \div BlockSize
    <3>1. k \in Nat /\ n = BlockSize * k
      BY <1>2, <1>10
    <3> HIDE DEF k
    <3>2. k * BlockSize = n /\ k * BlockSize <= q * BlockSize
      <4>1. k * BlockSize = BlockSize * k
        BY <3>1, Commute
      <4> QED
        BY <1>9, <3>1, <4>1
    <3>3. k <= q
      BY <1>2, <3>1, <3>2, Cancel
    <3>4. CASE q = 0
      BY <1>2, <1>8, <1>9, <3>4
    <3>5. CASE q > 0
      <4>1. q - 1 \in Nat /\ ~(k <= q - 1)
        <5> SUFFICES ASSUME k <= q - 1 PROVE FALSE
          BY <1>2, <3>5
        <5> DEFINE d == q - 1 - k
        <5>1. d \in Nat /\ q - 1 = k + d
          BY <1>2, <3>1, <3>5
        <5> HIDE DEF d
        <5>2. d * BlockSize \in Nat /\ (k + d) * BlockSize = k * BlockSize + d * BlockSize
          BY <1>2, <3>1, <5>1
        <5> QED
          BY <1>2, <1>9, <3>2, <3>5, <5>1, <5>2
      <4>2. k = q
        BY <1>2, <3>1, <3>3, <4>1
      <4> QED
        BY <3>2, <4>2
    <3> QED
      BY <1>2, <3>4, <3>5
  <2>2. Len(pinList') = n + 2
    BY <1>7, <1>10
  <2> DEFINE r == q + 1
  <2>3. r \in 0..Len(pinList') /\ r - 1 = q
    BY <1>2, <1>4, <1>9, <2>2
  <2>4. /\ Len(pinList') = Cardinality(Entries(pinList')) + r
        /\ Len(pinList') <= r * BlockSize
        /\ (r - 1) * BlockSize + 2 <= Len(pinList')
    BY <1>2, <1>4, <1>6, <1>8, <1>9, <2>1, <2>2, <2>3
  <2> HIDE DEF r
  <2> QED
    BY <2>3, <2>4 DEF LinksExact
<1>11. CASE n % BlockSize # 0
  <2>1. Len(pinList') = n + 1
    BY <1>7, <1>11
  <2>2. n # q * BlockSize
    BY <1>2, <1>11, Multiple
  <2>3. n + 1 <= q * BlockSize
    BY <1>2, <1>8, <1>9, <2>2
  <2>4. /\ q \in 0..Len(pinList')
        /\ Len(pinList') = Cardinality(Entries(pinList')) + q
        /\ q > 0 => (q - 1) * BlockSize + 2 <= Len(pinList')
    BY <1>2, <1>4, <1>6, <1>8, <1>9, <2>1
  <2> QED
    BY <2>1, <2>3, <2>4 DEF LinksExact
<1> QED
  BY <1>10, <1>11

LEMMA LinksKept ==
  ASSUME LinksExact, pinList' = pinList
  PROVE  LinksExact'
BY DEF LinksExact, Entries

LEMMA LinksStep ==
  ASSUME IInv, LinksExact, [Next]_vars
  PROVE  LinksExact'
<1>1. LinksExact /\ TypeOK
  BY DEF IInv
<1>2. CASE pinList' = pinList
  BY <1>1, <1>2, LinksKept
<1>3. CASE pinList' = <<>>
  <2>1. Entries(pinList') = {} /\ Len(pinList') = 0
    BY <1>3 DEF Entries
  <2>2. Cardinality(Entries(pinList')) = 0
    BY <2>1, FS_EmptySet
  <2>3. 0 \in 0..Len(pinList') /\ 0 <= 0 * BlockSize
    BY <2>1
  <2> QED
    BY <2>1, <2>2, <2>3 DEF LinksExact
<1>4. CASE PopPinned
  <2>1. PICK o \in Obj : o = SeqExt!Last(table)
    BY <1>4 DEF IInv, TypeOK, PopPinned
  <2>2. pc = "pop" /\ table # <<>> /\ o \in pinned
    BY <1>4, <2>1 DEF PopPinned
  <2>3. pinList' = Append(Linked(pinList), o) \/ pinList' = pinList
    BY <1>4, <2>1 DEF PopPinned, Linked
  <2>4. o \notin Entries(pinList)
    <3>1. after # "shut"
      BY <2>2 DEF IInv, PhaseInv
    <3> QED
      BY <2>2, <3>1 DEF IInv, TableInv
  <2> QED
    BY <1>1, <2>3, <2>4, LinkedExact, LinksKept
<1>5. pinList' = pinList \/ pinList' = <<>> \/ PopPinned
  <2>1. ASSUME NEW o \in Obj, New(o) \/ Load(o) \/ Forget(o) \/ Stick(o)
        PROVE  pinList' = pinList
    BY <2>1 DEF New, Load, Forget, Stick, memory
  <2>2. ASSUME NEW o \in Obj, FinalizerNew(o) \/ SweepFinalize(o)
        PROVE  pinList' = pinList
    BY <2>2 DEF FinalizerNew, SweepFinalize, memory
  <2>3. ASSUME NEW p \in Obj, NEW v \in Entry, StoreBegin(p, v)
        PROVE  pinList' = pinList
    BY <2>3 DEF StoreBegin
  <2>4. ASSUME NEW p \in Obj, NEW v \in Entry, FinalizerStoreBegin(p, v)
        PROVE  pinList' = pinList
    BY <2>4 DEF FinalizerStoreBegin
  <2>5. CASE StoreEnd \/ FinalizerStoreEnd \/ AddAfterReap \/ Reap \/ PopEmpty \/ PopDying
    BY <2>5 DEF StoreEnd, FinalizerStoreEnd, AddAfterReap, Reap, PopEmpty, PopDying, memory
  <2>6. CASE EndReap \/ Abort
    BY <2>6 DEF EndReap, Abort
  <2>7. CASE FinalizerDrop \/ FinalizerEnd \/ Sweep \/ SweepEnd
    BY <2>7 DEF FinalizerDrop, FinalizerEnd, Sweep, SweepEnd, memory
  <2>8. CASE UNCHANGED vars
    BY <2>8 DEF vars, memory
  <2> QED
    BY <2>1, <2>2, <2>3, <2>4, <2>5, <2>6, <2>7, <2>8 DEF Next
<1> QED
  BY <1>2, <1>3, <1>4, <1>5

LEMMA LinksLimit ==
  ASSUME TypeOK, LinksExact
  PROVE  PinningLimit
<1>1. pinList \in Seq(Entry) /\ Len(pinList) \in Nat
  BY DEF TypeOK
<1>2. Entries(pinList) \subseteq Obj
  BY <1>1 DEF Entries, Entry
<1>3. Cardinality(Entries(pinList)) \in Nat
  BY <1>2, FS_Subset, FS_CardinalityType
<1>4. PICK q \in 0..Len(pinList) :
        /\ Len(pinList) = Cardinality(Entries(pinList)) + q /\ Len(pinList) <= q * BlockSize
        /\ q > 0 => (q - 1) * BlockSize + 2 <= Len(pinList)
  BY DEF LinksExact
<1> DEFINE c == Cardinality(Entries(pinList))
           n == Len(pinList)
           limit == MaxBlocks * (BlockSize - 1)
<1>5. n \in Nat /\ c \in Nat /\ q \in Nat /\ MaxBlocks \in Nat /\ limit \in Nat
  BY <1>1, <1>3
<1>6. n = c + q /\ n <= q * BlockSize /\ (q > 0 => (q - 1) * BlockSize + 2 <= n)
  BY <1>4
<1> HIDE DEF c, n
<1>7. c <= limit => n <= MaxBlocks * BlockSize
  BY <1>5, <1>6, LinksOnce
<1>8. Capacity = MaxBlocks * BlockSize /\ Capacity \in Nat
  BY DEF Capacity
<1> HIDE DEF limit
<1>9. n > Capacity => c > limit
  BY <1>5, <1>7, <1>8
<1> QED
  BY <1>9 DEF PinningLimit, n, c, limit

\* It takes more objects than the table's blocks have entries for beside their
\* links to pin beyond the capacity, which GrowPinningMemory does not check
\* (ZCT.cpp:475-496).
THEOREM ZCTPinningLimit ==
  ASSUME Reads = "own"
  PROVE  Spec => []PinningLimit
<1>1. Init => LinksExact
  <2> SUFFICES ASSUME Init PROVE LinksExact
    OBVIOUS
  <2>1. Entries(pinList) = {} /\ Len(pinList) = 0
    BY DEF Init, Entries
  <2>2. Cardinality(Entries(pinList)) = 0
    BY <2>1, FS_EmptySet
  <2>3. 0 \in 0..Len(pinList) /\ 0 <= 0 * BlockSize
    BY <2>1
  <2> QED
    BY <2>1, <2>2, <2>3 DEF LinksExact
<1>2. IInv /\ LinksExact /\ [Next]_vars => LinksExact'
  BY LinksStep
<1>3. IInv /\ LinksExact => PinningLimit
  BY LinksLimit DEF IInv
<1> QED
  BY <1>1, <1>2, <1>3, ZCTInvariant, PTL DEF Spec

-----------------------------------------------------------------------------
(***************************************************************************)
(* The refinement of CountingAbs.                                          *)
(***************************************************************************)

\* While Reap runs a finalizer, the fields of all other objects stay clear of
\* its object.
LEMMA OthersClosed ==
  ASSUME IInv, pc = "final"
  PROVE  /\ roots \cup held \subseteq live \ {dying} /\ Abs!Closed(live \ {dying})
<1>1. roots \cup held \subseteq live \ {dying}
  BY DyingAlone DEF IInv, DeadInv, DyingInv
<1>2. ASSUME NEW o \in live \ {dying}, field[o] # Null
      PROVE  field[o] \in live \ {dying}
  BY <1>2, DyingAlone DEF IInv, NoDangling, Sweeping
<1> QED
  BY <1>1, <1>2 DEF Abs!Closed

\* Whatever object is finalized, the stack does not lead to it.
LEMMA NotReached ==
  IInv /\ pc \in {"final", "sweepFinal"} => dying \in live /\ Abs!Within(roots, live \ {dying})
<1> SUFFICES ASSUME IInv, pc \in {"final", "sweepFinal"}
             PROVE  dying \in live /\ Abs!Within(roots, live \ {dying})
  OBVIOUS
<1>1. dying \in live
  BY DEF IInv, DyingInv
<1>2. CASE pc = "final"
  <2>1. roots \subseteq live \ {dying} /\ Abs!Closed(live \ {dying})
    BY <1>2, OthersClosed
  <2> QED
    BY <1>1, <2>1 DEF Abs!Within
<1>3. CASE pc = "sweepFinal"
  <2>1. marked \subseteq live \ {dying}
    BY <1>3 DEF IInv, DeadInv, DyingInv
  <2>2. roots \subseteq marked
    BY <1>3 DEF IInv, MarkInv, PhaseInv, Sweeping
  <2>3. Abs!Closed(marked)
    BY <1>3 DEF IInv, MarkInv, PhaseInv, Sweeping, Closed, Abs!Closed
  <2> QED
    BY <1>1, <2>1, <2>2, <2>3 DEF Abs!Within
<1> QED
  BY <1>2, <1>3

LEMMA NotReachedNext ==
  (IInv /\ pc \in {"final", "sweepFinal"} => dying \in live /\ Abs!Within(roots, live \ {dying}))'
BY NotReached, PTL

LEMMA AbstractInit == Init => Abs!AbsInit
BY DEF Init, Abs!AbsInit

LEMMA AbstractFinalize ==
  ASSUME IInv, IInv', pc \in {"pop", "sweep"}, pc' \in {"final", "sweepFinal"},
         UNCHANGED <<live, field, roots>>
  PROVE  Abs!AbsNext
<1>1. dying = Null
  BY DEF IInv, DyingInv
<1>2. dying' \in live /\ Abs!Within(roots, live \ {dying'})
  BY NotReachedNext DEF Abs!Within, Abs!Closed
<1>3. dying' \in Obj
  BY <1>2 DEF IInv, TypeOK
<1>4. Abs!Finalize(dying')
  BY <1>1, <1>2 DEF Abs!Finalize
<1> QED
  BY <1>3, <1>4 DEF Abs!AbsNext

LEMMA AbstractHold ==
  ASSUME IInv, NEW S \in SUBSET Obj, S \subseteq roots \cup ({field[p] : p \in roots} \ {Null}),
         roots' = S, UNCHANGED <<live, field, dying>>
  PROVE  Abs!AbsNext
BY DEF Abs!Hold, Abs!AbsNext

LEMMA AbstractMutator ==
  ASSUME IInv, NEW o \in Obj, New(o) \/ Load(o) \/ Forget(o)
  PROVE  Abs!AbsNext
<1>1. CASE New(o)
  <2>1. Abs!New(o)
    BY <1>1 DEF New, Abs!New
  <2> QED
    BY <2>1 DEF Abs!AbsNext
<1>2. CASE Load(o)
  <2>1. field[o] \in Obj /\ roots \subseteq Obj /\ o \in roots
    BY <1>2 DEF Load, IInv, TypeOK, Entry
  <2>2. roots' = roots \cup {field[o]} /\ field[o] # Null /\ UNCHANGED <<live, field, dying>>
    BY <1>2 DEF Load, object, control
  <2> QED
    BY <2>1, <2>2, AbstractHold
<1>3. CASE Forget(o)
  <2>1. roots' = roots \ {o} /\ UNCHANGED <<live, field, dying>> /\ roots \subseteq Obj
    BY <1>3 DEF Forget, object, control, IInv, TypeOK
  <2> QED
    BY <2>1, AbstractHold
<1> QED
  BY <1>1, <1>2, <1>3

LEMMA AbstractStore == ASSUME IInv, StoreEnd PROVE Abs!AbsNext
<1>1. dying = Null /\ store # NoStore
  BY DEF StoreEnd, IInv, DyingInv, PhaseInv
<1>2. store[1] \in roots /\ store[2] \in roots \cup {Null} /\ roots \subseteq Obj
  BY <1>1 DEF IInv, WaitingInv, TypeOK
<1>3. field' = [field EXCEPT ![store[1]] = store[2]] /\ UNCHANGED <<live, roots, dying>>
  BY DEF StoreEnd
<1>4. Abs!Write(store[1], store[2])
  BY <1>1, <1>2, <1>3 DEF Abs!Write
<1>5. store[1] \in Obj /\ store[2] \in Obj \cup {Null}
  BY <1>2
<1> QED
  BY <1>4, <1>5 DEF Abs!AbsNext

LEMMA AbstractFinalizerNew ==
  ASSUME NEW o \in Obj, FinalizerNew(o) PROVE Abs!AbsNext
<1>1. Abs!New(o)
  BY DEF FinalizerNew, Abs!New
<1> QED
  BY <1>1 DEF Abs!AbsNext

LEMMA AbstractFinalizerStore ==
  ASSUME IInv, FinalizerStoreEnd
  PROVE  Abs!AbsNext
<1> DEFINE p == inner[1]
           v == inner[2]
<1>1. pc = "final" /\ p \in held \ {dying} /\ v \in (held \ {dying}) \cup {Null}
      /\ field' = [field EXCEPT ![p] = v] /\ UNCHANGED <<live, roots, dying>>
  BY DEF FinalizerStoreEnd, IInv, InnerInv
<1> HIDE DEF p, v
<1>2. dying # Null
  BY <1>1, DyingAlone
<1>3. p \in live \ {dying} /\ {v} \ {Null} \subseteq live \ {dying}
      /\ Abs!Closed(live \ {dying})
  BY <1>1, OthersClosed
<1>4. Abs!Within({v} \ {Null}, live \ {dying})
  BY <1>3 DEF Abs!Within
<1>5. Abs!FinalizerStore(p, v)
  BY <1>1, <1>2, <1>3, <1>4 DEF Abs!FinalizerStore
<1>6. p \in Obj /\ v \in Obj \cup {Null}
  BY <1>3 DEF IInv, TypeOK
<1> QED
  BY <1>5, <1>6 DEF Abs!AbsNext

LEMMA AbstractFinalizer ==
  ASSUME IInv, FinalizerDrop \/ FinalizerEnd \/ Abort
  PROVE  Abs!AbsNext
<1>1. pc \in {"final", "sweepFinal"}
  BY DEF FinalizerDrop, FinalizerEnd, Abort
<1>2. dying # Null
  BY <1>1 DEF IInv, DyingInv, TypeOK
<1>3. CASE FinalizerDrop
  BY <1>2, <1>3 DEF FinalizerDrop, Abs!FinalizerDrop, Abs!AbsNext
<1>4. CASE FinalizerEnd
  BY <1>2, <1>4 DEF FinalizerEnd, Destroy, Abs!Destroy, Abs!AbsNext
<1>5. CASE Abort
  BY <1>2, <1>5 DEF Abort, object, Abs!Abort, Abs!AbsNext
<1> QED
  BY <1>3, <1>4, <1>5

LEMMA AbstractStep ==
  ASSUME Reads = "own"
  PROVE  IInv /\ IInv' /\ [Next]_vars => [Abs!AbsNext]_(Abs!absVars)
<1> SUFFICES ASSUME IInv, IInv', [Next]_vars PROVE Abs!AbsNext \/ UNCHANGED Abs!absVars
  BY DEF Abs!absVars
<1>1. CASE \E o \in Obj : New(o) \/ Load(o) \/ Forget(o)
  BY <1>1, AbstractMutator
<1>2. CASE \E o \in Obj : Stick(o)
  BY <1>2 DEF Stick, control, Abs!absVars
<1>3. CASE \E o \in Obj : FinalizerNew(o)
  BY <1>3, AbstractFinalizerNew
<1>4. CASE \E o \in Obj : SweepFinalize(o)
  <2>1. pc = "sweep" /\ pc' = "sweepFinal" /\ UNCHANGED <<live, field, roots>>
    BY <1>4 DEF SweepFinalize, object
  <2> QED
    BY <2>1, AbstractFinalize
<1>5. CASE \E p \in Obj : \E v \in Entry : StoreBegin(p, v)
  BY <1>5 DEF StoreBegin, Abs!absVars
<1>6. CASE \E p \in Obj : \E v \in Entry : FinalizerStoreBegin(p, v)
  BY <1>6 DEF FinalizerStoreBegin, Abs!absVars
<1>7. CASE StoreEnd \/ FinalizerStoreEnd
  BY <1>7, AbstractStore, AbstractFinalizerStore
<1>8. CASE AddAfterReap \/ Reap
  BY <1>8 DEF AddAfterReap, Reap, Abs!absVars
<1>9. CASE PopEmpty \/ PopPinned \/ EndReap
  BY <1>9 DEF PopEmpty, PopPinned, EndReap, object, control, Abs!absVars
<1>10. CASE PopDying
  <2>1. pc = "pop" /\ pc' = "final" /\ UNCHANGED <<live, field, roots>>
    BY <1>10 DEF PopDying, Pop
  <2> QED
    BY <2>1, AbstractFinalize
<1>11. CASE FinalizerDrop \/ FinalizerEnd \/ Abort
  BY <1>11, AbstractFinalizer
<1>12. CASE Sweep \/ SweepEnd
  BY <1>12 DEF Sweep, SweepEnd, object, Abs!absVars
<1>13. CASE UNCHANGED vars
  BY <1>13 DEF vars, object, control, Abs!absVars
<1> QED
  BY <1>1, <1>2, <1>3, <1>4, <1>5, <1>6, <1>7, <1>8, <1>9, <1>10, <1>11, <1>12, <1>13 DEF Next

\* Counts, the ZCT, Reap and the sweeps amount to destroying, one at a time,
\* objects to which nothing on the stack leads (GCObject.h:595-605), if
\* finalizers store only what was theirs.
THEOREM ZCTRefinement ==
  ASSUME Reads = "own"
  PROVE  Spec => ImplementsAbs
BY AbstractInit, AbstractStep, ZCTInvariant, PTL DEF Spec, ImplementsAbs, Abs!AbsSpec

-----------------------------------------------------------------------------
(***************************************************************************)
(* What CountingAbs promises.                                              *)
(***************************************************************************)

\* A step that keeps the typing and empties what it destroys, and after which
\* some closed set of objects, without the dying one, still holds the stack.
LEMMA PromiseStep ==
  ASSUME NEW C \in SUBSET (live' \ {dying'}), roots' \subseteq C,
         \A o \in C : field'[o] # Null => field'[o] \in C,
         live' \subseteq Obj, dying' \in live' \cup {Null},
         field' \in [Obj -> Obj \cup {Null}], \A o \in Obj \ live' : field'[o] = Null
  PROVE  Abs!AbsInv'
BY DEF Abs!AbsInv, Abs!ReachableExists, Abs!Within, Abs!Closed

LEMMA PromiseNext == Abs!AbsInv /\ [Abs!AbsNext]_(Abs!absVars) => Abs!AbsInv'
<1> SUFFICES ASSUME Abs!AbsInv, [Abs!AbsNext]_(Abs!absVars) PROVE Abs!AbsInv'
  OBVIOUS
<1>1. /\ live \subseteq Obj /\ dying \in live \cup {Null} /\ Null \notin Obj
      /\ field \in [Obj -> Obj \cup {Null}] /\ \A o \in Obj \ live : field[o] = Null
  BY ConstantsAssumption DEF Abs!AbsInv
<1>2. PICK C \in SUBSET (live \ {dying}) :
        roots \subseteq C /\ \A o \in C : field[o] # Null => field[o] \in C
  BY DEF Abs!AbsInv, Abs!ReachableExists, Abs!Within, Abs!Closed
<1>3. ASSUME NEW o \in Obj, Abs!New(o) PROVE Abs!AbsInv'
  <2>1. /\ o \notin live /\ live' = live \cup {o} /\ field' = field /\ dying' = dying
        /\ roots' \subseteq C \cup {o}
    BY <1>2, <1>3 DEF Abs!New
  <2>2. C \cup {o} \in SUBSET (live' \ {dying'})
    BY <1>1, <1>2, <2>1
  <2> QED
    BY <1>1, <1>2, <2>1, <2>2, PromiseStep
<1>4. ASSUME NEW S, Abs!Hold(S) PROVE Abs!AbsInv'
  <2>1. live' = live /\ field' = field /\ dying' = dying /\ roots' \subseteq C
    BY <1>2, <1>4 DEF Abs!Hold
  <2> QED
    BY <1>1, <1>2, <2>1, PromiseStep
<1>5. ASSUME NEW p \in Obj, NEW v \in Obj \cup {Null}, Abs!Write(p, v) PROVE Abs!AbsInv'
  <2>1. /\ live' = live /\ dying' = dying /\ roots' = roots
        /\ p \in roots /\ v \in roots \cup {Null} /\ field' = [field EXCEPT ![p] = v]
    BY <1>5 DEF Abs!Write
  <2>2. \A o \in C : field'[o] # Null => field'[o] \in C
    BY <1>1, <1>2, <2>1
  <2>3. \A o \in Obj \ live' : field'[o] = Null
    BY <1>1, <1>2, <2>1
  <2>4. field' \in [Obj -> Obj \cup {Null}]
    BY <1>1, <2>1
  <2> QED
    BY <1>1, <1>2, <2>1, <2>2, <2>3, <2>4, PromiseStep
<1>6. ASSUME NEW o \in Obj, Abs!Finalize(o) PROVE Abs!AbsInv'
  <2>1. live' = live /\ field' = field /\ roots' = roots /\ dying' = o /\ o \in live
    BY <1>6 DEF Abs!Finalize
  <2>2. PICK D \in SUBSET (live \ {o}) :
          roots \subseteq D /\ \A x \in D : field[x] # Null => field[x] \in D
    BY <1>6 DEF Abs!Finalize, Abs!Within, Abs!Closed
  <2> QED
    BY <1>1, <2>1, <2>2, PromiseStep
<1>7. ASSUME NEW p \in Obj, NEW v \in Obj \cup {Null}, Abs!FinalizerStore(p, v) PROVE Abs!AbsInv'
  <2>1. /\ live' = live /\ dying' = dying /\ roots' = roots
        /\ p \in live /\ field' = [field EXCEPT ![p] = v]
    BY <1>7 DEF Abs!FinalizerStore
  <2>2. PICK D \in SUBSET (live \ {dying}) :
          {v} \ {Null} \subseteq D /\ \A x \in D : field[x] # Null => field[x] \in D
    BY <1>7 DEF Abs!FinalizerStore, Abs!Within, Abs!Closed
  <2>3. \A o \in C \cup D : field'[o] # Null => field'[o] \in C \cup D
    BY <1>1, <1>2, <2>1, <2>2
  <2>4. C \cup D \in SUBSET (live' \ {dying'}) /\ roots' \subseteq C \cup D
    BY <1>2, <2>1, <2>2
  <2>5. \A o \in Obj \ live' : field'[o] = Null
    BY <1>1, <2>1
  <2>6. field' \in [Obj -> Obj \cup {Null}]
    BY <1>1, <2>1
  <2> QED
    BY <1>1, <2>1, <2>3, <2>4, <2>5, <2>6, PromiseStep
<1>8. CASE Abs!FinalizerDrop
  <2>1. /\ live' = live /\ dying' = dying /\ roots' = roots
        /\ field' = [field EXCEPT ![dying] = Null]
    BY <1>8 DEF Abs!FinalizerDrop
  <2>2. \A o \in C : field'[o] # Null => field'[o] \in C
    BY <1>1, <1>2, <2>1
  <2>3. \A o \in Obj \ live' : field'[o] = Null
    BY <1>1, <2>1
  <2>4. field' \in [Obj -> Obj \cup {Null}]
    BY <1>1, <2>1
  <2> QED
    BY <1>1, <1>2, <2>1, <2>2, <2>3, <2>4, PromiseStep
<1>9. CASE Abs!Destroy
  <2>1. /\ live' = live \ {dying} /\ dying' = Null /\ field[dying] = Null
        /\ field' = field /\ roots' = roots
    BY <1>9 DEF Abs!Destroy
  <2>2. C \in SUBSET (live' \ {dying'})
    BY <1>1, <1>2, <2>1
  <2> QED
    BY <1>1, <1>2, <2>1, <2>2, PromiseStep
<1>10. CASE Abs!Abort
  <2>1. live' = live /\ field' = field /\ roots' = {} /\ dying' = Null
    BY <1>10 DEF Abs!Abort
  <2> QED
    BY <1>1, <2>1, PromiseStep
<1>11. CASE UNCHANGED Abs!absVars
  BY <1>1, <1>2, <1>11, PromiseStep DEF Abs!absVars
<1> QED
  BY <1>3, <1>4, <1>5, <1>6, <1>7, <1>8, <1>9, <1>10, <1>11 DEF Abs!AbsNext

\* The promise of CountingAbs: what the stack leads to, however far, exists and
\* is not being finalized (GCObject.h:600-605).
THEOREM CountingPromise == Abs!AbsSpec => []Abs!ReachableExists
<1>1. Abs!AbsInit => Abs!AbsInv
  BY DEF Abs!AbsInit, Abs!AbsInv, Abs!ReachableExists, Abs!Within, Abs!Closed
<1>2. Abs!AbsInv => Abs!ReachableExists
  BY DEF Abs!AbsInv
<1> QED
  BY <1>1, <1>2, PromiseNext, PTL DEF Abs!AbsSpec

\* So it is for the ZCT, in the middle of a reap, a sweep, a finalizer or a store.
THEOREM ZCTReachableExists ==
  ASSUME Reads = "own"
  PROVE  Spec => []Abs!ReachableExists
BY ZCTRefinement, CountingPromise, PTL DEF ImplementsAbs
=============================================================================
