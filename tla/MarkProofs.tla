----------------------------- MODULE MarkProofs -----------------------------
(***************************************************************************)
(* Proofs about Mark, for all heaps, sets of objects and stack sizes.      *)
(***************************************************************************)
EXTENDS Mark, TLAPS

-----------------------------------------------------------------------------
(* The mark stack.  Its items may be of any set S.                          *)

StackOver(S) == [items : Seq(S), base : Seq(Nat), extra : BOOLEAN]

LEMMA PrefixOf ==
  ASSUME NEW S, NEW q \in Seq(S), NEW n \in 0..Len(q)
  PROVE  /\ SubSeq(q, 1, n) \in Seq(S) /\ Len(SubSeq(q, 1, n)) = n
         /\ \A i \in 1..n : SubSeq(q, 1, n)[i] = q[i]
OBVIOUS

LEMMA PushStack ==
  ASSUME NEW S, NEW s \in StackOver(S), NEW x \in S,
         NEW limit \in Nat \ {0}, WellFormed(s, limit)
  PROVE  LET p == Push(s, x, limit)
         IN /\ p \in StackOver(S) /\ WellFormed(p, limit)
            /\ Len(p.items) = Len(s.items) + 1
            /\ \A i \in 1..Len(s.items) : p.items[i] = s.items[i]
            /\ p.items[Len(s.items) + 1] = x
<1> DEFINE p == Push(s, x, limit)
<1>1. s.items \in Seq(S) /\ s.base \in Seq(Nat) /\ s.extra \in BOOLEAN
  BY DEF StackOver
<1>2. Len(s.base) \in Nat \ {0} /\ Len(s.items) \in Nat
  BY <1>1 DEF WellFormed
<1>3. s.base[Len(s.base)] \in Nat
  BY <1>1, <1>2
<1>4. /\ p.items = Append(s.items, x)
      /\ p.base = IF TopCount(s) < limit THEN s.base ELSE Append(s.base, Len(s.items))
      /\ p.extra = (s.extra /\ TopCount(s) < limit)
      /\ p = [items |-> p.items, base |-> p.base, extra |-> p.extra]
  BY DEF Push, Count
<1> HIDE DEF p
<1>5. p.items \in Seq(S) /\ Len(p.items) = Len(s.items) + 1
      /\ (\A i \in 1..Len(s.items) : p.items[i] = s.items[i])
      /\ p.items[Len(s.items) + 1] = x
  BY <1>1, <1>4
<1>6. p \in StackOver(S)
  <2>1. p.base \in Seq(Nat)
    BY <1>1, <1>2, <1>4
  <2>2. p.extra \in BOOLEAN
    BY <1>4
  <2> QED
    BY <2>1, <2>2, <1>4, <1>5 DEF StackOver
<1>7. WellFormed(p, limit)
  <2>1. CASE TopCount(s) < limit
    <3>1. p.base = s.base /\ Len(p.items) = Len(s.items) + 1
      BY <2>1, <1>4, <1>5
    <3>2. TopCount(p) = TopCount(s) + 1
      BY <3>1, <1>2, <1>3 DEF TopCount, Count
    <3>3. TopCount(s) \in 0..limit /\ TopCount(s) + 1 \in 1..limit
      BY <2>1, <1>2, <1>3 DEF WellFormed
    <3> QED
      BY <3>1, <3>2, <3>3 DEF WellFormed
  <2>2. CASE ~ (TopCount(s) < limit)
    <3>1. p.base = Append(s.base, Len(s.items)) /\ Len(p.base) = Len(s.base) + 1
          /\ p.base[Len(p.base)] = Len(s.items)
          /\ \A i \in 1..Len(s.base) : p.base[i] = s.base[i]
      <4>1. p.base = Append(s.base, Len(s.items))
        BY <2>2, <1>4
      <4> HIDE DEF p
      <4> QED
        BY <4>1, <1>1, <1>2
    <3>2. Len(s.items) - s.base[Len(s.base)] \in 1..limit
      BY <2>2, <1>2, <1>3 DEF WellFormed, TopCount, Count
    <3>3. TopCount(p) = 1
      BY <3>1, <1>2, <1>5 DEF TopCount, Count
    <3>4. \A i \in 2..Len(p.base) : p.base[i] - p.base[i - 1] \in 1..limit
      BY <3>1, <3>2, <1>2 DEF WellFormed
    <3>5. p.base # <<>> /\ p.base[1] = 0 /\ Len(p.base) > 1
      BY <3>1, <1>1, <1>2 DEF WellFormed
    <3> QED
      BY <3>3, <3>4, <3>5 DEF WellFormed
  <2> QED
    BY <2>1, <2>2
<1> QED
  BY <1>5, <1>6, <1>7 DEF p

LEMMA PopStack ==
  ASSUME NEW S, NEW s \in StackOver(S), Len(s.items) > 0,
         NEW limit \in Nat \ {0}, WellFormed(s, limit)
  PROVE  LET p == Pop(s)
         IN /\ p \in StackOver(S) /\ WellFormed(p, limit)
            /\ Len(s.items) \in Nat \ {0} /\ Len(p.items) = Len(s.items) - 1
            /\ \A i \in 1..Len(p.items) : p.items[i] = s.items[i]
            /\ \A more \in BOOLEAN : CanPush(p, limit, more)
<1> DEFINE p == Pop(s)
           last == TopCount(s) = 1 /\ Len(s.base) > 1
<1>1. s.items \in Seq(S) /\ s.base \in Seq(Nat) /\ s.extra \in BOOLEAN
  BY DEF StackOver
<1>2. Len(s.base) \in Nat \ {0} /\ Len(s.items) \in Nat \ {0}
  BY <1>1 DEF WellFormed
<1>3. \A i \in 1..Len(s.base) : s.base[i] \in Nat
  BY <1>1, <1>2
<1>4. /\ p.items = SubSeq(s.items, 1, Len(s.items) - 1)
      /\ p.base = IF last THEN SubSeq(s.base, 1, Len(s.base) - 1) ELSE s.base
      /\ p.extra = (s.extra \/ last)
      /\ p = [items |-> p.items, base |-> p.base, extra |-> p.extra]
  BY DEF Pop
<1> HIDE DEF p
<1>5. p.items \in Seq(S) /\ Len(p.items) = Len(s.items) - 1
      /\ (\A i \in 1..Len(p.items) : p.items[i] = s.items[i])
  <2>1. Len(s.items) - 1 \in 0..Len(s.items)
    BY <1>2
  <2> QED
    BY <1>1, <1>4, <2>1, PrefixOf
<1>6. CASE last
  <2>1. Len(p.base) = Len(s.base) - 1 /\ p.base \in Seq(Nat)
        /\ (\A i \in 1..Len(p.base) : p.base[i] = s.base[i])
    <3>1. Len(s.base) - 1 \in 0..Len(s.base)
      BY <1>2
    <3>2. p.base = SubSeq(s.base, 1, Len(s.base) - 1)
      BY <1>6, <1>4
    <3>3. SubSeq(s.base, 1, Len(s.base) - 1) \in Seq(Nat)
          /\ Len(SubSeq(s.base, 1, Len(s.base) - 1)) = Len(s.base) - 1
          /\ \A i \in 1..(Len(s.base) - 1) : SubSeq(s.base, 1, Len(s.base) - 1)[i] = s.base[i]
      BY <1>1, <3>1, PrefixOf
    <3> QED
      BY <3>2, <3>3
  <2>2. s.base[Len(s.base)] - s.base[Len(s.base) - 1] \in 1..limit
    BY <1>6, <1>2 DEF WellFormed
  <2>3. Len(s.items) = s.base[Len(s.base)] + 1
    <3>1. s.base[Len(s.base)] \in Nat /\ Len(s.items) - s.base[Len(s.base)] = 1
      BY <1>6, <1>2, <1>3 DEF TopCount, Count
    <3> QED
      BY <3>1, <1>2
  <2>4. p.base[Len(p.base)] = s.base[Len(s.base) - 1] /\ p.base[1] = s.base[1] /\ Len(p.base) >= 1
    BY <1>6, <1>2, <2>1
  <2>5. TopCount(p) \in 1..limit
    <3>1. s.base[Len(s.base)] \in Nat /\ s.base[Len(s.base) - 1] \in Nat
      BY <1>6, <1>2, <1>3
    <3>2. Len(p.items) = Len(s.items) - 1
      BY <1>5
    <3>3. p.base[Len(p.base)] = s.base[Len(s.base) - 1]
      BY <2>4
    <3> QED
      BY <3>1, <3>2, <3>3, <2>2, <2>3, <1>2 DEF TopCount, Count
  <2>6. WellFormed(p, limit)
    <3>1. ASSUME NEW i \in 2..Len(p.base)
          PROVE  p.base[i] - p.base[i - 1] \in 1..limit
      <4>1. i \in 2..Len(s.base) /\ i \in 1..Len(p.base) /\ i - 1 \in 1..Len(p.base)
        BY <2>1, <1>2
      <4>2. s.base[i] - s.base[i - 1] \in 1..limit
        BY <4>1 DEF WellFormed
      <4> QED
        BY <4>1, <4>2, <2>1
    <3>2. p.base # <<>> /\ p.base[1] = 0
      BY <2>1, <2>4 DEF WellFormed
    <3> QED
      BY <3>1, <3>2, <2>5 DEF WellFormed
  <2>7. p.extra = TRUE
    BY <1>4, <1>6
  <2>8. p \in StackOver(S)
    BY <2>1, <2>7, <1>4, <1>5 DEF StackOver
  <2>9. \A more \in BOOLEAN : CanPush(p, limit, more)
    BY <2>7 DEF CanPush, HasSegment
  <2> QED
    BY <2>6, <2>8, <2>9, <1>2, <1>5 DEF p
<1>7. CASE ~ last
  <2>1. p.base = s.base /\ p.extra = s.extra
    BY <1>4, <1>7, <1>1
  <2>2. TopCount(p) = TopCount(s) - 1
    BY <2>1, <1>2, <1>3, <1>5 DEF TopCount, Count
  <2>3. TopCount(s) \in (IF Len(s.base) > 1 THEN 1 ELSE 0)..limit
    BY DEF WellFormed
  <2>4. Len(s.base) > 1 \/ s.base[Len(s.base)] = 0
    BY <1>2 DEF WellFormed
  <2>5. TopCount(p) \in (IF Len(p.base) > 1 THEN 1 ELSE 0)..limit /\ TopCount(p) < limit
    <3>1. CASE Len(s.base) > 1
      <4>1. TopCount(s) \in 1..limit /\ TopCount(s) # 1
        BY <3>1, <2>3, <1>7
      <4> QED
        BY <3>1, <4>1, <2>1, <2>2
    <3>2. CASE ~ (Len(s.base) > 1)
      <4>1. TopCount(s) = Len(s.items)
        BY <3>2, <2>4, <1>2 DEF TopCount, Count
      <4> QED
        BY <3>2, <4>1, <2>1, <2>2, <2>3, <1>2
    <3> QED
      BY <3>1, <3>2
  <2>6. WellFormed(p, limit)
    BY <2>1, <2>5 DEF WellFormed
  <2>7. p \in StackOver(S)
    BY <2>1, <1>1, <1>4, <1>5 DEF StackOver
  <2>8. \A more \in BOOLEAN : CanPush(p, limit, more)
    BY <2>5 DEF CanPush
  <2> QED
    BY <2>6, <2>7, <2>8, <1>2, <1>5 DEF p
<1> QED
  BY <1>6, <1>7 DEF p

LEMMA ClearStack ==
  ASSUME NEW S, NEW s \in StackOver(S), NEW i \in 1..Len(s.items), Dead \in S,
         NEW limit \in Nat \ {0}, WellFormed(s, limit)
  PROVE  LET p == ClearItemAt(s, i)
         IN /\ p \in StackOver(S) /\ WellFormed(p, limit)
            /\ Len(p.items) = Len(s.items)
            /\ \A j \in 1..Len(s.items) : p.items[j] = IF j = i THEN Dead ELSE s.items[j]
<1> DEFINE p == ClearItemAt(s, i)
<1>1. s.items \in Seq(S) /\ s.base \in Seq(Nat) /\ s.extra \in BOOLEAN
  BY DEF StackOver
<1>2. p.items = [s.items EXCEPT ![i] = Dead] /\ p.base = s.base /\ p.extra = s.extra
  BY DEF ClearItemAt, StackOver
<1>3. p.items \in Seq(S) /\ Len(p.items) = Len(s.items)
      /\ \A j \in 1..Len(s.items) : p.items[j] = IF j = i THEN Dead ELSE s.items[j]
  BY <1>1, <1>2
<1>4. p \in StackOver(S)
  BY <1>3 DEF ClearItemAt, StackOver
<1>5. WellFormed(p, limit)
  BY <1>2, <1>3 DEF WellFormed, TopCount, Count
<1> QED
  BY <1>3, <1>4, <1>5

-----------------------------------------------------------------------------
(* The operations of the marker only extend what it has done: Extends(g, h) *)
(* is that a state h of the marker keeps the bits, the items and the flag   *)
(* of g, queues nothing without an item, and blackens without an item only  *)
(* objects that contain no references.                                      *)

MarkerOver(S) ==
  [work : StackOver(S), mark : SUBSET Obj, queued : SUBSET Obj, prot : SUBSET Obj,
   overflow : BOOLEAN, sentinel : Nat]
MarkerOK(g, S) == g \in MarkerOver(S) /\ WellFormed(g.work, SegSize)

SafeIn(g, v) == v = Null \/ v \in g.mark \cup g.queued
AheadIn(g, b, k) == \E x \in Items(g.work) : x.t \in Scan /\ x.b = b /\ x.k <= k

Extends(g, h, S) ==
  /\ MarkerOK(h, S)
  /\ h.sentinel = g.sentinel
  /\ g.mark \subseteq h.mark
  /\ g.queued \subseteq h.mark \cup h.queued
  /\ g.overflow => h.overflow
  /\ Len(g.work.items) <= Len(h.work.items)
  /\ \A i \in 1..Len(g.work.items) : h.work.items[i] = g.work.items[i]
  /\ \A o \in h.queued : o \in g.queued \/ Work("object", o, 1) \in Items(h.work)
  /\ \A o \in h.mark : o \in g.mark \/ Parts(o) = 0

LEMMA MarkerFields ==
  ASSUME NEW S, NEW g, MarkerOK(g, S)
  PROVE  /\ g.work \in StackOver(S) /\ WellFormed(g.work, SegSize)
         /\ g.work.items \in Seq(S) /\ Len(g.work.items) \in Nat
         /\ g.mark \subseteq Obj /\ g.queued \subseteq Obj /\ g.prot \subseteq Obj
         /\ g.overflow \in BOOLEAN /\ g.sentinel \in Nat
         /\ SegSize \in Nat \ {0}
BY MarkAssumption DEF MarkerOK, MarkerOver, StackOver

LEMMA ItemsKept ==
  ASSUME NEW S, NEW T, NEW s \in StackOver(S), NEW p \in StackOver(T),
         Len(s.items) <= Len(p.items),
         \A i \in 1..Len(s.items) : p.items[i] = s.items[i]
  PROVE  Items(s) \subseteq Items(p)
BY DEF Items, StackOver

LEMMA ExtendsReflexive ==
  ASSUME NEW S, NEW g, MarkerOK(g, S)
  PROVE  Extends(g, g, S)
BY MarkerFields DEF Extends

LEMMA ExtendsTransitive ==
  ASSUME NEW S, NEW f, NEW g, NEW h, MarkerOK(f, S), Extends(f, g, S), Extends(g, h, S)
  PROVE  Extends(f, h, S)
<1>1. MarkerOK(g, S) /\ MarkerOK(h, S)
  BY DEF Extends
<1>2. Len(f.work.items) \in Nat /\ Len(g.work.items) \in Nat /\ Len(h.work.items) \in Nat
  BY <1>1, MarkerFields
<1>3. Items(g.work) \subseteq Items(h.work)
  <2>1. g.work \in StackOver(S) /\ h.work \in StackOver(S)
    BY <1>1, MarkerFields
  <2>2. /\ Len(g.work.items) <= Len(h.work.items)
        /\ \A i \in 1..Len(g.work.items) : h.work.items[i] = g.work.items[i]
    BY DEF Extends
  <2> QED
    BY <2>1, <2>2, ItemsKept
<1>4. Len(f.work.items) <= Len(h.work.items)
      /\ \A i \in 1..Len(f.work.items) : h.work.items[i] = f.work.items[i]
  BY <1>2 DEF Extends
<1>5. \A o \in h.queued : o \in f.queued \/ Work("object", o, 1) \in Items(h.work)
  BY <1>3 DEF Extends
<1> QED
  BY <1>1, <1>4, <1>5 DEF Extends

\* An item that does not fit sets the flag.
LEMMA PushItemExtends ==
  ASSUME NEW S, NEW g, MarkerOK(g, S), NEW x \in S, NEW more \in BOOLEAN
  PROVE  LET h == PushItem(g, x, more)
         IN /\ Extends(g, h, S)
            /\ h.overflow \/ x \in Items(h.work)
            /\ h.mark = g.mark
            /\ CanPush(g.work, SegSize, more) =>
                 /\ h.overflow = g.overflow
                 /\ Len(h.work.items) = Len(g.work.items) + 1
                 /\ h.work.items[Len(h.work.items)] = x
<1> DEFINE h == PushItem(g, x, more)
<1>1. CASE CanPush(g.work, SegSize, more)
  <2> DEFINE p == Push(g.work, x, SegSize)
  <2>1. h = [g EXCEPT !.work = p]
    BY <1>1 DEF PushItem
  <2>2. /\ p \in StackOver(S) /\ WellFormed(p, SegSize)
        /\ Len(p.items) = Len(g.work.items) + 1
        /\ \A i \in 1..Len(g.work.items) : p.items[i] = g.work.items[i]
        /\ p.items[Len(g.work.items) + 1] = x
    <3>1. g.work \in StackOver(S) /\ WellFormed(g.work, SegSize) /\ SegSize \in Nat \ {0}
      BY MarkerFields
    <3> QED
      BY <3>1, PushStack
  <2> HIDE DEF p
  <2>3. /\ h.work = p /\ h.mark = g.mark /\ h.queued = g.queued
        /\ h.overflow = g.overflow /\ h.sentinel = g.sentinel
        /\ h \in MarkerOver(S)
    BY <2>1, <2>2 DEF MarkerOK, MarkerOver
  <2>4. x \in Items(p)
    BY <2>2, MarkerFields DEF Items
  <2> HIDE DEF h
  <2> QED
    BY <2>2, <2>3, <2>4, MarkerFields DEF Extends, MarkerOK, h
<1>2. CASE ~ CanPush(g.work, SegSize, more)
  <2>1. h = [g EXCEPT !.overflow = TRUE]
    BY <1>2 DEF PushItem
  <2>2. /\ h.work = g.work /\ h.mark = g.mark /\ h.queued = g.queued
        /\ h.overflow = TRUE /\ h.sentinel = g.sentinel
        /\ h \in MarkerOver(S)
    BY <2>1 DEF MarkerOK, MarkerOver
  <2> QED
    BY <1>2, <2>2, MarkerFields DEF Extends, MarkerOK
<1> QED
  BY <1>1, <1>2

\* An object that does not fit is neither queued nor on the stack.
Queues(g, h, o, S) ==
  /\ MarkerOK(h, S)
  /\ h.mark = g.mark /\ h.sentinel = g.sentinel
  /\ g.overflow => h.overflow
  /\ Len(g.work.items) <= Len(h.work.items)
  /\ \A i \in 1..Len(g.work.items) : h.work.items[i] = g.work.items[i]
  /\ \/ /\ h.queued = g.queued \cup {o}
        /\ Work("object", o, 1) \in Items(h.work)
     \/ h.overflow = TRUE /\ h.queued = g.queued \ {o}

LEMMA PushObjectExtends ==
  ASSUME NEW S, Item \subseteq S, NEW g, MarkerOK(g, S), NEW o \in Obj, NEW more \in BOOLEAN
  PROVE  Queues(g, PushObject(g, o, more), o, S)
<1> DEFINE h == PushObject(g, o, more)
           x == Work("object", o, 1)
<1>1. x \in S
  BY MarkAssumption DEF Work, Item
<1>a. g.work \in StackOver(S) /\ WellFormed(g.work, SegSize) /\ SegSize \in Nat \ {0}
  BY MarkerFields
<1>2. CASE CanPush(g.work, SegSize, more)
  <2> DEFINE p == Push(g.work, x, SegSize)
  <2>1. h = [g EXCEPT !.work = p, !.queued = g.queued \cup {o}]
    BY <1>2 DEF PushObject
  <2>2. /\ p \in StackOver(S) /\ WellFormed(p, SegSize)
        /\ Len(p.items) = Len(g.work.items) + 1
        /\ \A i \in 1..Len(g.work.items) : p.items[i] = g.work.items[i]
        /\ p.items[Len(g.work.items) + 1] = x
    <3> HIDE DEF x
    <3> QED
      BY <1>1, <1>a, PushStack
  <2> HIDE DEF p, x, h
  <2>3. /\ h.work = p /\ h.mark = g.mark /\ h.queued = g.queued \cup {o}
        /\ h.overflow = g.overflow /\ h.sentinel = g.sentinel
        /\ h \in MarkerOver(S)
    <3>1. g.queued \cup {o} \subseteq Obj
      BY MarkerFields
    <3> QED
      BY <2>1, <2>2, <3>1 DEF MarkerOK, MarkerOver
  <2>4. x \in Items(p)
    BY <2>2, MarkerFields DEF Items
  <2> HIDE DEF h
  <2> QED
    BY <2>2, <2>3, <2>4, MarkerFields DEF MarkerOK, Queues, h, x
<1>3. CASE ~ CanPush(g.work, SegSize, more)
  <2>1. h = [g EXCEPT !.overflow = TRUE, !.queued = g.queued \ {o}]
    BY <1>3 DEF PushObject
  <2>2. /\ h.work = g.work /\ h.mark = g.mark /\ h.queued = g.queued \ {o}
        /\ h.overflow = TRUE /\ h.sentinel = g.sentinel
        /\ h \in MarkerOver(S)
    BY <2>1 DEF MarkerOK, MarkerOver
  <2> HIDE DEF h
  <2> QED
    BY <2>2, MarkerFields DEF MarkerOK, Queues, h
<1> QED
  BY <1>2, <1>3

LEMMA TraceExtends ==
  ASSUME NEW S, Item \subseteq S, NEW g, MarkerOK(g, S),
         NEW v \in Obj \cup {Null}, NEW more \in BOOLEAN
  PROVE  LET h == Trace(g, v, more)
         IN Extends(g, h, S) /\ (h.overflow \/ SafeIn(h, v))
<1> DEFINE h == Trace(g, v, more)
<1>1. CASE v = Null \/ v \in g.mark \cup g.queued
  BY <1>1, ExtendsReflexive DEF Trace, SafeIn
<1>2. CASE ~(v = Null \/ v \in g.mark \cup g.queued) /\ Parts(v) = 0
  <2>1. h = [g EXCEPT !.mark = g.mark \cup {v}]
    BY <1>2 DEF Trace
  <2>2. v \in Obj
    BY <1>2
  <2>3. /\ h.work = g.work /\ h.mark = g.mark \cup {v} /\ h.queued = g.queued
        /\ h.overflow = g.overflow /\ h.sentinel = g.sentinel
        /\ h \in MarkerOver(S)
    BY <2>1, <2>2 DEF MarkerOK, MarkerOver
  <2> HIDE DEF h
  <2> QED
    BY <1>2, <2>3, MarkerFields DEF MarkerOK, Extends, SafeIn, h
<1>3. CASE ~(v = Null \/ v \in g.mark \cup g.queued) /\ Parts(v) # 0
  <2>1. h = PushObject(g, v, more) /\ v \in Obj
    BY <1>3 DEF Trace
  <2> HIDE DEF h
  <2>2. Queues(g, h, v, S)
    BY <2>1, PushObjectExtends
  <2>3. v \notin g.queued
    BY <1>3
  <2>4. Extends(g, h, S)
    BY <2>2, <2>3 DEF Extends, Queues
  <2>5. h.overflow \/ SafeIn(h, v)
    BY <2>2 DEF SafeIn, Queues
  <2> QED
    BY <2>4, <2>5 DEF h
<1> QED
  BY <1>1, <1>2, <1>3

-----------------------------------------------------------------------------
(* What is left of an object, a root or the stack from part k on is safe,   *)
(* still ahead of the marker, or will be visited again.                     *)

Covered(h, b, k) ==
  h.overflow \/ \A j \in Slot : k <= j => SafeIn(h, mem[b][j]) \/ AheadIn(h, b, j)

HeapOK ==
  /\ shape \in Shapes
  /\ mem \in [Memory -> [Slot -> Obj \cup {Null}]]
  /\ MemorySound

LEMMA SlotFacts ==
  /\ 1 \in Slot
  /\ \A k \in Slot : k \in Nat /\ k > 0
  /\ \A k \in Slot, n \in {0} \cup Slot : k < n => k + 1 \in Slot
<1>1. 1 \in Slot /\ \A k \in Slot : k \in Nat /\ k > 0
  BY MarkAssumption
<1>2. ASSUME NEW k \in Slot, NEW n \in {0} \cup Slot, k < n
      PROVE  k + 1 \in Slot
  <2>1. k \in Nat /\ n \in Nat /\ n # 0
    BY <1>1, <1>2
  <2>2. n \in Slot /\ k + 1 \in 1..n
    BY <2>1, <1>2
  <2> QED
    BY <2>2, MarkAssumption
<1> QED
  BY <1>1, <1>2

LEMMA HeapFacts ==
  ASSUME HeapOK, NEW b \in Memory
  PROVE  /\ Parts(b) \in {0} \cup Slot
         /\ Parts(b) \in Nat
         /\ \A k \in Slot : mem[b][k] \in Obj \cup {Null}
         /\ \A k \in Slot : Parts(b) < k => mem[b][k] = Null
<1>1. Parts(b) \in {0} \cup Slot
  BY MarkAssumption DEF HeapOK, Parts, Memory
<1> QED
  BY <1>1, SlotFacts DEF HeapOK, MemorySound

\* The relation between two states keeps what is safe and what is ahead.
LEMMA ExtendsKeeps ==
  ASSUME NEW S, NEW g, NEW h, MarkerOK(g, S), Extends(g, h, S)
  PROVE  /\ \A v : SafeIn(g, v) => SafeIn(h, v)
         /\ \A b, k : AheadIn(g, b, k) => AheadIn(h, b, k)
         /\ \A b, k : Covered(g, b, k) => Covered(h, b, k)
         /\ Items(g.work) \subseteq Items(h.work)
<1>1. Items(g.work) \subseteq Items(h.work)
  BY MarkerFields, ItemsKept DEF Extends
<1>2. \A v : SafeIn(g, v) => SafeIn(h, v)
  BY DEF SafeIn, Extends
<1>3. \A b, k : AheadIn(g, b, k) => AheadIn(h, b, k)
  BY <1>1 DEF AheadIn
<1>4. g.overflow => h.overflow
  BY DEF Extends
<1> QED
  BY <1>1, <1>2, <1>3, <1>4 DEF Covered

LEMMA MarkPartsExtends ==
  ASSUME HeapOK, NEW S, Item \subseteq S, NEW g, MarkerOK(g, S),
         NEW t \in Scan, NEW b \in Memory, NEW k \in Slot, NEW more \in BOOLEAN,
         \A j \in Slot : Work(t, b, j) \in Item
  PROVE  LET h == MarkParts(g, t, b, k, more)
         IN Extends(g, h, S) /\ Covered(h, b, k)
<1> DEFINE s == IF k < Parts(b) THEN PushItem(g, Work(t, b, k + 1), more) ELSE g
           h == Trace(s, mem[b][k], more)
<1>1. h = MarkParts(g, t, b, k, more)
  BY DEF MarkParts
<1>2. k \in Nat \ {0} /\ (k < Parts(b) => k + 1 \in Slot)
  BY HeapFacts, SlotFacts
<1>3. Extends(g, s, S) /\ (k < Parts(b) => s.overflow \/ Work(t, b, k + 1) \in Items(s.work))
  BY <1>2, PushItemExtends, ExtendsReflexive
<1>4. MarkerOK(s, S)
  BY <1>3 DEF Extends
<1> HIDE DEF s
<1>5. Extends(s, h, S) /\ (h.overflow \/ SafeIn(h, mem[b][k]))
  BY <1>4, HeapFacts, TraceExtends
<1> HIDE DEF h
<1>6. Extends(g, h, S)
  BY <1>3, <1>5, ExtendsTransitive
<1>7. ASSUME NEW j \in Slot, k <= j, ~ h.overflow
      PROVE  SafeIn(h, mem[b][j]) \/ AheadIn(h, b, j)
  <2>1. j \in Nat /\ Parts(b) \in Nat
    BY SlotFacts, HeapFacts
  <2>2. CASE j = k
    BY <2>2, <1>5, <1>7
  <2>3. CASE j # k /\ k < Parts(b)
    <3>1. ~ s.overflow
      BY <1>5, <1>7 DEF Extends
    <3>2. Work(t, b, k + 1) \in Items(h.work)
      BY <3>1, <2>3, <1>3, <1>4, <1>5, ExtendsKeeps
    <3>3. k + 1 <= j
      BY <2>1, <2>3, <1>2, <1>7
    <3> QED
      BY <3>2, <3>3 DEF AheadIn, Work
  <2>4. CASE j # k /\ ~(k < Parts(b))
    <3>1. Parts(b) < j
      BY <2>1, <2>4, <1>2, <1>7
    <3> QED
      BY <3>1, HeapFacts DEF SafeIn
  <2> QED
    BY <2>2, <2>3, <2>4
<1> QED
  BY <1>1, <1>6, <1>7 DEF Covered

LEMMA ItemFacts ==
  /\ Dead \in Item
  /\ \A k \in Slot : /\ \A o \in Obj : Work("tail", o, k) \in Item /\ Work("chunk", o, k) \in Item
                     /\ Work("rootchunk", Root, k) \in Item
                     /\ Work("stack", Stack, k) \in Item
  /\ \A o \in Obj : Work("objprot", o, 1) \in Item /\ Work("object", o, 1) \in Item
  /\ Work("rootprot", Root, 1) \in Item
<1>1. 1 \in Slot
  BY SlotFacts
<1> QED
  BY <1>1 DEF Item, Work

\* A part that is popped is traced, and the part after it pushed.
LEMMA MarkTailExtends ==
  ASSUME HeapOK, NEW g, MarkerOK(g, Item),
         NEW o \in Obj, NEW k \in Slot, NEW more \in BOOLEAN
  PROVE  /\ Extends(g, MarkTail(g, o, k, more), Item)
         /\ Covered(MarkTail(g, o, k, more), o, k)
<1> DEFINE next == IF k < Parts(o) THEN Work("tail", o, k + 1) ELSE Dead
           s == PushItem(g, next, more)
           h == Trace(s, mem[o][k], more)
<1>0. o \in Memory
  BY DEF Memory
<1>1. h = MarkTail(g, o, k, more)
  BY DEF MarkTail
<1>2. next \in Item
  BY <1>0, SlotFacts, HeapFacts, ItemFacts
<1> HIDE DEF next
<1>3. Extends(g, s, Item) /\ (s.overflow \/ next \in Items(s.work))
  BY <1>2, PushItemExtends
<1>4. MarkerOK(s, Item)
  BY <1>3 DEF Extends
<1> HIDE DEF s
<1>5. Extends(s, h, Item) /\ (h.overflow \/ SafeIn(h, mem[o][k]))
  BY <1>0, <1>4, HeapFacts, TraceExtends
<1> HIDE DEF h
<1>6. Extends(g, h, Item)
  BY <1>3, <1>5, ExtendsTransitive
<1>7. ASSUME NEW j \in Slot, k <= j, ~ h.overflow
      PROVE  SafeIn(h, mem[o][j]) \/ AheadIn(h, o, j)
  <2>1. j \in Nat /\ k \in Nat /\ Parts(o) \in Nat
    BY <1>0, SlotFacts, HeapFacts
  <2>2. CASE j = k
    BY <2>2, <1>5, <1>7
  <2>3. CASE j # k /\ k < Parts(o)
    <3>1. ~ s.overflow
      BY <1>5, <1>7 DEF Extends
    <3>2. next \in Items(h.work)
      BY <3>1, <1>3, <1>4, <1>5, ExtendsKeeps
    <3>3. k + 1 <= j
      BY <2>1, <2>3, <1>7
    <3> QED
      BY <3>2, <3>3, <2>3 DEF AheadIn, Work, Scan, next
  <2>4. CASE j # k /\ ~(k < Parts(o))
    <3>1. Parts(o) < j
      BY <2>1, <2>4, <1>7
    <3> QED
      BY <3>1, <1>0, HeapFacts DEF SafeIn
  <2> QED
    BY <2>2, <2>3, <2>4
<1> QED
  BY <1>1, <1>6, <1>7 DEF Covered

LEMMA SetMarkOK ==
  ASSUME NEW S, NEW g, MarkerOK(g, S), NEW o \in Obj
  PROVE  LET h == SetMark(g, o)
         IN /\ MarkerOK(h, S)
            /\ h.mark = g.mark \cup {o} /\ h.queued = g.queued \ {o}
            /\ h.work = g.work /\ h.overflow = g.overflow /\ h.sentinel = g.sentinel
BY DEF SetMark, MarkerOK, MarkerOver

LEMMA ProtectExtends ==
  ASSUME NEW g, MarkerOK(g, Item), NEW o \in Obj, NEW more \in BOOLEAN
  PROVE  Extends(g, Protect(g, o, more), Item)
<1> DEFINE s == [g EXCEPT !.prot = g.prot \cup {o}]
<1>1. Protect(g, o, more) = PushItem(s, Work("objprot", o, 1), more)
  BY DEF Protect
<1>2. /\ MarkerOK(s, Item) /\ s.mark = g.mark /\ s.queued = g.queued
      /\ s.work = g.work /\ s.overflow = g.overflow /\ s.sentinel = g.sentinel
  BY DEF MarkerOK, MarkerOver
<1> HIDE DEF s
<1>3. Extends(s, PushItem(s, Work("objprot", o, 1), more), Item)
  BY <1>2, ItemFacts, PushItemExtends
<1> QED
  BY <1>1, <1>2, <1>3 DEF Extends

\* An object that becomes black leaves nothing behind.
LEMMA MarkObjectExtends ==
  ASSUME HeapOK, NEW g, MarkerOK(g, Item), NEW o \in Obj, NEW more \in BOOLEAN
  PROVE  /\ Extends(SetMark(g, o), MarkObject(g, o, more), Item)
         /\ Covered(MarkObject(g, o, more), o, 1)
<1> DEFINE s == SetMark(g, o)
           h == MarkObject(g, o, more)
<1>0. MarkerOK(s, Item) /\ o \in Memory /\ 1 \in Slot
  BY SetMarkOK, SlotFacts DEF Memory
<1>1. /\ Parts(o) \in {0} \cup Slot /\ Parts(o) \in Nat
      /\ \A k \in Slot : /\ mem[o][k] \in Obj \cup {Null}
                         /\ k \in Nat /\ k > 0
                         /\ Parts(o) < k => mem[o][k] = Null
  BY <1>0, HeapFacts, SlotFacts
<1>2. CASE Parts(o) <= 1
  <2>1. h = Trace(s, mem[o][1], more)
    BY <1>2 DEF MarkObject
  <2> HIDE DEF s, h
  <2>2. Extends(s, h, Item) /\ (h.overflow \/ SafeIn(h, mem[o][1]))
    BY <2>1, <1>0, <1>1, TraceExtends
  <2>3. ASSUME NEW j \in Slot PROVE h.overflow \/ SafeIn(h, mem[o][j])
    <3>1. j = 1 \/ Parts(o) < j
      BY <1>1, <1>2
    <3> QED
      BY <3>1, <2>2, <1>1 DEF SafeIn
  <2> QED
    BY <2>2, <2>3 DEF Covered, s, h
<1>3. CASE ~(Parts(o) <= 1) /\ o \in shape.exact
  <2> DEFINE t == Trace(s, mem[o][1], more)
             p == Protect(t, o, more)
  <2>1. h = PushItem(p, Work("tail", o, 2), more)
    BY <1>3 DEF MarkObject
  <2> HIDE DEF s, h
  <2>2. Extends(s, t, Item) /\ (t.overflow \/ SafeIn(t, mem[o][1]))
    BY <1>0, <1>1, TraceExtends
  <2> HIDE DEF t
  <2>3. MarkerOK(t, Item)
    BY <2>2 DEF Extends
  <2>4. Extends(t, p, Item)
    BY <2>3, ProtectExtends
  <2>5. MarkerOK(p, Item)
    BY <2>4 DEF Extends
  <2>6. Work("tail", o, 2) \in Item
    <3>1. 1 < Parts(o)
      BY <1>1, <1>3
    <3>2. 1 + 1 \in Slot
      BY <3>1, <1>0, <1>1, SlotFacts
    <3> QED
      BY <3>2, ItemFacts
  <2> HIDE DEF p
  <2>7. Extends(p, h, Item) /\ (h.overflow \/ Work("tail", o, 2) \in Items(h.work))
    BY <2>1, <2>5, <2>6, PushItemExtends
  <2>8. Extends(t, h, Item)
    BY <2>3, <2>4, <2>7, ExtendsTransitive
  <2>9. Extends(s, h, Item)
    BY <1>0, <2>2, <2>8, ExtendsTransitive
  <2>10. h.overflow \/ SafeIn(h, mem[o][1])
    <3>1. t.overflow => h.overflow
      BY <2>8 DEF Extends
    <3> QED
      BY <3>1, <2>2, <2>3, <2>8, ExtendsKeeps
  <2>11. ASSUME NEW j \in Slot, ~ h.overflow PROVE SafeIn(h, mem[o][j]) \/ AheadIn(h, o, j)
    <3>1. j = 1 \/ 2 <= j
      BY <1>1
    <3> QED
      BY <3>1, <2>7, <2>10, <2>11 DEF AheadIn, Work, Scan
  <2> QED
    BY <2>9, <2>11 DEF Covered, s, h
<1>4. CASE ~(Parts(o) <= 1) /\ o \notin shape.exact
  <2> DEFINE p == Protect(s, o, more)
  <2>1. h = MarkParts(p, "chunk", o, 1, more)
    BY <1>4 DEF MarkObject
  <2> HIDE DEF s, h
  <2>2. Extends(s, p, Item)
    BY <1>0, ProtectExtends
  <2>3. MarkerOK(p, Item)
    BY <2>2 DEF Extends
  <2> HIDE DEF p
  <2>4. Extends(p, h, Item) /\ Covered(h, o, 1)
    <3>1. "chunk" \in Scan /\ \A j \in Slot : Work("chunk", o, j) \in Item
      BY ItemFacts DEF Scan
    <3> QED
      BY <3>1, <2>1, <2>3, <1>0, MarkPartsExtends
  <2> QED
    BY <2>2, <2>4, <1>0, ExtendsTransitive DEF s, h
<1> QED
  BY <1>2, <1>3, <1>4

-----------------------------------------------------------------------------
(* Progress(g, h): the marker goes from g to h and loses nothing.  What it  *)
(* takes off the stack is kept in another form, and the roots are an        *)
(* exception that RootKept makes good where they are not scanned again.     *)

SentinelIn(g) ==
  g.sentinel # 0 => /\ g.sentinel <= Count(g.work)
                    /\ g.work.items[g.sentinel] = Work("rootprot", Root, 1)

Kept(h, b, k) == h.overflow \/ SafeIn(h, mem[b][k]) \/ AheadIn(h, b, k)

HasItem(g, o) == Work("object", o, 1) \in Items(g.work)

Progress(g, h) ==
  /\ MarkerOK(h, Item) /\ SentinelIn(h)
  /\ g.mark \subseteq h.mark
  /\ g.queued \subseteq h.mark \cup h.queued
  /\ g.overflow => h.overflow
  /\ \A b \in Memory \ {Root}, k \in Slot : AheadIn(g, b, k) => Kept(h, b, k)
  /\ \A b \in h.mark \ g.mark, k \in Slot : Kept(h, b, k)
  /\ \A o \in h.queued : o \in g.queued \/ HasItem(h, o)
  /\ \A o \in h.queued : HasItem(g, o) => HasItem(h, o)

RootKept(g, h) == \A k \in Slot : AheadIn(g, Root, k) => Kept(h, Root, k)

\* After the top item x has been popped, leaving g, a marker that extends g
\* and covers x has lost nothing.
LEMMA PopProgress ==
  ASSUME HeapOK, MarkerOK(m, Item), SentinelIn(m), m.work.items # <<>>, NEW h
  PROVE  LET x == TopItem(m.work)
             g == [m EXCEPT !.work = Pop(m.work)]
         IN /\ x \in Item /\ MarkerOK(g, Item)
            /\ x.t # "rootprot" => SentinelIn(g)
            /\ /\ x.t \notin {"object", "rootprot"}
               /\ Extends(g, h, Item)
               /\ x.t \in Scan => Covered(h, x.b, x.k)
               => Progress(m, h) /\ RootKept(m, h)
            /\ /\ x.t = "object"
               /\ Extends(SetMark(g, x.b), h, Item)
               /\ Covered(h, x.b, 1)
               => Progress(m, h) /\ RootKept(m, h)
            /\ g.mark = m.mark /\ g.queued = m.queued /\ g.overflow = m.overflow
            /\ g.sentinel = m.sentinel
            /\ Items(m.work) \subseteq Items(g.work) \cup {x}
<1> DEFINE x == TopItem(m.work)
           p == Pop(m.work)
           g == [m EXCEPT !.work = p]
           n == Len(m.work.items)
<1>1. /\ m.work \in StackOver(Item) /\ WellFormed(m.work, SegSize)
      /\ m.work.items \in Seq(Item) /\ n \in Nat /\ SegSize \in Nat \ {0}
      /\ m.sentinel \in Nat
  BY MarkerFields
<1>2. n > 0
  BY <1>1
<1>3. /\ p \in StackOver(Item) /\ WellFormed(p, SegSize)
      /\ Len(p.items) = n - 1
      /\ \A i \in 1..Len(p.items) : p.items[i] = m.work.items[i]
  BY <1>1, <1>2, PopStack
<1>4. x = m.work.items[n]
  BY DEF TopItem
<1> HIDE DEF p
<1>5. /\ MarkerOK(g, Item) /\ g.work = p
      /\ g.mark = m.mark /\ g.queued = m.queued /\ g.overflow = m.overflow
      /\ g.sentinel = m.sentinel
  BY <1>3 DEF MarkerOK, MarkerOver
<1>6. x \in Item
  BY <1>1, <1>2, <1>4
<1> HIDE DEF x, g
<1>7. Items(m.work) \subseteq Items(p) \cup {x}
  <2>1. ASSUME NEW i \in 1..n PROVE m.work.items[i] \in Items(p) \cup {x}
    <3>1. i = n \/ i \in 1..Len(p.items)
      BY <1>1, <1>2, <1>3
    <3> QED
      BY <3>1, <1>3, <1>4 DEF Items
  <2> QED
    BY <2>1 DEF Items
<1>8. x.t # "rootprot" => SentinelIn(g)
  <2>1. ASSUME x.t # "rootprot", m.sentinel # 0
        PROVE  m.sentinel \in 1..Len(p.items)
    <3>1. m.sentinel # n
      BY <2>1, <1>4 DEF SentinelIn, Work
    <3>2. m.sentinel <= n
      BY <2>1 DEF SentinelIn, Count
    <3> QED
      BY <3>1, <3>2, <2>1, <1>1, <1>2, <1>3
  <2>2. ASSUME x.t # "rootprot", m.sentinel # 0
        PROVE  m.sentinel <= Len(p.items)
               /\ p.items[m.sentinel] = Work("rootprot", Root, 1)
    <3>1. m.sentinel \in 1..Len(p.items)
      BY <2>1, <2>2
    <3>2. p.items[m.sentinel] = m.work.items[m.sentinel]
      BY <3>1, <1>3
    <3>3. m.sentinel <= Len(p.items)
      BY <3>1, <1>1, <1>3
    <3> QED
      BY <3>2, <3>3, <2>2 DEF SentinelIn
  <2> QED
    BY <2>2, <1>5 DEF SentinelIn, Count
<1>9. ASSUME x.t \notin {"object", "rootprot"}, Extends(g, h, Item),
             x.t \in Scan => Covered(h, x.b, x.k)
      PROVE  Progress(m, h) /\ RootKept(m, h)
  <2>1. MarkerOK(h, Item) /\ Items(p) \subseteq Items(h.work)
    BY <1>5, <1>9, ExtendsKeeps DEF Extends
  <2>2. SentinelIn(h)
    <3>1. SentinelIn(g) /\ MarkerOK(g, Item)
      BY <1>5, <1>8, <1>9
    <3>2. Len(g.work.items) \in Nat /\ Len(h.work.items) \in Nat /\ g.sentinel \in Nat
      BY <2>1, <3>1, MarkerFields
    <3> QED
      BY <3>1, <3>2, <1>9 DEF SentinelIn, Extends, Count
  <2>3. ASSUME NEW b, NEW k \in Slot, AheadIn(m, b, k) PROVE Kept(h, b, k)
    <3>1. PICK y \in Items(m.work) : y.t \in Scan /\ y.b = b /\ y.k <= k
      BY <2>3 DEF AheadIn
    <3>2. CASE y = x
      BY <3>1, <3>2, <1>9 DEF Covered, Kept
    <3>3. CASE y # x
      BY <3>1, <3>3, <1>7, <2>1 DEF Kept, AheadIn
    <3> QED
      BY <3>2, <3>3
  <2>4. ASSUME NEW b \in h.mark \ m.mark, NEW k \in Slot PROVE Kept(h, b, k)
    <3>1. Parts(b) = 0 /\ b \in Memory
      BY <1>5, <1>9, <2>1, MarkerFields DEF Extends, Memory
    <3> QED
      BY <3>1, HeapFacts, SlotFacts DEF Kept, SafeIn
  <2>5. \A o : HasItem(m, o) => HasItem(h, o)
    BY <1>7, <1>9, <2>1 DEF HasItem, Work
  <2>6. \A o \in h.queued : o \in m.queued \/ HasItem(h, o)
    BY <1>5, <1>9 DEF Extends, HasItem
  <2> QED
    BY <1>5, <1>9, <2>1, <2>2, <2>3, <2>4, <2>5, <2>6 DEF Progress, RootKept, Extends
<1>10. ASSUME x.t = "object", Extends(SetMark(g, x.b), h, Item), Covered(h, x.b, 1)
       PROVE  Progress(m, h) /\ RootKept(m, h)
  <2> DEFINE o == x.b
             s == SetMark(g, o)
  <2>0. o \in Obj
    BY <1>6, <1>10, MarkAssumption DEF Item, Dead
  <2>1. /\ MarkerOK(s, Item) /\ s.work = p
        /\ s.mark = m.mark \cup {o} /\ s.queued = m.queued \ {o}
        /\ s.overflow = m.overflow /\ s.sentinel = m.sentinel
    BY <2>0, <1>5, SetMarkOK
  <2> HIDE DEF o, s
  <2>2. Extends(s, h, Item) /\ Covered(h, o, 1)
    BY <1>10 DEF o, s
  <2>3. MarkerOK(h, Item) /\ Items(p) \subseteq Items(h.work)
    BY <2>1, <2>2, ExtendsKeeps DEF Extends
  <2>4. SentinelIn(h)
    <3>1. SentinelIn(g) /\ MarkerOK(g, Item)
      BY <1>5, <1>8, <1>10
    <3>2. Len(s.work.items) \in Nat /\ Len(h.work.items) \in Nat /\ s.sentinel \in Nat
      BY <2>1, <2>3, MarkerFields
    <3>3. SentinelIn(s)
      BY <3>1, <2>1, <1>5 DEF SentinelIn
    <3> QED
      BY <3>2, <3>3, <2>2 DEF SentinelIn, Extends, Count
  <2>5. ASSUME NEW b, NEW k \in Slot, AheadIn(m, b, k) PROVE Kept(h, b, k)
    <3>1. PICK y \in Items(m.work) : y.t \in Scan /\ y.b = b /\ y.k <= k
      BY <2>5 DEF AheadIn
    <3>2. y # x
      BY <3>1, <1>10 DEF Scan
    <3> QED
      BY <3>1, <3>2, <1>7, <2>3 DEF Kept, AheadIn
  <2>6. ASSUME NEW b \in h.mark \ m.mark, NEW k \in Slot PROVE Kept(h, b, k)
    <3>1. b = o \/ Parts(b) = 0
      BY <2>1, <2>2 DEF Extends
    <3>2. b \in Memory
      BY <2>3, MarkerFields DEF Memory
    <3>3. CASE b = o
      BY <3>3, <2>2, SlotFacts DEF Covered, Kept
    <3>4. CASE Parts(b) = 0
      BY <3>2, <3>4, HeapFacts, SlotFacts DEF Kept, SafeIn
    <3> QED
      BY <3>1, <3>3, <3>4
  <2>7. ASSUME NEW q \in h.queued PROVE q \in m.queued \/ HasItem(h, q)
    BY <2>1, <2>2 DEF Extends, HasItem
  <2>8. ASSUME NEW q \in h.queued, HasItem(m, q) PROVE HasItem(h, q)
    <3>1. CASE q = o
      BY <3>1, <2>1, <2>2 DEF Extends, HasItem
    <3>2. CASE q # o
      <4>1. Work("object", q, 1) # x
        BY <3>2 DEF Work, o
      <4> QED
        BY <4>1, <2>8, <1>7, <2>3 DEF HasItem
    <3> QED
      BY <3>1, <3>2
  <2>9. m.mark \subseteq h.mark /\ m.queued \subseteq h.mark \cup h.queued
        /\ (m.overflow => h.overflow)
    BY <2>1, <2>2 DEF Extends
  <2> QED
    BY <2>3, <2>4, <2>5, <2>6, <2>7, <2>8, <2>9 DEF Progress, RootKept
<1> QED
  BY <1>5, <1>6, <1>7, <1>8, <1>9, <1>10 DEF x, g, p

LEMMA MarkTopProgress ==
  ASSUME HeapOK, MarkerOK(m, Item), SentinelIn(m), m.work.items # <<>>,
         NEW more \in BOOLEAN
  PROVE  Progress(m, MarkTop(more)) /\ RootKept(m, MarkTop(more))
<1> DEFINE x == TopItem(m.work)
           g == [m EXCEPT !.work = Pop(m.work)]
           h == MarkTop(more)
<1> SUFFICES Progress(m, h) /\ RootKept(m, h)
  OBVIOUS
<1>1. x \in Item /\ MarkerOK(g, Item) /\ (x.t # "rootprot" => SentinelIn(g))
      /\ g.mark = m.mark /\ g.queued = m.queued /\ g.overflow = m.overflow
      /\ g.sentinel = m.sentinel
      /\ Items(m.work) \subseteq Items(g.work) \cup {x}
  BY PopProgress
<1>2. /\ x.t \notin {"object", "rootprot"}
      /\ Extends(g, h, Item)
      /\ x.t \in Scan => Covered(h, x.b, x.k)
      => Progress(m, h) /\ RootKept(m, h)
  <2> HIDE DEF h
  <2> QED
    BY PopProgress
<1>3. /\ x.t = "object"
      /\ Extends(SetMark(g, x.b), h, Item)
      /\ Covered(h, x.b, 1)
      => Progress(m, h) /\ RootKept(m, h)
  <2> HIDE DEF h
  <2> QED
    BY PopProgress
<1>4. h = CASE x.t = "object" -> MarkObject(g, x.b, more)
            [] x.t = "tail" -> MarkTail(g, x.b, x.k, more)
            [] x.t \in {"chunk", "rootchunk", "stack"} -> MarkParts(g, x.t, x.b, x.k, more)
            [] x.t = "rootprot" -> [g EXCEPT !.sentinel = 0]
            [] x.t = "objprot" -> [g EXCEPT !.prot = @ \ {x.b}]
            [] x.t = "dead" -> g
  BY DEF MarkTop
<1> HIDE DEF x, g, h
<1>5. CASE x.t = "object"
  <2>1. x.b \in Obj /\ h = MarkObject(g, x.b, more)
    BY <1>1, <1>4, <1>5, MarkAssumption DEF Item, Dead
  <2> QED
    BY <2>1, <1>1, <1>3, <1>5, MarkObjectExtends
<1>6. CASE x.t = "tail"
  <2>1. x.b \in Obj /\ x.k \in Slot /\ h = MarkTail(g, x.b, x.k, more)
    BY <1>1, <1>4, <1>6, MarkAssumption DEF Item, Dead
  <2> QED
    BY <2>1, <1>1, <1>2, <1>6, MarkTailExtends
<1>7. CASE x.t \in {"chunk", "rootchunk", "stack"}
  <2>1. x.k \in Slot /\ x.b \in Memory /\ x.t \in Scan
        /\ h = MarkParts(g, x.t, x.b, x.k, more)
    BY <1>1, <1>4, <1>7, MarkAssumption DEF Item, Dead, Memory, Scan
  <2>2. \A j \in Slot : Work(x.t, x.b, j) \in Item
    BY <1>1, <1>7, MarkAssumption DEF Item, Dead, Work
  <2>3. Extends(g, h, Item) /\ Covered(h, x.b, x.k)
    BY <2>1, <2>2, <1>1, MarkPartsExtends
  <2> QED
    BY <2>3, <1>2, <1>7
<1>8. CASE x.t = "rootprot"
  <2>1. h = [g EXCEPT !.sentinel = 0]
    BY <1>4, <1>8
  <2>2. /\ MarkerOK(h, Item) /\ h.sentinel = 0 /\ h.work = g.work
        /\ h.mark = m.mark /\ h.queued = m.queued /\ h.overflow = m.overflow
    BY <2>1, <1>1 DEF MarkerOK, MarkerOver
  <2>3. x.t \notin Scan /\ x.t # "object"
    BY <1>8 DEF Scan
  <2>4. \A b, k : AheadIn(m, b, k) => AheadIn(h, b, k)
    BY <2>2, <2>3, <1>1 DEF AheadIn
  <2>5. \A o : HasItem(m, o) => HasItem(h, o)
    BY <2>2, <2>3, <1>1 DEF HasItem, Work
  <2> QED
    BY <2>2, <2>4, <2>5 DEF Progress, RootKept, SentinelIn, Kept
<1>9. CASE x.t = "objprot"
  <2>1. h = [g EXCEPT !.prot = @ \ {x.b}]
    BY <1>4, <1>9
  <2>2. /\ MarkerOK(h, Item) /\ h.sentinel = g.sentinel /\ h.work = g.work
        /\ h.mark = g.mark /\ h.queued = g.queued /\ h.overflow = g.overflow
    BY <2>1, <1>1 DEF MarkerOK, MarkerOver
  <2>3. Extends(g, h, Item)
    BY <2>2, <1>1, MarkerFields DEF Extends
  <2> QED
    BY <2>3, <1>2, <1>9 DEF Scan
<1>10. CASE x.t = "dead"
  <2>1. h = g
    BY <1>4, <1>10
  <2> QED
    BY <2>1, <1>1, <1>2, <1>10, ExtendsReflexive DEF Scan
<1>11. x.t \in {"object", "tail", "chunk", "rootchunk", "stack", "rootprot", "objprot", "dead"}
  BY <1>1 DEF Item, Dead
<1> QED
  BY <1>5, <1>6, <1>7, <1>8, <1>9, <1>10, <1>11

LEMMA ExtendsProgress ==
  ASSUME HeapOK, NEW g, NEW h, MarkerOK(g, Item), SentinelIn(g), Extends(g, h, Item)
  PROVE  Progress(g, h) /\ RootKept(g, h)
<1>1. MarkerOK(h, Item)
  BY DEF Extends
<1>2. SentinelIn(h)
  <2>1. Len(g.work.items) \in Nat /\ Len(h.work.items) \in Nat /\ g.sentinel \in Nat
    BY <1>1, MarkerFields
  <2> QED
    BY <2>1 DEF SentinelIn, Extends, Count
<1>3. \A b, k : AheadIn(g, b, k) => AheadIn(h, b, k)
  BY ExtendsKeeps
<1>4. ASSUME NEW b \in h.mark \ g.mark, NEW k \in Slot PROVE Kept(h, b, k)
  <2>1. Parts(b) = 0 /\ b \in Memory
    BY <1>1, MarkerFields DEF Extends, Memory
  <2> QED
    BY <2>1, HeapFacts, SlotFacts DEF Kept, SafeIn
<1>5. \A o : HasItem(g, o) => HasItem(h, o)
  BY ExtendsKeeps DEF HasItem
<1> QED
  BY <1>1, <1>2, <1>3, <1>4, <1>5 DEF Progress, RootKept, Extends, Kept, HasItem

LEMMA ProgressTransitive ==
  ASSUME NEW f, NEW g, NEW h, Progress(f, g), Progress(g, h)
  PROVE  Progress(f, h)
<1>1. \A b \in Memory \ {Root}, k \in Slot : Kept(g, b, k) => Kept(h, b, k)
  BY DEF Progress, Kept, SafeIn
<1>2. ASSUME NEW b \in h.mark \ f.mark, NEW k \in Slot PROVE Kept(h, b, k)
  <2>1. CASE b \in g.mark
    <3>1. b \in Memory \ {Root}
      BY <2>1, MarkAssumption, MarkerFields DEF Progress, Memory
    <3> QED
      BY <2>1, <3>1, <1>1, <1>2 DEF Progress
  <2>2. CASE b \notin g.mark
    BY <2>2, <1>2 DEF Progress
  <2> QED
    BY <2>1, <2>2
<1>3. ASSUME NEW o \in h.queued PROVE o \in f.queued \/ HasItem(h, o)
  BY DEF Progress
<1>4. ASSUME NEW o \in h.queued, HasItem(f, o) PROVE HasItem(h, o)
  BY <1>4 DEF Progress
<1> QED
  BY <1>1, <1>2, <1>3, <1>4 DEF Progress

-----------------------------------------------------------------------------
(* The roots, the program stack and the barrier's work.                     *)

ClearsTo(s, p, i, dying, S, limit) ==
  /\ p \in StackOver(S) /\ WellFormed(p, limit)
  /\ Len(p.items) = Len(s.items)
  /\ \A j \in 1..Len(s.items) : p.items[j] = s.items[j] \/ j = i \/ s.items[j] \in dying

LEMMA ClearTwice ==
  ASSUME NEW S, NEW s \in StackOver(S), NEW c \in Nat, Dead \in S,
         NEW limit \in Nat \ {0}, WellFormed(s, limit), NEW dying
  PROVE  ClearsTo(s, ClearWithItemAbove(s, c, dying), c, dying, S, limit)
<1> DEFINE first(j) == j > c /\ s.items[j] \in dying
                       /\ \A l \in (c + 1)..(j - 1) : s.items[l] \notin dying
           at(j) == IF j = c \/ first(j) THEN Dead ELSE s.items[j]
           n == Len(s.items)
           it == [j \in 1..n |-> at(j)]
           p == ClearWithItemAbove(s, c, dying)
<1>1. s.items \in Seq(S) /\ s.base \in Seq(Nat) /\ s.extra \in BOOLEAN /\ n \in Nat
  BY DEF StackOver
<1>2. p = [s EXCEPT !.items = it]
  BY DEF ClearWithItemAbove
<1>3. ASSUME NEW j \in 1..n
      PROVE  at(j) \in S /\ (at(j) = s.items[j] \/ j = c \/ s.items[j] \in dying)
  <2>1. s.items[j] \in S
    BY <1>1
  <2>2. first(j) => s.items[j] \in dying
    OBVIOUS
  <2> HIDE DEF first
  <2> QED
    BY <2>1, <2>2
<1> HIDE DEF at, p, n
<1>4. it \in Seq(S) /\ Len(it) = n /\ \A j \in 1..n : it[j] = at(j)
  <2>1. it \in [1..n -> S] /\ \A j \in 1..n : it[j] = at(j)
    BY <1>3
  <2>2. it \in Seq(S)
    BY <2>1, <1>1
  <2>3. DOMAIN it = 1..n
    OBVIOUS
  <2> HIDE DEF it
  <2> QED
    BY <2>1, <2>2, <2>3, <1>1
<1> HIDE DEF it
<1>5. /\ p.items = it /\ p.base = s.base /\ p.extra = s.extra
      /\ p \in StackOver(S)
  BY <1>2, <1>4 DEF StackOver
<1>6. WellFormed(p, limit)
  BY <1>4, <1>5 DEF WellFormed, TopCount, Count, n
<1> QED
  BY <1>3, <1>4, <1>5, <1>6 DEF p, n, ClearsTo

\* The protector of a root and the part of the root above it are no work for
\* anyone else.
RootWork == {Work("rootchunk", Root, k) : k \in Slot} \cup {Work("rootprot", Root, 1)}

SetsSentinel(g, h, i) ==
  /\ MarkerOK(h, Item)
  /\ h.mark = g.mark /\ h.queued = g.queued /\ h.overflow = g.overflow
  /\ h.sentinel = i
  /\ Len(h.work.items) = Len(g.work.items)
  /\ \A j \in 1..Len(g.work.items) :
       h.work.items[j] = g.work.items[j]
       \/ j = g.sentinel \/ g.work.items[j] \in {Work("rootchunk", Root, k) : k \in Slot}

LEMMA SetSentinelEffect ==
  ASSUME NEW g, MarkerOK(g, Item), NEW i \in Nat
  PROVE  SetsSentinel(g, SetSentinel(g, i), i)
<1> DEFINE chunks == {Work("rootchunk", Root, k) : k \in Slot}
           old == IF g.sentinel = 0 THEN g.work
                  ELSE ClearWithItemAbove(g.work, g.sentinel, chunks)
           h == SetSentinel(g, i)
<1>1. g.work \in StackOver(Item) /\ WellFormed(g.work, SegSize) /\ SegSize \in Nat \ {0}
  BY MarkerFields
<1>2. h = [g EXCEPT !.work = old, !.sentinel = i]
  BY DEF SetSentinel
<1> HIDE DEF chunks
<1>3. /\ old \in StackOver(Item) /\ WellFormed(old, SegSize)
      /\ Len(old.items) = Len(g.work.items)
      /\ \A j \in 1..Len(g.work.items) :
           old.items[j] = g.work.items[j] \/ j = g.sentinel \/ g.work.items[j] \in chunks
  <2>1. CASE g.sentinel = 0
    BY <1>1, <2>1
  <2>2. CASE g.sentinel # 0
    <3>1. chunks \in SUBSET Item /\ g.sentinel \in Nat /\ Dead \in Item
      BY ItemFacts, MarkerFields DEF chunks
    <3>2. ClearsTo(g.work, ClearWithItemAbove(g.work, g.sentinel, chunks), g.sentinel,
                   chunks, Item, SegSize)
      BY <1>1, <3>1, ClearTwice, Zenon
    <3> QED
      BY <2>2, <3>2 DEF ClearsTo
  <2> QED
    BY <2>1, <2>2
<1> HIDE DEF old, h
<1>4. /\ h.work = old /\ h.mark = g.mark /\ h.queued = g.queued
      /\ h.overflow = g.overflow /\ h.sentinel = i /\ h \in MarkerOver(Item)
  BY <1>2, <1>3 DEF MarkerOK, MarkerOver
<1> QED
  BY <1>3, <1>4 DEF SetsSentinel, MarkerOK, h, chunks

LEMMA SetSentinelProgress ==
  ASSUME HeapOK, NEW g, MarkerOK(g, Item), SentinelIn(g), NEW i \in Nat,
         i # 0 => /\ i \in 1..Len(g.work.items) /\ i # g.sentinel
                  /\ g.work.items[i] = Work("rootprot", Root, 1)
  PROVE  /\ Progress(g, SetSentinel(g, i))
         /\ SetSentinel(g, i).mark = g.mark
<1> DEFINE h == SetSentinel(g, i)
<1>1. SetsSentinel(g, h, i)
  BY SetSentinelEffect
<1> HIDE DEF h
<1>2. /\ MarkerOK(h, Item) /\ h.mark = g.mark /\ h.queued = g.queued
      /\ h.overflow = g.overflow /\ h.sentinel = i
      /\ Len(h.work.items) = Len(g.work.items) /\ Len(g.work.items) \in Nat
  BY <1>1, MarkerFields DEF SetsSentinel
<1>3. ASSUME NEW j \in 1..Len(g.work.items)
      PROVE  h.work.items[j] = g.work.items[j] \/ g.work.items[j] \in RootWork
  <2>1. CASE j = g.sentinel
    <3>1. j # 0
      BY <1>2
    <3> QED
      BY <2>1, <3>1 DEF SentinelIn, RootWork
  <2>2. CASE j # g.sentinel
    BY <2>2, <1>1 DEF SetsSentinel, RootWork
  <2> QED
    BY <2>1, <2>2
<1>4. ASSUME NEW x \in Items(g.work), x \notin RootWork PROVE x \in Items(h.work)
  BY <1>2, <1>3, <1>4 DEF Items
<1>5. ASSUME i # 0 PROVE h.work.items[i] = Work("rootprot", Root, 1)
  <2>1. g.work.items[i] \notin {Work("rootchunk", Root, k) : k \in Slot}
    BY <1>5 DEF Work
  <2> QED
    BY <1>1, <1>5, <2>1 DEF SetsSentinel
<1>6. SentinelIn(h)
  BY <1>2, <1>5 DEF SentinelIn, Count
<1>7. ASSUME NEW b \in Memory \ {Root}, NEW k \in Slot, AheadIn(g, b, k)
      PROVE  AheadIn(h, b, k)
  <2>1. PICK x \in Items(g.work) : x.t \in Scan /\ x.b = b /\ x.k <= k
    BY <1>7 DEF AheadIn
  <2>2. x \notin RootWork
    BY <2>1 DEF RootWork, Work
  <2> QED
    BY <2>1, <2>2, <1>4 DEF AheadIn
<1>8. ASSUME NEW o, HasItem(g, o) PROVE HasItem(h, o)
  <2>1. Work("object", o, 1) \notin RootWork
    BY DEF RootWork, Work
  <2> QED
    BY <2>1, <1>4, <1>8 DEF HasItem
<1> QED
  BY <1>2, <1>6, <1>7, <1>8 DEF Progress, Kept, h

LEMMA ProtectRootProgress ==
  ASSUME HeapOK, NEW g, MarkerOK(g, Item), SentinelIn(g), NEW more \in BOOLEAN
  PROVE  Progress(g, ProtectRoot(g, more))
<1> DEFINE pushed == PushItem(g, Work("rootprot", Root, 1), more)
           h == ProtectRoot(g, more)
<1>1. h = IF CanPush(g.work, SegSize, more) THEN SetSentinel(pushed, Count(pushed.work))
          ELSE pushed
  BY DEF ProtectRoot
<1>2. /\ Extends(g, pushed, Item)
      /\ CanPush(g.work, SegSize, more) =>
           /\ Len(pushed.work.items) = Len(g.work.items) + 1
           /\ pushed.work.items[Len(pushed.work.items)] = Work("rootprot", Root, 1)
  BY ItemFacts, PushItemExtends
<1> HIDE DEF pushed, h
<1>3. MarkerOK(pushed, Item) /\ Progress(g, pushed) /\ SentinelIn(pushed)
  BY <1>2, ExtendsProgress DEF Extends, Progress
<1>4. CASE CanPush(g.work, SegSize, more)
  <2> DEFINE i == Len(pushed.work.items)
  <2>1. i \in 1..Len(pushed.work.items) /\ i \in Nat /\ i # pushed.sentinel
    <3>1. Len(g.work.items) \in Nat /\ Len(pushed.work.items) = Len(g.work.items) + 1
      BY <1>2, <1>4, MarkerFields
    <3>2. pushed.sentinel = g.sentinel /\ (g.sentinel # 0 => g.sentinel <= Len(g.work.items))
      BY <1>2 DEF Extends, SentinelIn, Count
    <3>3. g.sentinel \in Nat
      BY MarkerFields
    <3> QED
      BY <3>1, <3>2, <3>3
  <2>2. pushed.work.items[i] = Work("rootprot", Root, 1)
    BY <1>2, <1>4
  <2>3. h = SetSentinel(pushed, i)
    BY <1>1, <1>4 DEF Count
  <2> HIDE DEF i
  <2>4. Progress(pushed, h)
    BY <1>3, <2>1, <2>2, <2>3, SetSentinelProgress
  <2> QED
    BY <1>3, <2>4, ProgressTransitive DEF h
<1>5. CASE ~CanPush(g.work, SegSize, more)
  BY <1>1, <1>3, <1>5 DEF h
<1> QED
  BY <1>4, <1>5

LEMMA MarkRootsProgress ==
  ASSUME HeapOK, NEW g, MarkerOK(g, Item), SentinelIn(g), NEW more \in BOOLEAN
  PROVE  /\ Progress(g, MarkRoots(g, more))
         /\ \A k \in Slot : Kept(MarkRoots(g, more), Root, k)
<1> DEFINE s == IF Parts(Root) > 1 THEN ProtectRoot(g, more) ELSE g
           h == MarkRoots(g, more)
<1>1. Progress(g, g)
  BY ExtendsReflexive, ExtendsProgress
<1>2. Root \in Memory
  BY DEF Memory
<1>3. CASE Root \notin live
  <2>1. h = g
    BY <1>3 DEF MarkRoots
  <2>2. \A k \in Slot : mem[Root][k] = Null
    BY <1>2, <1>3, MarkAssumption DEF HeapOK, MemorySound, Held
  <2> QED
    BY <1>1, <2>1, <2>2 DEF Kept, SafeIn
<1>4. CASE Root \in live
  <2>1. Progress(g, s)
    BY <1>1, ProtectRootProgress
  <2>2. h = MarkParts(s, "rootchunk", Root, 1, more)
    BY <1>4 DEF MarkRoots
  <2>3. MarkerOK(s, Item) /\ SentinelIn(s)
    BY <2>1 DEF Progress
  <2> HIDE DEF s, h
  <2>4. Extends(s, h, Item) /\ Covered(h, Root, 1)
    BY <1>2, <2>2, <2>3, ItemFacts, SlotFacts, MarkPartsExtends DEF Scan
  <2>5. Progress(s, h)
    BY <2>3, <2>4, ExtendsProgress
  <2>6. Progress(g, h)
    BY <2>1, <2>5, ProgressTransitive
  <2>7. \A k \in Slot : Kept(h, Root, k)
    BY <2>4, SlotFacts DEF Covered, Kept
  <2> QED
    BY <2>6, <2>7 DEF h
<1> QED
  BY <1>3, <1>4

LEMMA MarkStackMemoryProgress ==
  ASSUME HeapOK, NEW g, MarkerOK(g, Item), SentinelIn(g), NEW more \in BOOLEAN
  PROVE  /\ Progress(g, MarkStackMemory(g, more))
         /\ RootKept(g, MarkStackMemory(g, more))
         /\ \A k \in Slot : Kept(MarkStackMemory(g, more), Stack, k)
<1> DEFINE x == Work("stack", Stack, 1)
           h == MarkStackMemory(g, more)
<1>1. Extends(g, h, Item) /\ (h.overflow \/ x \in Items(h.work))
  BY ItemFacts, SlotFacts, PushItemExtends DEF MarkStackMemory
<1> HIDE DEF h
<1>2. \A k \in Slot : Kept(h, Stack, k)
  BY <1>1, SlotFacts DEF Kept, AheadIn, Scan, Work
<1> QED
  BY <1>1, <1>2, ExtendsProgress DEF h

BarrierOK == barrier \in StackOver(Item) /\ WellFormed(barrier, BarrierSegSize)

\* The barrier's work goes from one stack to the other.
Moves(h, left) ==
  /\ Progress(m, h) /\ RootKept(m, h)
  /\ h.mark = m.mark
  /\ left \in StackOver(Item) /\ WellFormed(left, BarrierSegSize)
  /\ Items(barrier) \subseteq Items(h.work) \cup Items(left)

LEMMA WellFormedWeakens ==
  ASSUME NEW s \in StackOver(Item), NEW p \in Nat \ {0}, NEW q \in Nat \ {0},
         p <= q, WellFormed(s, p)
  PROVE  WellFormed(s, q)
<1>1. s.base \in Seq(Nat) /\ s.items \in Seq(Item) /\ Len(s.base) \in Nat \ {0}
  BY DEF StackOver, WellFormed
<1>2. \A i \in 1..Len(s.base) : s.base[i] \in Nat
  BY <1>1
<1>3. \A i \in 2..Len(s.base) : s.base[i] - s.base[i - 1] \in 1..q
  BY <1>1, <1>2 DEF WellFormed
<1>4. TopCount(s) \in (IF Len(s.base) > 1 THEN 1 ELSE 0)..q
  BY <1>1, <1>2 DEF WellFormed
<1> QED
  BY <1>3, <1>4 DEF WellFormed

\* A stack that takes over the items of the barrier, and what else there is.
Reworks(g, stack) ==
  /\ MarkerOK(g, Item) /\ g.work = stack /\ g.mark = m.mark /\ g.queued = m.queued
  /\ (m.overflow => g.overflow) /\ g.sentinel = m.sentinel

LEMMA NewWork ==
  ASSUME MarkerOK(m, Item), SentinelIn(m), IsEmpty(m.work),
         NEW stack, NEW g, Reworks(g, stack)
  PROVE  /\ Progress(m, g) /\ RootKept(m, g) /\ g.mark = m.mark /\ g.work = stack
<1>1. /\ MarkerOK(g, Item) /\ g.work = stack /\ g.mark = m.mark /\ g.queued = m.queued
      /\ (m.overflow => g.overflow) /\ g.sentinel = m.sentinel
  BY DEF Reworks
<1>2. Items(m.work) = {} /\ m.sentinel = 0
  BY MarkerFields DEF Items, IsEmpty, SentinelIn, Count
<1> QED
  BY <1>1, <1>2 DEF Progress, RootKept, AheadIn, HasItem, SentinelIn

LEMMA FlushMoves ==
  ASSUME MarkerOK(m, Item), SentinelIn(m), IsEmpty(m.work), BarrierOK,
         NEW more \in BOOLEAN
  PROVE  /\ Moves(Flushed(m, more), BarrierLeft(m, more))
         /\ Flushed(m, more).overflow \/ IsEmpty(BarrierLeft(m, more))
<1> DEFINE h == Flushed(m, more)
           left == BarrierLeft(m, more)
<1>1. /\ BarrierSegSize \in Nat \ {0} /\ SegSize \in Nat \ {0} /\ BarrierSegSize <= SegSize
      /\ m.work \in StackOver(Item) /\ WellFormed(m.work, SegSize) /\ m.overflow \in BOOLEAN
      /\ barrier.items \in Seq(Item) /\ barrier.base \in Seq(Nat)
      /\ Len(barrier.items) \in Nat
  BY MarkAssumption, MarkerFields DEF BarrierOK, StackOver
<1>2. Reworks(m, m.work)
  BY DEF Reworks
<1>3. CASE CanTransferEverything(barrier, more) /\ IsEmpty(barrier)
  <2>1. h = m /\ left = barrier
    BY <1>3 DEF Flushed, BarrierLeft
  <2>2. Progress(m, m) /\ RootKept(m, m)
    BY <1>1, <1>2, NewWork
  <2> QED
    BY <1>3, <2>1, <2>2 DEF Moves, BarrierOK
<1>4. CASE CanTransferEverything(barrier, more) /\ ~IsEmpty(barrier)
  <2> DEFINE w == Insert(barrier)
  <2>1. h = [m EXCEPT !.work = w] /\ left = EmptyStack
    BY <1>4 DEF Flushed, BarrierLeft
  <2>2. w \in StackOver(Item) /\ w.items = barrier.items /\ w.base = barrier.base
    BY DEF Insert, BarrierOK, StackOver
  <2>3. WellFormed(w, SegSize)
    <3>1. WellFormed(barrier, SegSize)
      BY <1>1, WellFormedWeakens DEF BarrierOK
    <3> QED
      BY <2>2, <3>1 DEF WellFormed, TopCount, Count
  <2> HIDE DEF w, h, left
  <2>0. Reworks(h, w)
    BY <2>1, <2>2, <2>3 DEF Reworks, MarkerOK, MarkerOver
  <2>4. Progress(m, h) /\ RootKept(m, h) /\ h.mark = m.mark /\ h.work = w
    BY <2>0, NewWork
  <2>5. EmptyStack \in StackOver(Item) /\ WellFormed(EmptyStack, BarrierSegSize)
    BY <1>1 DEF EmptyStack, StackOver, WellFormed, TopCount, Count
  <2>6. Items(barrier) = Items(w)
    BY <2>2 DEF Items
  <2> QED
    BY <2>1, <2>4, <2>5, <2>6 DEF Moves, IsEmpty, EmptyStack, h, left
<1>5. CASE ~CanTransferEverything(barrier, more) /\ CanPush(m.work, SegSize, more)
  <2> DEFINE w == Push(m.work, TopItem(barrier), SegSize)
             p == Pop(barrier)
             n == Len(barrier.items)
  <2>1. h = [m EXCEPT !.work = w, !.overflow = TRUE] /\ left = p
    BY <1>5 DEF Flushed, BarrierLeft
  <2>2. n > 0
    BY <1>1, <1>5 DEF CanTransferEverything, IsEmpty
  <2>3. TopItem(barrier) \in Item /\ TopItem(barrier) = barrier.items[n]
    BY <1>1, <2>2 DEF TopItem
  <2>4. /\ w \in StackOver(Item) /\ WellFormed(w, SegSize)
        /\ w.items[Len(m.work.items) + 1] = TopItem(barrier)
        /\ Len(w.items) = Len(m.work.items) + 1
    <3> DEFINE top == TopItem(barrier)
    <3>1. top \in Item
      BY <2>3
    <3> HIDE DEF top
    <3>2. LET q == Push(m.work, top, SegSize)
          IN /\ q \in StackOver(Item) /\ WellFormed(q, SegSize)
             /\ Len(q.items) = Len(m.work.items) + 1
             /\ q.items[Len(m.work.items) + 1] = top
      BY <1>1, <3>1, PushStack
    <3> QED
      BY <3>2 DEF top
  <2>5. /\ p \in StackOver(Item) /\ WellFormed(p, BarrierSegSize)
        /\ Len(p.items) = n - 1
        /\ \A i \in 1..Len(p.items) : p.items[i] = barrier.items[i]
    BY <1>1, <2>2, PopStack DEF BarrierOK
  <2> HIDE DEF w, p, h, left
  <2>0. Reworks(h, w) /\ h.overflow
    BY <2>1, <2>4 DEF Reworks, MarkerOK, MarkerOver
  <2>6. Progress(m, h) /\ RootKept(m, h) /\ h.mark = m.mark /\ h.work = w /\ h.overflow
    BY <2>0, NewWork
  <2>7. Items(barrier) \subseteq Items(w) \cup Items(p)
    <3>1. ASSUME NEW i \in 1..n PROVE barrier.items[i] \in Items(w) \cup Items(p)
      <4>1. i = n \/ i \in 1..Len(p.items)
        BY <1>1, <2>2, <2>5
      <4>2. 1 \in 1..Len(w.items) /\ w.items[1] = TopItem(barrier)
        <5>1. Len(m.work.items) = 0
          BY DEF IsEmpty
        <5> QED
          BY <5>1, <2>4
      <4> QED
        BY <4>1, <4>2, <2>3, <2>5 DEF Items
    <3> QED
      BY <3>1 DEF Items
  <2> QED
    BY <2>1, <2>5, <2>6, <2>7 DEF Moves, h, left
<1>6. CASE ~CanTransferEverything(barrier, more) /\ ~CanPush(m.work, SegSize, more)
  <2>1. h = [m EXCEPT !.overflow = TRUE] /\ left = barrier
    BY <1>6 DEF Flushed, BarrierLeft
  <2> HIDE DEF h, left
  <2>0. Reworks(h, m.work) /\ h.overflow
    BY <2>1 DEF Reworks, MarkerOK, MarkerOver
  <2>2. Progress(m, h) /\ RootKept(m, h) /\ h.mark = m.mark /\ h.overflow
    BY <2>0, NewWork
  <2> QED
    BY <2>1, <2>2 DEF Moves, BarrierOK, h, left
<1> QED
  BY <1>3, <1>4, <1>5, <1>6

LEMMA OneBelowTopStack ==
  ASSUME NEW s \in StackOver(Item), NEW limit \in Nat \ {0}, WellFormed(s, limit),
         Len(s.base) > 1
  PROVE  LET moved == Insert(OneBelowTop(s))
             rest == WithoutOneBelowTop(s)
         IN /\ moved \in StackOver(Item) /\ WellFormed(moved, limit)
            /\ rest \in StackOver(Item) /\ WellFormed(rest, limit)
            /\ Items(s) \subseteq Items(moved) \cup Items(rest)
<1> DEFINE moved == Insert(OneBelowTop(s))
           rest == WithoutOneBelowTop(s)
           n == Len(s.base)
           lo == s.base[n - 1]
           hi == s.base[n]
           low == SubSeq(s.items, 1, lo)
           mid == SubSeq(s.items, lo + 1, hi)
           high == SubSeq(s.items, hi + 1, Len(s.items))
           len == Len(s.items)
<1>1. /\ s.items \in Seq(Item) /\ s.base \in Seq(Nat) /\ s.extra \in BOOLEAN
      /\ n \in Nat /\ n > 1 /\ len \in Nat
  BY DEF StackOver
<1>2. lo \in Nat /\ hi \in Nat
  BY <1>1
<1>3. hi - lo \in 1..limit
  BY <1>1 DEF WellFormed
<1>4. len - hi \in 1..limit
  BY <1>1 DEF WellFormed, TopCount, Count
<1>5. lo < hi /\ hi < len
  <2> HIDE DEF lo, hi, len
  <2> QED
    BY <1>1, <1>2, <1>3, <1>4
<1>6. /\ moved.items = mid /\ moved.base = <<0>> /\ moved.extra = TRUE
      /\ moved = [items |-> moved.items, base |-> moved.base, extra |-> moved.extra]
  BY DEF Insert, OneBelowTop
<1>7. rest = [s EXCEPT !.items = low \o high, !.base = SubSeq(s.base, 1, n - 1)]
  BY DEF WithoutOneBelowTop, StackOver
<1>8. /\ rest.items = low \o high /\ rest.base = SubSeq(s.base, 1, n - 1)
      /\ rest.extra = s.extra
      /\ rest = [items |-> rest.items, base |-> rest.base, extra |-> rest.extra]
  <2> HIDE DEF rest, low, high, n
  <2> QED
    BY <1>7 DEF StackOver
<1> HIDE DEF moved, rest, lo, hi, len
<1>9. /\ low \in Seq(Item) /\ Len(low) = lo
      /\ \A i \in 1..lo : low[i] = s.items[i]
  BY <1>1, <1>2, <1>5 DEF len
<1>10. /\ mid \in Seq(Item) /\ Len(mid) = hi - lo
       /\ \A i \in 1..(hi - lo) : mid[i] = s.items[lo + i]
  BY <1>1, <1>2, <1>5 DEF len
<1>11. /\ high \in Seq(Item) /\ Len(high) = len - hi
       /\ \A i \in 1..(len - hi) : high[i] = s.items[hi + i]
  BY <1>1, <1>2, <1>5 DEF len
<1> HIDE DEF low, mid, high
<1>12. /\ rest.items \in Seq(Item) /\ Len(rest.items) = lo + (len - hi)
       /\ \A i \in 1..lo : rest.items[i] = low[i]
       /\ \A i \in 1..(len - hi) : rest.items[lo + i] = high[i]
  <2>1. low \in Seq(Item) /\ high \in Seq(Item) /\ rest.items = low \o high
    BY <1>8, <1>9, <1>11
  <2>2. rest.items \in Seq(Item) /\ Len(rest.items) = Len(low) + Len(high)
    BY <2>1
  <2>3. \A i \in 1..Len(low) : rest.items[i] = low[i]
    BY <2>1
  <2>4. \A i \in 1..Len(high) : rest.items[Len(low) + i] = high[i]
    BY <2>1
  <2> QED
    BY <1>9, <1>11, <2>2, <2>3, <2>4
<1>13. /\ rest.base \in Seq(Nat) /\ Len(rest.base) = n - 1
       /\ \A i \in 1..(n - 1) : rest.base[i] = s.base[i]
  <2>1. n = Len(s.base)
    OBVIOUS
  <2> HIDE DEF n
  <2>2. n - 1 \in 0..Len(s.base)
    BY <1>1, <2>1
  <2> QED
    BY <1>1, <1>8, <2>2, PrefixOf
<1> HIDE DEF n
<1>14. moved \in StackOver(Item) /\ WellFormed(moved, limit)
  <2>1. moved \in StackOver(Item)
    <3>1. <<0>> \in Seq(Nat)
      OBVIOUS
    <3>2. moved.items \in Seq(Item) /\ moved.base \in Seq(Nat) /\ moved.extra \in BOOLEAN
      BY <1>6, <1>10, <3>1
    <3> QED
      BY <1>6, <3>2 DEF StackOver
  <2>2. Len(moved.base) = 1 /\ moved.base[1] = 0 /\ moved.base # <<>>
    BY <1>6
  <2>3. TopCount(moved) = hi - lo
    BY <1>2, <1>6, <1>10, <2>2 DEF TopCount, Count
  <2> QED
    BY <1>2, <1>3, <2>1, <2>2, <2>3 DEF WellFormed
<1>15. rest \in StackOver(Item) /\ WellFormed(rest, limit)
  <2>1. rest \in StackOver(Item)
    BY <1>1, <1>8, <1>12, <1>13 DEF StackOver
  <2>2. TopCount(rest) = len - hi
    <3>1. rest.base[n - 1] = lo
      BY <1>1, <1>13 DEF lo
    <3> QED
      BY <1>1, <1>2, <1>12, <1>13, <3>1 DEF TopCount, Count
  <2>3. rest.base # <<>> /\ rest.base[1] = 0
    BY <1>1, <1>13 DEF WellFormed
  <2>4. ASSUME NEW i \in 2..Len(rest.base)
        PROVE  rest.base[i] - rest.base[i - 1] \in 1..limit
    <3>1. i \in 1..(n - 1) /\ i - 1 \in 1..(n - 1) /\ i \in 2..Len(s.base)
      BY <1>1, <1>13, <2>4 DEF n
    <3>2. s.base[i] - s.base[i - 1] \in 1..limit
      BY <3>1 DEF WellFormed
    <3> QED
      BY <3>1, <3>2, <1>13
  <2>5. TopCount(rest) \in (IF Len(rest.base) > 1 THEN 1 ELSE 0)..limit
    BY <1>1, <1>2, <1>4, <1>13, <2>2
  <2> QED
    BY <2>1, <2>3, <2>4, <2>5 DEF WellFormed
<1>16. ASSUME NEW i \in 1..len
       PROVE  s.items[i] \in Items(moved) \cup Items(rest)
  <2>1. CASE i <= lo
    <3>1. i \in 1..Len(rest.items) /\ i \in 1..lo
      BY <2>1, <1>1, <1>2, <1>5, <1>12
    <3> QED
      BY <3>1, <1>9, <1>12 DEF Items
  <2>2. CASE lo < i /\ i <= hi
    <3>1. (i - lo) \in 1..(hi - lo) /\ lo + (i - lo) = i
      BY <2>2, <1>1, <1>2
    <3>2. moved.items[i - lo] = s.items[i] /\ (i - lo) \in 1..Len(moved.items)
      BY <3>1, <1>6, <1>10
    <3> QED
      BY <3>2 DEF Items
  <2>3. CASE hi < i
    <3>1. (i - hi) \in 1..(len - hi) /\ hi + (i - hi) = i
      BY <2>3, <1>1, <1>2
    <3>2. (lo + (i - hi)) \in 1..Len(rest.items)
      BY <3>1, <1>1, <1>2, <1>5, <1>12
    <3>3. rest.items[lo + (i - hi)] = s.items[i]
      BY <3>1, <1>11, <1>12
    <3> QED
      BY <3>2, <3>3 DEF Items
  <2> QED
    BY <2>1, <2>2, <2>3, <1>1, <1>2
<1> QED
  BY <1>14, <1>15, <1>16 DEF Items, moved, rest, len

LEMMA ShiftMoves ==
  ASSUME MarkerOK(m, Item), SentinelIn(m), IsEmpty(m.work), BarrierOK,
         InactiveSegments(barrier) >= BarrierThreshold
  PROVE  Moves([m EXCEPT !.work = Insert(OneBelowTop(barrier))], WithoutOneBelowTop(barrier))
<1> DEFINE w == Insert(OneBelowTop(barrier))
           left == WithoutOneBelowTop(barrier)
           h == [m EXCEPT !.work = w]
<1>1. /\ BarrierSegSize \in Nat \ {0} /\ SegSize \in Nat \ {0} /\ BarrierSegSize <= SegSize
      /\ BarrierThreshold \in Nat \ {0} /\ Len(barrier.base) \in Nat
  BY MarkAssumption DEF BarrierOK, StackOver
<1>2. Len(barrier.base) > 1
  BY <1>1 DEF InactiveSegments
<1>3. /\ w \in StackOver(Item) /\ WellFormed(w, BarrierSegSize)
      /\ left \in StackOver(Item) /\ WellFormed(left, BarrierSegSize)
      /\ Items(barrier) \subseteq Items(w) \cup Items(left)
  BY <1>1, <1>2, OneBelowTopStack DEF BarrierOK
<1> HIDE DEF w, left
<1>4. WellFormed(w, SegSize)
  BY <1>1, <1>3, WellFormedWeakens
<1>5. Reworks(h, w)
  BY <1>3, <1>4 DEF Reworks, MarkerOK, MarkerOver
<1> HIDE DEF h
<1>6. Progress(m, h) /\ RootKept(m, h) /\ h.mark = m.mark /\ h.work = w
  BY <1>5, NewWork
<1> QED
  BY <1>3, <1>6 DEF Moves, h, w, left

-----------------------------------------------------------------------------
(* The invariant.                                                           *)

LEMMA InvFacts ==
  ASSUME IInv
  PROVE  HeapOK /\ MarkerOK(m, Item) /\ SentinelIn(m) /\ BarrierOK
BY DEF IInv, TypeOK, HeapOK, MarkerOK, Marker, MarkerOver, SegmentedStack, StackOver,
       SentinelIn, SentinelSound, BarrierOK

LEMMA NoStoreFacts ==
  ASSUME IInv, pc # "run"
  PROVE  store = NoStore
BY DEF IInv, StoreSound

\* A step of the marker or of the collector, which the program does not see.
LEMMA CollectorStep ==
  ASSUME IInv, store = NoStore, UNCHANGED program, Progress(m, m'), BarrierOK',
         \A o \in m'.queued : Work("object", o, 1) \in Items(barrier) =>
           Work("object", o, 1) \in Items(m'.work) \cup Items(barrier'),
         \A b \in m'.mark : pc = "recover" /\ b \in todo =>
           \/ pc' = "recover" /\ b \in todo'
           \/ \A k \in Slot : Kept(m', b, k)
  PROVE  /\ MemorySound' /\ StoreSound' /\ NoDangling' /\ TriColour' /\ QueuedOnStack'
         /\ SentinelSound'
<1>1. MarkerOK(m, Item) /\ MarkerOK(m', Item)
  BY InvFacts DEF Progress
<1>2. MemorySound' /\ StoreSound' /\ NoDangling'
  <2>1. MemorySound'
    BY DEF program, IInv, MemorySound, Held, Memory, Parts
  <2>2. StoreSound'
    BY DEF program, StoreSound
  <2>3. NoDangling'
    BY DEF program, IInv, NoDangling, Held
  <2> QED
    BY <2>1, <2>2, <2>3
<1>3. TriColour'
  <2> SUFFICES ASSUME ~m'.overflow, NEW b \in m'.mark, NEW k \in Slot
               PROVE  \/ SafeIn(m', mem[b][k]) \/ AheadIn(m', b, k)
                      \/ pc' = "recover" /\ b \in todo'
    BY DEF TriColour, Safe, SafeIn, Ahead, AheadIn, program
  <2>1. b \in Memory \ {Root}
    BY <1>1, MarkerFields, MarkAssumption DEF Memory
  <2>2. CASE b \notin m.mark
    BY <2>2 DEF Progress, Kept
  <2>3. CASE b \in m.mark
    <3>1. SafeIn(m, mem[b][k]) \/ AheadIn(m, b, k) \/ (pc = "recover" /\ b \in todo)
      BY <2>3 DEF IInv, TriColour, Safe, SafeIn, Ahead, AheadIn, Progress
    <3>2. CASE SafeIn(m, mem[b][k])
      BY <3>2 DEF SafeIn, Progress
    <3>3. CASE AheadIn(m, b, k)
      BY <2>1, <3>3 DEF Progress, Kept
    <3>4. CASE pc = "recover" /\ b \in todo
      BY <3>4 DEF Kept
    <3> QED
      BY <3>1, <3>2, <3>3, <3>4
  <2> QED
    BY <2>2, <2>3
<1>4. QueuedOnStack'
  <2> SUFFICES ASSUME NEW o \in m'.queued
               PROVE  Work("object", o, 1) \in Items(m'.work) \cup Items(barrier')
    BY DEF QueuedOnStack
  <2>1. o \in m.queued \/ HasItem(m', o)
    BY DEF Progress
  <2>2. CASE o \in m.queued
    BY <2>2 DEF IInv, QueuedOnStack, Progress, HasItem
  <2>3. CASE HasItem(m', o)
    BY <2>3 DEF HasItem
  <2> QED
    BY <2>1, <2>2, <2>3
<1>5. SentinelSound'
  BY DEF Progress, SentinelIn, SentinelSound
<1> QED
  BY <1>2, <1>3, <1>4, <1>5

\* Items that are worked off in the middle of FinishIncrementalMark.
LEMMA ScanKept ==
  ASSUME IInv, UNCHANGED <<program, barrier, pc, resume>>,
         Progress(m, m'), RootKept(m, m')
  PROVE  ScanSound'
<1>1. /\ m.mark \subseteq m'.mark
      /\ \A k \in Slot : SafeIn(m, mem[Root][k]) \/ AheadIn(m, Root, k) => Kept(m', Root, k)
      /\ \A k \in Slot : SafeIn(m, mem[Stack][k]) \/ AheadIn(m, Stack, k) => Kept(m', Stack, k)
      /\ m.overflow => m'.overflow
  BY MarkAssumption DEF Progress, RootKept, Kept, SafeIn, Memory
<1>2. ScanSound
  BY DEF IInv
<1>3. pc \in {"rescan", "presweep", "resweep", "recover"} =>
        m'.overflow \/ \A k \in Slot : SafeIn(m', mem[Root][k]) \/ AheadIn(m', Root, k)
  BY <1>1, <1>2 DEF ScanSound, Safe, SafeIn, Ahead, AheadIn, Kept
<1>4. pc = "rescan" =>
        m'.overflow \/ \A k \in Slot : SafeIn(m', mem[Stack][k]) \/ AheadIn(m', Stack, k)
  BY <1>1, <1>2 DEF ScanSound, Safe, SafeIn, Ahead, AheadIn, Kept
<1> QED
  BY <1>1, <1>2, <1>3, <1>4 DEF ScanSound, Safe, SafeIn, Ahead, AheadIn, program

LEMMA TypeKept ==
  ASSUME IInv, UNCHANGED program, MarkerOK(m', Item), BarrierOK',
         marking' \in BOOLEAN, {todo', doomed'} \subseteq SUBSET Obj,
         pc' \in {"run", "drain", "rescan", "presweep", "resweep", "recover"},
         resume' \in {"drain", "rescan", "resweep"}
  PROVE  TypeOK'
<1>1. m' \in Marker /\ WellFormed(m'.work, SegSize)
  BY DEF MarkerOK, Marker, MarkerOver, SegmentedStack, StackOver
<1>2. barrier' \in SegmentedStack /\ WellFormed(barrier', BarrierSegSize)
  BY DEF BarrierOK, SegmentedStack, StackOver
<1>3. TypeOK
  BY DEF IInv
<1> QED
  BY <1>1, <1>2, <1>3 DEF TypeOK, program

LEMMA MarkTopStep ==
  ASSUME IInv, store = NoStore, marking, ~IsEmpty(m.work),
         UNCHANGED <<program, marking, barrier, pc, resume, todo, doomed>>,
         NEW more \in More, m' = MarkTop(more)
  PROVE  IInv'
<1>1. HeapOK /\ MarkerOK(m, Item) /\ SentinelIn(m) /\ BarrierOK
  BY InvFacts
<1>2. more \in BOOLEAN /\ m.work.items # <<>>
  BY DEF More, IsEmpty
<1>3. Progress(m, m') /\ RootKept(m, m')
  BY <1>1, <1>2, MarkTopProgress
<1>4. TypeOK /\ CycleSound
  BY DEF IInv
<1>5. TypeOK'
  BY <1>1, <1>3, <1>4, TypeKept DEF Progress, BarrierOK, TypeOK
<1>6. MemorySound' /\ StoreSound' /\ NoDangling' /\ TriColour' /\ QueuedOnStack'
      /\ SentinelSound'
  BY <1>1, <1>3, CollectorStep DEF BarrierOK
<1>7. ScanSound'
  BY <1>3, ScanKept
<1>8. CycleSound'
  BY <1>4 DEF CycleSound
<1> QED
  BY <1>5, <1>6, <1>7, <1>8 DEF IInv

LEMMA MarkStepInv == ASSUME IInv, MarkStep PROVE IInv'
<1>1. PICK more \in More : m' = MarkTop(more)
  BY DEF MarkStep
<1> QED
  BY <1>1, MarkTopStep DEF MarkStep, Running

LEMMA DrainInv == ASSUME IInv, Drain PROVE IInv'
<1>1. PICK more \in More : m' = MarkTop(more)
  BY DEF Drain
<1>2. pc # "run" /\ store = NoStore /\ marking
  BY NoStoreFacts DEF Drain, IInv, CycleSound
<1> QED
  BY <1>1, <1>2, MarkTopStep DEF Drain

LEMMA StartMarkInv == ASSUME IInv, StartMark PROVE IInv'
<1>1. HeapOK /\ MarkerOK(m, Item) /\ SentinelIn(m) /\ BarrierOK
  BY InvFacts
<1>2. PICK more \in More : m' = MarkRoots(m, more)
  BY DEF StartMark
<1>3. Progress(m, m')
  BY <1>1, <1>2, MarkRootsProgress DEF More
<1>4. TypeOK /\ pc = "run" /\ store = NoStore
  BY DEF IInv, StartMark, Running
<1>5. Objects \subseteq Obj
  BY DEF Objects
<1>6. TypeOK'
  BY <1>1, <1>3, <1>4, <1>5, TypeKept DEF StartMark, Progress, BarrierOK, TypeOK
<1>7. MemorySound' /\ StoreSound' /\ NoDangling' /\ TriColour' /\ QueuedOnStack'
      /\ SentinelSound'
  BY <1>1, <1>3, <1>4, CollectorStep DEF StartMark, BarrierOK
<1>8. ScanSound' /\ CycleSound'
  BY <1>4 DEF StartMark, ScanSound, CycleSound
<1> QED
  BY <1>6, <1>7, <1>8 DEF IInv

LEMMA ShiftBarrierWorkInv == ASSUME IInv, ShiftBarrierWork PROVE IInv'
<1>1. MarkerOK(m, Item) /\ SentinelIn(m) /\ BarrierOK
  BY InvFacts
<1>2. Moves(m', barrier')
  BY <1>1, ShiftMoves DEF ShiftBarrierWork
<1>3. TypeOK /\ pc = "run" /\ store = NoStore /\ marking
  BY DEF IInv, ShiftBarrierWork, Running
<1>4. TypeOK'
  BY <1>2, <1>3, TypeKept DEF ShiftBarrierWork, Moves, Progress, BarrierOK, TypeOK
<1>5. MemorySound' /\ StoreSound' /\ NoDangling' /\ TriColour' /\ QueuedOnStack'
      /\ SentinelSound'
  BY <1>2, <1>3, CollectorStep DEF ShiftBarrierWork, Moves, BarrierOK
<1>6. ScanSound' /\ CycleSound'
  BY <1>3 DEF ShiftBarrierWork, ScanSound, CycleSound
<1> QED
  BY <1>4, <1>5, <1>6 DEF IInv

LEMMA NothingProgress ==
  ASSUME HeapOK, MarkerOK(m, Item), SentinelIn(m), m' = m
  PROVE  Progress(m, m') /\ RootKept(m, m')
<1>1. Extends(m, m, Item)
  BY ExtendsReflexive
<1> QED
  BY <1>1, ExtendsProgress

LEMMA FinishInv == ASSUME IInv, Finish PROVE IInv'
<1>1. HeapOK /\ MarkerOK(m, Item) /\ SentinelIn(m) /\ BarrierOK
  BY InvFacts
<1>2. m' = m /\ barrier' = barrier
  BY DEF Finish
<1>3. Progress(m, m')
  BY <1>1, <1>2, NothingProgress
<1>4. TypeOK /\ pc = "run" /\ store = NoStore /\ marking
  BY DEF IInv, Finish, Running
<1>5. TypeOK'
  BY <1>1, <1>2, <1>4, TypeKept DEF Finish, BarrierOK, TypeOK
<1>6. MemorySound' /\ StoreSound' /\ NoDangling' /\ TriColour' /\ QueuedOnStack'
      /\ SentinelSound'
  BY <1>1, <1>2, <1>3, <1>4, CollectorStep DEF Finish, BarrierOK
<1>7. ScanSound' /\ CycleSound'
  BY <1>4 DEF Finish, ScanSound, CycleSound
<1> QED
  BY <1>5, <1>6, <1>7 DEF IInv

\* The flag is cleared, and everything that is marked is to be visited again.
LEMMA BeginRecoveryStep ==
  ASSUME IInv, BeginRecovery, pc # "run", resume' \in {"drain", "rescan", "resweep"},
         resume' = "resweep" => pc \in {"presweep", "resweep"}
  PROVE  IInv'
<1>1. HeapOK /\ MarkerOK(m, Item) /\ SentinelIn(m) /\ BarrierOK
  BY InvFacts
<1>2. PICK more \in More : m' = MarkRoots([m EXCEPT !.overflow = FALSE], more)
  BY DEF BeginRecovery
<1> DEFINE g == [m EXCEPT !.overflow = FALSE]
<1>3. /\ MarkerOK(g, Item) /\ g.work = m.work /\ g.mark = m.mark /\ g.queued = m.queued
      /\ g.sentinel = m.sentinel
  BY <1>1 DEF MarkerOK, MarkerOver
<1>4. m' = MarkRoots(g, more) /\ more \in BOOLEAN
  BY <1>2 DEF More
<1> HIDE DEF g
<1>5. SentinelIn(g)
  BY <1>1, <1>3 DEF SentinelIn
<1>6. Progress(g, m') /\ \A k \in Slot : Kept(m', Root, k)
  BY <1>1, <1>3, <1>4, <1>5, MarkRootsProgress
<1>7. /\ UNCHANGED <<program, marking, barrier, doomed>> /\ todo' = Objects
      /\ pc' = "recover" /\ m.overflow
  BY DEF BeginRecovery
<1>8. store = NoStore /\ marking /\ TypeOK
  BY NoStoreFacts DEF IInv, CycleSound
<1>9. TypeOK'
  <2>1. BarrierOK' /\ MarkerOK(m', Item) /\ Objects \subseteq Obj
    BY <1>1, <1>6, <1>7 DEF BarrierOK, Progress, Objects
  <2> QED
    BY <2>1, <1>7, <1>8, TypeKept DEF TypeOK
<1>10. MemorySound' /\ StoreSound' /\ NoDangling'
  <2>1. MemorySound'
    BY <1>7 DEF program, IInv, MemorySound, Held, Memory, Parts
  <2>2. StoreSound'
    BY <1>7, <1>8 DEF program, StoreSound
  <2>3. NoDangling'
    BY <1>7 DEF program, IInv, NoDangling, Held
  <2> QED
    BY <2>1, <2>2, <2>3
<1>11. TriColour'
  <2> SUFFICES ASSUME ~m'.overflow, NEW b \in m'.mark, NEW k \in Slot
               PROVE  \/ SafeIn(m', mem[b][k]) \/ AheadIn(m', b, k)
                      \/ pc' = "recover" /\ b \in todo'
    BY <1>7 DEF TriColour, Safe, SafeIn, Ahead, AheadIn, program
  <2>1. b \in Obj /\ b \in Memory
    BY <1>6, MarkerFields DEF Memory, Progress
  <2>2. CASE b \notin m.mark
    BY <2>2, <1>3, <1>6 DEF Progress, Kept
  <2>3. CASE b \in live
    BY <2>1, <2>3, <1>7 DEF Objects
  <2>4. CASE b \notin live
    <3>1. b \notin Held
      BY <2>1, <2>4, MarkAssumption DEF Held
    <3> QED
      BY <2>1, <3>1 DEF IInv, MemorySound, SafeIn
  <2> QED
    BY <2>2, <2>3, <2>4
<1>12. QueuedOnStack'
  <2> SUFFICES ASSUME NEW o \in m'.queued
               PROVE  Work("object", o, 1) \in Items(m'.work) \cup Items(barrier)
    BY <1>7 DEF QueuedOnStack
  <2>1. o \in m.queued \/ HasItem(m', o)
    BY <1>3, <1>6 DEF Progress
  <2>2. CASE o \in m.queued
    BY <2>2, <1>3, <1>6 DEF IInv, QueuedOnStack, Progress, HasItem
  <2>3. CASE HasItem(m', o)
    BY <2>3 DEF HasItem
  <2> QED
    BY <2>1, <2>2, <2>3
<1>13. SentinelSound'
  BY <1>6 DEF Progress, SentinelIn, SentinelSound
<1>14. ScanSound'
  <2>1. m'.overflow \/ \A k \in Slot : Safe(mem[Root][k])' \/ Ahead(Root, k)'
    BY <1>6, <1>7 DEF Kept, Safe, SafeIn, Ahead, AheadIn, program
  <2>2. resume' = "resweep" => /\ \A k \in Slot : mem'[Stack][k] \in m'.mark \cup {Null}
                               /\ IsEmpty(barrier')
    BY <1>3, <1>6, <1>7 DEF IInv, ScanSound, Progress, program
  <2> QED
    BY <1>7, <2>1, <2>2 DEF ScanSound
<1>15. CycleSound'
  BY <1>7, <1>8 DEF CycleSound
<1> QED
  BY <1>9, <1>10, <1>11, <1>12, <1>13, <1>14, <1>15 DEF IInv

LEMMA RecoverInv == ASSUME IInv, Recover PROVE IInv'
BY BeginRecoveryStep DEF Recover

LEMMA EndPresweepInv == ASSUME IInv, EndPresweep PROVE IInv'
<1>1. CASE BeginRecovery /\ resume' = "resweep"
  BY <1>1, BeginRecoveryStep DEF EndPresweep
<1>2. CASE ~m.overflow /\ pc' = "resweep"
           /\ UNCHANGED <<program, marking, m, barrier, resume, todo, doomed>>
  <2>1. HeapOK /\ MarkerOK(m, Item) /\ SentinelIn(m) /\ BarrierOK
    BY InvFacts
  <2>2. pc = "presweep" /\ store = NoStore /\ marking /\ TypeOK
    BY NoStoreFacts DEF EndPresweep, IInv, CycleSound
  <2>3. Progress(m, m')
    BY <1>2, <2>1, NothingProgress
  <2>4. TypeOK'
    BY <1>2, <2>1, <2>2, TypeKept DEF BarrierOK, TypeOK
  <2>5. MemorySound' /\ StoreSound' /\ NoDangling' /\ TriColour' /\ QueuedOnStack'
        /\ SentinelSound'
    BY <1>2, <2>1, <2>2, <2>3, CollectorStep DEF BarrierOK
  <2>6. ScanSound' /\ CycleSound'
    BY <1>2, <2>2 DEF IInv, ScanSound, CycleSound, Safe, Ahead, program
  <2> QED
    BY <2>4, <2>5, <2>6 DEF IInv
<1> QED
  BY <1>1, <1>2 DEF EndPresweep

LEMMA VisitInv == ASSUME IInv, NEW o \in Obj, Visit(o) PROVE IInv'
<1>1. HeapOK /\ MarkerOK(m, Item) /\ SentinelIn(m) /\ BarrierOK
  BY InvFacts
<1>2. PICK more \in More :
        m' = IF o \in m.mark /\ Parts(o) > 0 THEN MarkObject(m, o, more) ELSE m
  BY DEF Visit
<1>3. /\ UNCHANGED <<program, marking, barrier, pc, resume, doomed>>
      /\ pc = "recover" /\ todo' = todo \ {o}
  BY DEF Visit
<1>4. store = NoStore /\ marking /\ TypeOK
  BY <1>3, NoStoreFacts DEF IInv, CycleSound
<1>5. /\ Progress(m, m') /\ RootKept(m, m')
      /\ o \in m'.mark => \A k \in Slot : Kept(m', o, k)
  <2>1. CASE o \in m.mark /\ Parts(o) > 0
    <3> DEFINE s == SetMark(m, o)
    <3>0. /\ MarkerOK(s, Item) /\ s.mark = m.mark \cup {o} /\ s.queued = m.queued \ {o}
          /\ s.work = m.work /\ s.overflow = m.overflow /\ s.sentinel = m.sentinel
      BY <1>1 DEF SetMark, MarkerOK, MarkerOver
    <3>1. /\ MarkerOK(s, Item) /\ s.mark = m.mark /\ s.queued = m.queued \ {o}
          /\ s.work = m.work /\ s.overflow = m.overflow /\ s.sentinel = m.sentinel
      <4> HIDE DEF s
      <4> QED
        BY <3>0, <2>1
    <3>2. m' = MarkObject(m, o, more) /\ more \in BOOLEAN
      BY <1>2, <2>1 DEF More
    <3> HIDE DEF s
    <3>3. Extends(s, m', Item) /\ Covered(m', o, 1)
      BY <1>1, <3>2, MarkObjectExtends DEF s
    <3>4. SentinelIn(s)
      BY <1>1, <3>1 DEF SentinelIn
    <3>5. Progress(s, m') /\ RootKept(s, m')
      BY <1>1, <3>1, <3>3, <3>4, ExtendsProgress
    <3>6. Progress(m, s)
      BY <1>1, <2>1, <3>1, <3>4 DEF Progress, AheadIn, HasItem, Kept
    <3>7. RootKept(m, m')
      BY <3>1, <3>5 DEF RootKept, AheadIn
    <3>8. \A k \in Slot : Kept(m', o, k)
      BY <3>3, SlotFacts DEF Covered, Kept
    <3> QED
      BY <3>5, <3>6, <3>7, <3>8, ProgressTransitive
  <2>2. CASE ~(o \in m.mark /\ Parts(o) > 0)
    <3>1. m' = m
      BY <1>2, <2>2
    <3>2. Progress(m, m') /\ RootKept(m, m')
      BY <1>1, <3>1, NothingProgress
    <3>3. ASSUME o \in m'.mark, NEW k \in Slot PROVE Kept(m', o, k)
      <4>1. Parts(o) = 0 /\ o \in Memory
        <5>1. o \in Memory
          BY DEF Memory
        <5> QED
          BY <1>1, <2>2, <3>1, <3>3, <5>1, HeapFacts
      <4> QED
        BY <1>1, <4>1, HeapFacts, SlotFacts DEF Kept, SafeIn
    <3> QED
      BY <3>2, <3>3
  <2> QED
    BY <2>1, <2>2
<1>6. TypeOK'
  <2>1. BarrierOK' /\ MarkerOK(m', Item)
    BY <1>1, <1>3, <1>5 DEF BarrierOK, Progress
  <2> QED
    BY <1>3, <1>4, <2>1, TypeKept DEF TypeOK
<1>7. MemorySound' /\ StoreSound' /\ NoDangling' /\ TriColour' /\ QueuedOnStack'
      /\ SentinelSound'
  <2>1. BarrierOK' /\ Items(barrier) = Items(barrier')
    BY <1>1, <1>3 DEF BarrierOK
  <2>2. \A b \in m'.mark : pc = "recover" /\ b \in todo =>
           (pc' = "recover" /\ b \in todo') \/ \A k \in Slot : Kept(m', b, k)
    BY <1>3, <1>5
  <2> QED
    BY <1>3, <1>4, <1>5, <2>1, <2>2, CollectorStep
<1>8. ScanSound'
  BY <1>3, <1>5, ScanKept
<1>9. CycleSound'
  BY <1>3, <1>4 DEF CycleSound
<1> QED
  BY <1>6, <1>7, <1>8, <1>9 DEF IInv

LEMMA KeptOn ==
  ASSUME NEW g, NEW h, Progress(g, h), RootKept(g, h)
  PROVE  \A b \in Memory, k \in Slot : Kept(g, b, k) => Kept(h, b, k)
BY DEF Progress, RootKept, Kept, SafeIn

\* FlushBarrierWork and a scan of the stack, once the roots have been scanned.
Scanned ==
  /\ Progress(m, m') /\ BarrierOK'
  /\ \A o \in m'.queued : Work("object", o, 1) \in Items(barrier) =>
       Work("object", o, 1) \in Items(m'.work) \cup Items(barrier')
  /\ \A k \in Slot : Kept(m', Root, k) /\ Kept(m', Stack, k)
  /\ m'.overflow \/ IsEmpty(barrier')

LEMMA FlushAndScan ==
  ASSUME HeapOK, MarkerOK(m, Item), SentinelIn(m), IsEmpty(m.work), BarrierOK,
         NEW more \in BOOLEAN, barrier' = BarrierLeft(m, more),
         NEW g, m' = MarkStackMemory(g, more),
         \/ g = MarkRoots(Flushed(m, more), more)
         \/ g = Flushed(m, more) /\ \A k \in Slot : Kept(m, Root, k)
  PROVE  Scanned
<1> DEFINE f == Flushed(m, more)
<1>1. Moves(f, barrier') /\ (f.overflow \/ IsEmpty(barrier'))
  BY FlushMoves
<1>2. Progress(m, f) /\ RootKept(m, f)
  BY <1>1 DEF Moves
<1>3. MarkerOK(f, Item) /\ SentinelIn(f)
  BY <1>2 DEF Progress
<1>4. Progress(f, g) /\ \A k \in Slot : Kept(g, Root, k)
  <2>1. CASE g = MarkRoots(f, more)
    <3> HIDE DEF f
    <3> QED
      BY <1>3, <2>1, MarkRootsProgress
  <2>2. CASE g = f /\ \A k \in Slot : Kept(m, Root, k)
    <3> HIDE DEF f
    <3>1. Progress(f, f)
      BY <1>3, ExtendsReflexive, ExtendsProgress
    <3>2. \A k \in Slot : Kept(f, Root, k)
      BY <1>2, <2>2, KeptOn DEF Memory
    <3> QED
      BY <2>2, <3>1, <3>2
  <2> QED
    BY <2>1, <2>2
<1> HIDE DEF f
<1>5. MarkerOK(g, Item) /\ SentinelIn(g)
  BY <1>4 DEF Progress
<1>6. Progress(g, m') /\ RootKept(g, m') /\ \A k \in Slot : Kept(m', Stack, k)
  BY <1>5, MarkStackMemoryProgress
<1>7. \A k \in Slot : Kept(m', Root, k)
  BY <1>4, <1>6, KeptOn DEF Memory
<1>8. Progress(f, m')
  BY <1>4, <1>6, ProgressTransitive
<1>9. Progress(m, m')
  BY <1>2, <1>8, ProgressTransitive
<1>10. BarrierOK'
  BY <1>1 DEF Moves, BarrierOK
<1>11. ASSUME NEW o \in m'.queued, Work("object", o, 1) \in Items(barrier)
       PROVE  Work("object", o, 1) \in Items(m'.work) \cup Items(barrier')
  BY <1>1, <1>8, <1>11 DEF Moves, Progress, HasItem
<1>12. m'.overflow \/ IsEmpty(barrier')
  BY <1>1, <1>8 DEF Progress
<1> QED
  BY <1>6, <1>7, <1>9, <1>10, <1>11, <1>12 DEF Scanned

\* A step into "rescan" that has scanned everything there is.
LEMMA ScannedStep ==
  ASSUME IInv, Scanned, UNCHANGED <<program, marking, resume, doomed>>,
         todo' \subseteq todo, marking, store = NoStore, pc' = "rescan",
         pc = "recover" => todo = {}
  PROVE  IInv'
<1>1. TypeOK
  BY DEF IInv
<1>2. TypeOK'
  BY <1>1, TypeKept DEF Scanned, Progress, TypeOK
<1>3. MemorySound' /\ StoreSound' /\ NoDangling' /\ TriColour' /\ QueuedOnStack'
      /\ SentinelSound'
  BY CollectorStep DEF Scanned
<1>4. ScanSound'
  <2>1. m'.overflow \/ \A k \in Slot : Safe(mem[Root][k])' \/ Ahead(Root, k)'
    BY DEF Scanned, Kept, Safe, SafeIn, Ahead, AheadIn, program
  <2>2. m'.overflow \/ \A k \in Slot : Safe(mem[Stack][k])' \/ Ahead(Stack, k)'
    BY DEF Scanned, Kept, Safe, SafeIn, Ahead, AheadIn, program
  <2> QED
    BY <2>1, <2>2 DEF ScanSound, Scanned
<1>5. CycleSound'
  BY DEF CycleSound
<1> QED
  BY <1>2, <1>3, <1>4, <1>5 DEF IInv

LEMMA FinalScanInv == ASSUME IInv, FinalScan PROVE IInv'
<1>1. HeapOK /\ MarkerOK(m, Item) /\ SentinelIn(m) /\ BarrierOK
  BY InvFacts
<1>2. PICK more \in More :
        /\ m' = MarkStackMemory(MarkRoots(Flushed(m, more), more), more)
        /\ barrier' = BarrierLeft(m, more)
  BY DEF FinalScan
<1>3. more \in BOOLEAN /\ IsEmpty(m.work)
  BY DEF More, FinalScan
<1>4. Scanned
  BY <1>1, <1>2, <1>3, FlushAndScan
<1>5. store = NoStore /\ marking
  BY NoStoreFacts DEF FinalScan, IInv, CycleSound
<1> QED
  BY <1>4, <1>5, ScannedStep DEF FinalScan

LEMMA EndRecoveryInv == ASSUME IInv, EndRecovery PROVE IInv'
<1>1. HeapOK /\ MarkerOK(m, Item) /\ SentinelIn(m) /\ BarrierOK
  BY InvFacts
<1>2. store = NoStore /\ marking /\ TypeOK
  BY NoStoreFacts DEF EndRecovery, IInv, CycleSound
<1>3. /\ pc = "recover" /\ IsEmpty(m.work) /\ todo = {} /\ pc' = resume
      /\ UNCHANGED <<program, marking, resume, todo, doomed>>
  BY DEF EndRecovery
<1>4. CASE resume = "resweep" /\ UNCHANGED <<m, barrier>>
  <2>1. Progress(m, m') /\ BarrierOK' /\ MarkerOK(m', Item)
    BY <1>1, <1>4, NothingProgress DEF BarrierOK
  <2>2. TypeOK'
    BY <1>2, <1>3, <1>4, <2>1, TypeKept DEF TypeOK
  <2>3. MemorySound' /\ StoreSound' /\ NoDangling' /\ TriColour' /\ QueuedOnStack'
        /\ SentinelSound'
    BY <1>2, <1>3, <1>4, <2>1, CollectorStep
  <2>4. ScanSound' /\ CycleSound'
    BY <1>2, <1>3, <1>4 DEF IInv, ScanSound, CycleSound, Safe, Ahead, program
  <2> QED
    BY <2>2, <2>3, <2>4 DEF IInv
<1>5. CASE resume = "rescan"
  <2>1. PICK more \in More : /\ barrier' = BarrierLeft(m, more)
                             /\ m' = MarkStackMemory(Flushed(m, more), more)
    BY <1>5 DEF EndRecovery
  <2>2. more \in BOOLEAN
    BY DEF More
  <2>3. \A k \in Slot : Kept(m, Root, k)
    BY <1>3 DEF IInv, ScanSound, Safe, Ahead, Kept, SafeIn, AheadIn
  <2>4. Scanned
    BY <1>1, <1>3, <2>1, <2>2, <2>3, FlushAndScan
  <2> QED
    BY <1>2, <1>3, <1>5, <2>4, ScannedStep
<1>6. CASE resume = "drain"
  <2>1. PICK more \in More : /\ barrier' = BarrierLeft(m, more)
                             /\ m' = Flushed(m, more)
    BY <1>6 DEF EndRecovery
  <2>2. Moves(m', barrier')
    BY <1>1, <1>3, <2>1, FlushMoves DEF More
  <2>3. Progress(m, m') /\ BarrierOK' /\ MarkerOK(m', Item)
    BY <2>2 DEF Moves, BarrierOK, Progress
  <2>4. TypeOK'
    BY <1>2, <1>3, <1>6, <2>3, TypeKept DEF TypeOK
  <2>5. MemorySound' /\ StoreSound' /\ NoDangling' /\ TriColour' /\ QueuedOnStack'
        /\ SentinelSound'
    BY <1>2, <1>3, <1>6, <2>2, <2>3, CollectorStep DEF Moves
  <2>6. ScanSound' /\ CycleSound'
    BY <1>2, <1>3, <1>6 DEF ScanSound, CycleSound
  <2> QED
    BY <2>4, <2>5, <2>6 DEF IInv
<1> QED
  BY <1>2, <1>4, <1>5, <1>6 DEF EndRecovery, TypeOK

LEMMA BeginSweepInv == ASSUME IInv, BeginSweep PROVE IInv'
<1>1. HeapOK /\ MarkerOK(m, Item) /\ SentinelIn(m) /\ BarrierOK
  BY InvFacts
<1>2. store = NoStore /\ marking /\ TypeOK
  BY NoStoreFacts DEF BeginSweep, IInv, CycleSound
<1>3. /\ pc = "rescan" /\ IsEmpty(m.work) /\ ~m.overflow /\ pc' = "presweep"
      /\ barrier' = EmptyStack /\ m' = [m EXCEPT !.work = EmptyStack, !.sentinel = 0]
      /\ UNCHANGED <<program, marking, resume, todo, doomed>>
  BY DEF BeginSweep
<1>4. IsEmpty(barrier)
  BY <1>3 DEF IInv, ScanSound
<1>5. Items(m.work) = {} /\ Items(barrier) = {} /\ m.queued = {} /\ m.sentinel = 0
  <2>1. Items(m.work) = {} /\ Items(barrier) = {}
    BY <1>3, <1>4 DEF Items, IsEmpty
  <2>2. m.queued = {}
    BY <2>1 DEF IInv, QueuedOnStack
  <2>3. m.sentinel = 0
    BY <1>1, <1>3, MarkerFields DEF SentinelIn, Count, IsEmpty
  <2> QED
    BY <2>1, <2>2, <2>3
<1>6. /\ EmptyStack \in StackOver(Item)
      /\ \A limit \in Nat \ {0} : WellFormed(EmptyStack, limit)
      /\ IsEmpty(EmptyStack)
  <2>1. <<0>> \in Seq(Nat) /\ <<>> \in Seq(Item)
    OBVIOUS
  <2>2. EmptyStack \in StackOver(Item)
    BY <2>1 DEF EmptyStack, StackOver
  <2> QED
    BY <2>2 DEF EmptyStack, WellFormed, TopCount, Count, IsEmpty
<1>7. Reworks(m', EmptyStack) /\ BarrierOK'
  BY <1>1, <1>3, <1>5, <1>6, MarkAssumption DEF Reworks, BarrierOK, MarkerOK, MarkerOver
<1>8. Progress(m, m') /\ MarkerOK(m', Item) /\ m'.mark = m.mark
  <2>1. IsEmpty(m.work)
    BY <1>3
  <2>2. Progress(m, m') /\ m'.mark = m.mark
    BY <1>1, <1>7, <2>1, NewWork
  <2> QED
    BY <2>2, <1>7 DEF Reworks
<1>9. TypeOK'
  BY <1>2, <1>3, <1>7, <1>8, TypeKept DEF TypeOK
<1>10. MemorySound' /\ StoreSound' /\ NoDangling' /\ TriColour' /\ QueuedOnStack'
       /\ SentinelSound'
  BY <1>2, <1>3, <1>5, <1>7, <1>8, CollectorStep
<1>11. ScanSound'
  <2>1. \A k \in Slot : SafeIn(m, mem[Root][k]) /\ SafeIn(m, mem[Stack][k])
    BY <1>3, <1>5 DEF IInv, ScanSound, Safe, SafeIn, Ahead
  <2>2. \A k \in Slot : mem[Root][k] \in m'.mark \cup {Null}
                        /\ mem[Stack][k] \in m'.mark \cup {Null}
    BY <2>1, <1>5, <1>8 DEF SafeIn
  <2> QED
    BY <1>3, <1>6, <2>2 DEF ScanSound, Safe, program
<1>12. CycleSound'
  BY <1>2, <1>3 DEF CycleSound
<1> QED
  BY <1>9, <1>10, <1>11, <1>12 DEF IInv

-----------------------------------------------------------------------------
(* The program.                                                             *)

LEMMA InvParts ==
  ASSUME IInv
  PROVE  /\ shape \in Shapes /\ live \subseteq Obj \cup {Root} /\ weak \subseteq Obj
         /\ todo \subseteq Obj /\ doomed \subseteq Obj
         /\ mem \in [Memory -> [Slot -> Obj \cup {Null}]]
         /\ store[1] \in Obj \cup {Null} /\ store[2] \in Slot /\ store[3] \in Obj \cup {Null}
         /\ m.mark \subseteq Obj /\ m.queued \subseteq Obj
         /\ \A b \in Memory, k \in Slot : mem[b][k] \in Obj \cup {Null}
         /\ \A k \in Slot : k <= Parts(Stack)
         /\ OnStack \subseteq live \cap Obj
         /\ NoStore \in (Obj \cup {Null}) \X Slot \X (Obj \cup {Null})
<1>1. /\ shape \in Shapes /\ live \subseteq Obj \cup {Root} /\ weak \subseteq Obj
      /\ todo \subseteq Obj /\ doomed \subseteq Obj
      /\ mem \in [Memory -> [Slot -> Obj \cup {Null}]]
      /\ store \in (Obj \cup {Null}) \X Slot \X (Obj \cup {Null})
  BY DEF IInv, TypeOK
<1>2. m.mark \subseteq Obj /\ m.queued \subseteq Obj
  BY InvFacts, MarkerFields
<1>3. \A b \in Memory, k \in Slot : mem[b][k] \in Obj \cup {Null}
  BY <1>1
<1>4. \A k \in Slot : k <= Parts(Stack)
  BY <1>1, MarkAssumption DEF Parts
<1>5. OnStack \subseteq live \cap Obj
  BY <1>3 DEF IInv, NoDangling, OnStack, Held, Memory
<1>6. NoStore \in (Obj \cup {Null}) \X Slot \X (Obj \cup {Null})
  BY SlotFacts DEF NoStore
<1> QED
  BY <1>1, <1>2, <1>3, <1>4, <1>5, <1>6

LEMMA MemUpdate ==
  ASSUME mem \in [Memory -> [Slot -> Obj \cup {Null}]],
         NEW c \in Memory, NEW i \in Slot, NEW v \in Obj \cup {Null},
         mem' = [mem EXCEPT ![c][i] = v]
  PROVE  /\ mem' \in [Memory -> [Slot -> Obj \cup {Null}]]
         /\ \A b \in Memory, k \in Slot :
              mem'[b][k] = IF b = c /\ k = i THEN v ELSE mem[b][k]
OBVIOUS

\* The marker has not seen what is changed.
LEMMA UnseenStep ==
  ASSUME IInv, pc = "run", store' = NoStore, doomed' \subseteq Obj,
         UNCHANGED <<shape, marking, m, barrier, pc, resume, todo>>,
         live' \subseteq Obj \cup {Root}, weak' \subseteq Obj,
         mem' \in [Memory -> [Slot -> Obj \cup {Null}]],
         \A b \in m.mark, k \in Slot : mem'[b][k] = mem[b][k],
         MemorySound', NoDangling'
  PROVE  IInv'
<1>1. TypeOK'
  BY InvParts DEF IInv, TypeOK
<1>2. StoreSound'
  BY DEF StoreSound
<1>3. TriColour'
  <2>1. TriColour /\ pc # "recover"
    BY DEF IInv
  <2> QED
    BY <2>1 DEF TriColour, Safe, Ahead
<1>4. QueuedOnStack' /\ SentinelSound' /\ ScanSound' /\ CycleSound'
  BY DEF IInv, QueuedOnStack, SentinelSound, ScanSound, CycleSound
<1> QED
  BY <1>1, <1>2, <1>3, <1>4 DEF IInv

LEMMA WriteStep ==
  ASSUME IInv, pc = "run", store' = NoStore, doomed' \subseteq Obj,
         UNCHANGED <<shape, marking, m, barrier, pc, resume, todo>>,
         live \subseteq live', live' \subseteq Obj \cup {Root}, weak' \subseteq live' \cap Obj,
         NEW c \in Held, NEW i \in Slot, NEW v \in (live' \cap Obj) \cup {Null},
         c \notin m.mark, i <= Parts(c), mem' = [mem EXCEPT ![c][i] = v]
  PROVE  IInv'
<1>1. mem \in [Memory -> [Slot -> Obj \cup {Null}]] /\ c \in Memory
      /\ m.mark \subseteq Memory /\ live \subseteq Obj \cup {Root}
  BY InvParts DEF Held, Memory
<1>2. /\ mem' \in [Memory -> [Slot -> Obj \cup {Null}]]
      /\ \A b \in Memory, k \in Slot :
           mem'[b][k] = IF b = c /\ k = i THEN v ELSE mem[b][k]
  BY <1>1, MemUpdate
<1>3. \A b \in m.mark, k \in Slot : mem'[b][k] = mem[b][k]
  BY <1>1, <1>2
<1>4. MemorySound'
  <2> SUFFICES ASSUME NEW b \in Memory, NEW k \in Slot, b \notin Held' \/ Parts(b) < k
               PROVE  mem'[b][k] = Null
    BY DEF MemorySound, Parts
  <2>1. b \notin Held \/ Parts(b) < k
    BY DEF Held
  <2>2. mem[b][k] = Null
    BY <2>1 DEF IInv, MemorySound
  <2>3. ~(b = c /\ k = i)
    <3>1. Parts(b) \in Nat /\ k \in Nat /\ i \in Nat
      BY InvFacts, HeapFacts, SlotFacts
    <3> QED
      BY <2>1, <3>1
  <2> QED
    BY <1>2, <2>2, <2>3
<1>5. NoDangling'
  <2>1. ASSUME NEW b \in Held', NEW k \in Slot
        PROVE  mem'[b][k] \in live' \cup {Null}
    <3>1. b \in Memory
      BY DEF Held, Memory
    <3>2. mem[b][k] \in live \cup {Null}
      <4>1. CASE b \in Held
        BY <4>1 DEF IInv, NoDangling
      <4>2. CASE b \notin Held
        BY <3>1, <4>2 DEF IInv, MemorySound
      <4> QED
        BY <4>1, <4>2
    <3> QED
      BY <1>2, <3>1, <3>2
  <2> QED
    BY <2>1 DEF NoDangling
<1> QED
  BY <1>2, <1>3, <1>4, <1>5, UnseenStep

LEMMA LoadInv ==
  ASSUME IInv, NEW i \in Slot, NEW b \in Memory, NEW k \in Slot, Load(i, b, k)
  PROVE  IInv'
<1>1. b \in Held
  BY InvParts DEF Load, Named, Held
<1>2. mem[b][k] \in (live \cap Obj) \cup {Null}
  BY <1>1, InvParts DEF IInv, NoDangling
<1>3. Stack \in Held /\ Stack \notin m.mark /\ i <= Parts(Stack)
  BY InvParts, MarkAssumption DEF Held
<1> QED
  BY <1>2, <1>3, InvParts, WriteStep DEF Load, Running, IInv, NoDangling

LEMMA ForgetInv == ASSUME IInv, NEW i \in Slot, Forget(i) PROVE IInv'
<1>1. Stack \in Held /\ Stack \notin m.mark /\ i <= Parts(Stack)
  BY InvParts, MarkAssumption DEF Held
<1> QED
  BY <1>1, InvParts, WriteStep DEF Forget, Running, IInv, NoDangling

LEMMA StoreRootInv ==
  ASSUME IInv, NEW k \in Slot, NEW v \in Obj \cup {Null}, StoreRoot(k, v)
  PROVE  IInv'
<1>1. Root \in Held /\ Root \notin m.mark /\ k <= Parts(Root)
  BY InvParts, MarkAssumption DEF Held, StoreRoot
<1>2. v \in (live \cap Obj) \cup {Null}
  BY InvParts DEF StoreRoot
<1> QED
  BY <1>1, <1>2, InvParts, WriteStep DEF StoreRoot, Running, IInv, NoDangling

LEMMA EndStoreInv == ASSUME IInv, EndStore PROVE IInv'
<1>1. /\ pc = "run" /\ store[1] \in OnStack \ m.mark
      /\ store[2] <= Parts(store[1]) /\ store[3] \in OnStack \cup {Null}
  BY DEF EndStore, IInv, StoreSound
<1>2. store[1] \in Held /\ store[2] \in Slot /\ store[3] \in (live \cap Obj) \cup {Null}
  BY <1>1, InvParts DEF Held
<1> QED
  BY <1>1, <1>2, InvParts, WriteStep DEF EndStore, IInv, NoDangling

LEMMA AllocInv == ASSUME IInv, NEW o \in Obj, NEW i \in Slot, Alloc(o, i) PROVE IInv'
<1>1. Stack \in Held /\ Stack \notin m.mark /\ i <= Parts(Stack)
  BY InvParts, MarkAssumption DEF Held
<1>2. /\ live' = live \cup {o} /\ o \in (live' \cap Obj) \cup {Null}
      /\ live \subseteq live' /\ live' \subseteq Obj \cup {Root}
      /\ weak' \subseteq live' \cap Obj
  BY InvParts DEF Alloc, IInv, NoDangling
<1> QED
  BY <1>1, <1>2, InvParts, WriteStep DEF Alloc, Running

LEMMA ReadWeakInv == ASSUME IInv, NEW o \in Obj, NEW i \in Slot, ReadWeak(o, i) PROVE IInv'
<1>1. Stack \in Held /\ Stack \notin m.mark /\ i <= Parts(Stack)
  BY InvParts, MarkAssumption DEF Held
<1>2. o \in (live \cap Obj) \cup {Null} /\ weak \subseteq live \cap Obj
  BY InvParts DEF ReadWeak, IInv, NoDangling
<1>3. doomed' \subseteq Obj
  BY InvParts DEF ReadWeak, Revived
<1> QED
  BY <1>1, <1>2, <1>3, InvParts, WriteStep DEF ReadWeak, Running

LEMMA CreateRootInv == ASSUME IInv, CreateRoot PROVE IInv'
<1>1. /\ pc = "run" /\ store = NoStore /\ Root \notin live
      /\ live' = live \cup {Root}
      /\ UNCHANGED <<shape, mem, weak, store, marking, m, barrier, pc, resume, todo, doomed>>
  BY DEF CreateRoot, Running
<1>2. MemorySound'
  BY <1>1 DEF IInv, MemorySound, Held, Parts
<1>3. NoDangling'
  <2>1. \A k \in Slot : mem[Root][k] = Null
    BY <1>1, MarkAssumption DEF IInv, MemorySound, Held, Memory
  <2> QED
    BY <1>1, <2>1 DEF IInv, NoDangling, Held
<1> QED
  BY <1>1, <1>2, <1>3, InvParts, UnseenStep

\* What a trapped write does: an object that was black is gray again, and has
\* an item unless the flag is set.
Trapped(o) ==
  /\ MarkerOK(m', Item) /\ BarrierOK' /\ SentinelIn(m')
  /\ m'.mark = m.mark \ {o}
  /\ m'.overflow \/ (m.queued \subseteq m'.queued /\ (o \in m.mark => o \in m'.queued))
  /\ m.overflow => m'.overflow
  /\ Items(m.work) \subseteq Items(m'.work) /\ Items(barrier) \subseteq Items(barrier')
  /\ \A q \in m'.queued :
       q \in m.queued \/ Work("object", q, 1) \in Items(m'.work) \cup Items(barrier')
  /\ ~marking => m' = m /\ barrier' = barrier

LEMMA TrapWriteTraps ==
  ASSUME IInv, NEW o \in Obj, NEW more \in BOOLEAN, TrapWrite(o, more)
  PROVE  Trapped(o)
<1>1. MarkerOK(m, Item) /\ SentinelIn(m) /\ BarrierOK
  BY InvFacts
<1>2. CASE ~marking \/ o \notin m.mark
  <2>1. m' = m /\ barrier' = barrier
    BY <1>2 DEF TrapWrite
  <2>2. o \notin m.mark
    BY <1>2 DEF IInv, CycleSound
  <2> QED
    BY <1>1, <2>1, <2>2 DEF Trapped, BarrierOK
<1> DEFINE gray == [m EXCEPT !.mark = m.mark \ {o}, !.queued = m.queued \cup {o}]
           x == Work("object", o, 1)
<1>3. /\ MarkerOK(gray, Item) /\ gray.work = m.work /\ gray.mark = m.mark \ {o}
      /\ gray.queued = m.queued \cup {o} /\ gray.overflow = m.overflow
      /\ gray.sentinel = m.sentinel
  BY <1>1 DEF MarkerOK, MarkerOver
<1>4. x \in Item
  BY ItemFacts
<1>5. CASE marking /\ o \in m.mark /\ CanPush(barrier, BarrierSegSize, more)
  <2>1. m' = gray /\ barrier' = Push(barrier, x, BarrierSegSize)
    BY <1>5 DEF TrapWrite
  <2> HIDE DEF gray, x
  <2>2. BarrierSegSize \in Nat \ {0} /\ barrier \in StackOver(Item)
        /\ WellFormed(barrier, BarrierSegSize)
    BY <1>1, MarkAssumption DEF BarrierOK
  <2> DEFINE p == Push(barrier, x, BarrierSegSize)
  <2>3. /\ p \in StackOver(Item) /\ WellFormed(p, BarrierSegSize)
        /\ Len(p.items) = Len(barrier.items) + 1
        /\ \A i \in 1..Len(barrier.items) : p.items[i] = barrier.items[i]
        /\ p.items[Len(barrier.items) + 1] = x
    BY <1>4, <2>2, PushStack
  <2>4. barrier' = p
    BY <2>1
  <2> HIDE DEF p
  <2>5. Len(barrier.items) \in Nat
    BY <2>2 DEF StackOver
  <2>6. BarrierOK' /\ Items(barrier) \subseteq Items(barrier') /\ x \in Items(barrier')
    <3>1. Len(barrier.items) <= Len(p.items)
          /\ Len(barrier.items) + 1 \in 1..Len(p.items)
      BY <2>3, <2>5
    <3>2. Items(barrier) \subseteq Items(p)
      BY <2>2, <2>3, <3>1, ItemsKept
    <3> QED
      BY <2>3, <2>4, <3>1, <3>2 DEF BarrierOK, Items
  <2>7. SentinelIn(m')
    BY <1>1, <1>3, <2>1 DEF SentinelIn
  <2> QED
    BY <1>3, <1>5, <2>1, <2>6, <2>7 DEF Trapped, x
<1>6. CASE marking /\ o \in m.mark /\ ~CanPush(barrier, BarrierSegSize, more)
  <2>1. m' = PushObject(gray, o, more) /\ barrier' = barrier
    BY <1>6 DEF TrapWrite
  <2> HIDE DEF gray, x
  <2>2. Queues(gray, m', o, Item)
    BY <1>3, <2>1, PushObjectExtends
  <2>3. Len(gray.work.items) \in Nat /\ Len(m'.work.items) \in Nat
    BY <1>3, <2>2, MarkerFields DEF Queues
  <2>4. SentinelIn(m')
    <3>1. m.sentinel \in Nat
      BY <1>1, MarkerFields
    <3> QED
      BY <1>1, <1>3, <2>2, <2>3, <3>1 DEF SentinelIn, Queues, Count
  <2>5. Items(m.work) \subseteq Items(m'.work)
    BY <1>3, <2>2, MarkerFields, ItemsKept DEF Queues
  <2>6. m'.overflow \/ (m.queued \subseteq m'.queued /\ o \in m'.queued)
    BY <1>3, <2>2 DEF Queues
  <2>7. \A q \in m'.queued : q \in m.queued \/ Work("object", q, 1) \in Items(m'.work)
    BY <1>3, <2>2 DEF Queues
  <2> QED
    BY <1>1, <1>3, <1>6, <2>1, <2>2, <2>4, <2>5, <2>6, <2>7 DEF Trapped, Queues, BarrierOK
<1> QED
  BY <1>2, <1>5, <1>6

LEMMA BeginStoreInv ==
  ASSUME IInv, NEW o \in Obj, NEW k \in Slot, NEW v \in Obj \cup {Null}, BeginStore(o, k, v)
  PROVE  IInv'
<1>1. PICK more \in More : TrapWrite(o, more)
  BY DEF BeginStore
<1>2. Trapped(o)
  BY <1>1, TrapWriteTraps DEF More
<1>3. /\ pc = "run" /\ o \in OnStack /\ v \in OnStack \cup {Null} /\ k <= Parts(o)
      /\ store' = <<o, k, v>>
      /\ UNCHANGED <<shape, live, mem, weak, marking, pc, resume, todo, doomed>>
  BY DEF BeginStore, Running
<1>4. TypeOK'
  <2>1. TypeOK
    BY DEF IInv
  <2>2. m' \in Marker /\ WellFormed(m'.work, SegSize)
    BY <1>2 DEF Trapped, MarkerOK, Marker, MarkerOver, SegmentedStack, StackOver
  <2>3. barrier' \in SegmentedStack /\ WellFormed(barrier', BarrierSegSize)
    BY <1>2 DEF Trapped, BarrierOK, SegmentedStack, StackOver
  <2> QED
    BY <1>3, <2>1, <2>2, <2>3 DEF TypeOK
<1>5. MemorySound'
  BY <1>3 DEF IInv, MemorySound, Held, Memory, Parts
<1>6. StoreSound'
  BY <1>2, <1>3 DEF StoreSound, Trapped, OnStack, Parts
<1>7. NoDangling'
  <2>1. o \in live /\ v \in live \cup {Null}
    BY <1>3, InvParts
  <2> QED
    BY <1>3, <2>1 DEF IInv, NoDangling, Held
<1>8. TriColour'
  <2> SUFFICES ASSUME ~m'.overflow, NEW b \in m'.mark, NEW j \in Slot
               PROVE  SafeIn(m', mem[b][j]) \/ AheadIn(m', b, j)
    BY <1>3 DEF TriColour, Safe, SafeIn, Ahead, AheadIn
  <2>1. SafeIn(m, mem[b][j]) \/ AheadIn(m, b, j)
    BY <1>2, <1>3 DEF IInv, TriColour, Safe, SafeIn, Ahead, AheadIn, Trapped
  <2>2. SafeIn(m, mem[b][j]) => SafeIn(m', mem[b][j])
    BY <1>2 DEF SafeIn, Trapped
  <2>3. AheadIn(m, b, j) => AheadIn(m', b, j)
    BY <1>2 DEF AheadIn, Trapped
  <2> QED
    BY <2>1, <2>2, <2>3
<1>9. QueuedOnStack'
  BY <1>2 DEF IInv, QueuedOnStack, Trapped
<1>10. SentinelSound'
  BY <1>2 DEF Trapped, SentinelIn, SentinelSound
<1>11. ScanSound' /\ CycleSound'
  BY <1>2, <1>3 DEF IInv, ScanSound, CycleSound, Trapped
<1> QED
  BY <1>4, <1>5, <1>6, <1>7, <1>8, <1>9, <1>10, <1>11 DEF IInv

LEMMA FreeInv == ASSUME IInv, NEW o \in Obj, Free(o) PROVE IInv'
<1>1. /\ pc = "run" /\ RefersTo(o) \subseteq (IF store = NoStore THEN {Stack} ELSE {})
      /\ live' \subseteq live /\ live \ {o} \subseteq live'
      /\ mem' = [b \in Memory |-> IF b = o THEN Cleared
                  ELSE [k \in Slot |-> IF mem[b][k] = o THEN Null ELSE mem[b][k]]]
      /\ weak' = weak \ {o} /\ doomed' = doomed \ {o}
      /\ UNCHANGED <<shape, store, marking, barrier, pc, resume, todo>>
  BY DEF Free
<1>2. /\ m'.mark \subseteq m.mark /\ m.mark \ {o} \subseteq m'.mark
      /\ m'.queued = m.queued /\ m'.work = m.work /\ m'.overflow = m.overflow
      /\ m'.sentinel = m.sentinel /\ MarkerOK(m', Item)
      /\ ~marking => m'.mark = m.mark \ {o}
  <2>1. MarkerOK(m, Item)
    BY InvFacts
  <2>2. m' = m \/ m' = [m EXCEPT !.mark = m.mark \ {o}, !.prot = m.prot \ {o}]
    BY DEF Free
  <2>3. ~marking => m' = [m EXCEPT !.mark = m.mark \ {o}, !.prot = m.prot \ {o}]
    BY DEF Free
  <2> QED
    BY <2>1, <2>2, <2>3 DEF MarkerOK, MarkerOver
<1>3. /\ \A k \in Slot : mem'[o][k] = Null
      /\ \A b \in Memory, k \in Slot :
           mem'[b][k] = Null \/ (mem'[b][k] = mem[b][k] /\ mem[b][k] # o)
      /\ mem' \in [Memory -> [Slot -> Obj \cup {Null}]]
  <2>1. o \in Memory
    BY DEF Memory
  <2>2. \A b \in Memory : mem'[b] = IF b = o THEN Cleared
                  ELSE [k \in Slot |-> IF mem[b][k] = o THEN Null ELSE mem[b][k]]
    BY <1>1
  <2>3. \A k \in Slot : mem'[o][k] = Null
    BY <2>1, <2>2 DEF Cleared
  <2>4. ASSUME NEW b \in Memory
        PROVE  /\ \A k \in Slot : mem'[b][k] = Null \/ (mem'[b][k] = mem[b][k] /\ mem[b][k] # o)
               /\ mem'[b] \in [Slot -> Obj \cup {Null}]
    <3>1. CASE b = o
      BY <2>2, <2>3, <3>1 DEF Cleared
    <3>2. CASE b # o
      <4>1. mem'[b] = [k \in Slot |-> IF mem[b][k] = o THEN Null ELSE mem[b][k]]
        BY <2>2, <3>2
      <4>2. \A k \in Slot : mem[b][k] \in Obj \cup {Null}
        BY InvParts
      <4> QED
        BY <4>1, <4>2
    <3> QED
      BY <3>1, <3>2
  <2>5. mem' \in [Memory -> [Slot -> Obj \cup {Null}]]
    BY <1>1, <2>2, <2>4
  <2> QED
    BY <2>3, <2>4, <2>5
<1>4. TypeOK'
  <2>1. m' \in Marker /\ WellFormed(m'.work, SegSize)
    BY <1>2 DEF MarkerOK, Marker, MarkerOver, SegmentedStack, StackOver
  <2> QED
    BY <1>1, <1>3, <2>1 DEF IInv, TypeOK
<1>5. MemorySound'
  <2> SUFFICES ASSUME NEW b \in Memory, NEW k \in Slot, b \notin Held' \/ Parts(b) < k
               PROVE  mem'[b][k] = Null
    BY <1>1 DEF MemorySound, Parts
  <2>1. b = o \/ b \notin Held \/ Parts(b) < k
    BY <1>1 DEF Held
  <2>2. CASE b = o
    BY <1>3, <2>2
  <2>3. CASE b \notin Held \/ Parts(b) < k
    BY <1>3, <2>3 DEF IInv, MemorySound
  <2> QED
    BY <2>1, <2>2, <2>3
<1>6. ASSUME store # NoStore
      PROVE  /\ store[1] # o /\ store[3] # o
             /\ \A k \in Slot : mem'[Stack][k] = mem[Stack][k]
  <2>1. Stack \notin RefersTo(o) /\ Stack \in Held /\ Stack \in Memory
    BY <1>1, <1>6 DEF Held, Memory
  <2>2. \A k \in Slot : mem[Stack][k] # o
    BY <2>1 DEF RefersTo
  <2>3. store[1] # o /\ store[3] # o
    BY <1>6, <2>2, MarkAssumption DEF IInv, StoreSound, OnStack
  <2>4. \A k \in Slot : mem'[Stack][k] = mem[Stack][k]
    BY <1>1, <2>1, <2>2, MarkAssumption
  <2> QED
    BY <2>3, <2>4
<1>7. StoreSound'
  <2>1. store # NoStore => OnStack' = OnStack
    BY <1>6 DEF OnStack
  <2> QED
    BY <1>1, <1>2, <2>1 DEF IInv, StoreSound, Parts
<1>8. NoDangling'
  <2>1. ASSUME NEW b \in Held', NEW k \in Slot PROVE mem'[b][k] \in live' \cup {Null}
    <3>1. b \in Held /\ b \in Memory
      BY <1>1, InvParts DEF Held, Memory
    <3> QED
      BY <1>1, <1>3, <3>1 DEF IInv, NoDangling
  <2>2. weak' \subseteq live'
    BY <1>1 DEF IInv, NoDangling
  <2>3. store' # NoStore => store'[1] \in live' /\ store'[3] \in live' \cup {Null}
    BY <1>1, <1>6 DEF IInv, NoDangling
  <2> QED
    BY <2>1, <2>2, <2>3 DEF NoDangling
<1>9. TriColour'
  <2> SUFFICES ASSUME ~m.overflow, NEW b \in m'.mark, NEW k \in Slot
               PROVE  SafeIn(m', mem'[b][k]) \/ AheadIn(m, b, k)
    BY <1>2 DEF TriColour, Safe, SafeIn, Ahead, AheadIn
  <2>1. b \in m.mark /\ b \in Memory
    BY <1>2, InvParts DEF Memory
  <2>2. SafeIn(m, mem[b][k]) \/ AheadIn(m, b, k)
    BY <1>1, <2>1 DEF IInv, TriColour, Safe, SafeIn, Ahead, AheadIn
  <2> QED
    BY <1>2, <1>3, <2>1, <2>2 DEF SafeIn
<1>10. QueuedOnStack' /\ SentinelSound'
  BY <1>1, <1>2 DEF IInv, QueuedOnStack, SentinelSound
<1>11. ScanSound' /\ CycleSound'
  BY <1>1, <1>2 DEF IInv, ScanSound, CycleSound
<1> QED
  BY <1>4, <1>5, <1>7, <1>8, <1>9, <1>10, <1>11 DEF IInv

LEMMA DestroyRootInv == ASSUME IInv, DestroyRoot PROVE IInv'
<1>1. HeapOK /\ MarkerOK(m, Item) /\ SentinelIn(m) /\ BarrierOK
  BY InvFacts
<1>2. /\ pc = "run" /\ store = NoStore /\ live' = live \ {Root}
      /\ mem' = [mem EXCEPT ![Root] = Cleared] /\ m' = SetSentinel(m, 0)
      /\ UNCHANGED <<shape, weak, store, marking, barrier, pc, resume, todo, doomed>>
  BY DEF DestroyRoot, Running
<1>3. Progress(m, m') /\ m'.mark = m.mark
  BY <1>1, <1>2, SetSentinelProgress
<1>4. SetsSentinel(m, m', 0)
  BY <1>1, <1>2, SetSentinelEffect
<1>5. /\ \A b \in Memory \ {Root} : mem'[b] = mem[b]
      /\ \A k \in Slot : mem'[Root][k] = Null
      /\ mem' \in [Memory -> [Slot -> Obj \cup {Null}]]
  <2>1. Root \in Memory /\ Cleared \in [Slot -> Obj \cup {Null}]
    BY DEF Memory, Cleared
  <2>2. \A k \in Slot : Cleared[k] = Null
    BY DEF Cleared
  <2> QED
    BY <1>2, <2>1, <2>2, InvParts
<1>6. Obj \subseteq Memory \ {Root} /\ Stack \in Memory \ {Root}
  BY MarkAssumption DEF Memory
<1>7. TypeOK'
  <2>1. m' \in Marker /\ WellFormed(m'.work, SegSize)
    BY <1>3 DEF Progress, MarkerOK, Marker, MarkerOver, SegmentedStack, StackOver
  <2> QED
    BY <1>2, <1>5, <2>1 DEF IInv, TypeOK
<1>8. MemorySound'
  <2> SUFFICES ASSUME NEW b \in Memory, NEW k \in Slot, b \notin Held' \/ Parts(b) < k
               PROVE  mem'[b][k] = Null
    BY <1>2 DEF MemorySound, Parts
  <2>1. b = Root \/ b \notin Held \/ Parts(b) < k
    BY <1>2 DEF Held
  <2> QED
    BY <1>5, <2>1 DEF IInv, MemorySound
<1>9. StoreSound'
  BY <1>2 DEF StoreSound
<1>10. NoDangling'
  <2>1. ASSUME NEW b \in Held', NEW k \in Slot PROVE mem'[b][k] \in live' \cup {Null}
    <3>1. b \in Held /\ b \in Memory \ {Root}
      BY <1>2, <1>6, InvParts DEF Held, Memory
    <3>2. mem[b][k] \in (live \ {Root}) \cup {Null}
      BY <3>1, InvParts, MarkAssumption DEF IInv, NoDangling
    <3> QED
      BY <1>2, <1>5, <3>1, <3>2
  <2>2. weak \subseteq live'
    BY <1>2, InvParts, MarkAssumption DEF IInv, NoDangling
  <2> QED
    BY <1>2, <2>1, <2>2 DEF NoDangling
<1>11. TriColour'
  <2> SUFFICES ASSUME ~m'.overflow, NEW b \in m.mark, NEW k \in Slot
               PROVE  SafeIn(m', mem[b][k]) \/ AheadIn(m', b, k)
    <3>1. \A b \in m.mark : mem'[b] = mem[b]
      BY <1>5, <1>6, InvParts
    <3> QED
      BY <1>3, <3>1 DEF TriColour, Safe, SafeIn, Ahead, AheadIn
  <2>1. b \in Memory \ {Root}
    BY <1>6, InvParts
  <2>2. SafeIn(m, mem[b][k]) \/ AheadIn(m, b, k)
    BY <1>2, <1>3 DEF IInv, TriColour, Safe, SafeIn, Ahead, AheadIn, Progress
  <2> QED
    BY <1>3, <2>1, <2>2 DEF Progress, Kept, SafeIn
<1>12. QueuedOnStack'
  <2> SUFFICES ASSUME NEW q \in m.queued
               PROVE  Work("object", q, 1) \in Items(m'.work) \cup Items(barrier)
    BY <1>2, <1>4 DEF QueuedOnStack, SetsSentinel
  <2> QED
    BY <1>3, <1>4 DEF IInv, QueuedOnStack, Progress, HasItem, SetsSentinel
<1>13. SentinelSound'
  BY <1>3 DEF Progress, SentinelIn, SentinelSound
<1>14. ScanSound'
  BY <1>2 DEF ScanSound
<1>15. CycleSound'
  <2>1. ASSUME ~marking PROVE IsEmpty(m'.work)
    <3>1. Len(m.work.items) = 0
      BY <2>1 DEF IInv, CycleSound, IsEmpty
    <3>2. Len(m'.work.items) = 0 /\ m'.work.items \in Seq(Item)
      BY <1>4, <3>1, MarkerFields DEF SetsSentinel
    <3> QED
      BY <3>2 DEF IsEmpty
  <2> QED
    BY <1>2, <1>4, <2>1 DEF IInv, CycleSound, SetsSentinel
<1> QED
  BY <1>7, <1>8, <1>9, <1>10, <1>11, <1>12, <1>13, <1>14, <1>15 DEF IInv

-----------------------------------------------------------------------------
(* Presweep callbacks and the sweep.                                        *)

\* A callback's store of o, which is safe or sets the flag.
LEMMA PresweepStep ==
  ASSUME IInv, NEW o \in Obj, NEW b \in Memory, NEW k \in Slot, PresweepStore(o, b, k),
         UNCHANGED <<shape, store, marking, barrier, pc, resume, todo>>,
         doomed' \subseteq Obj, weak' = weak,
         live \subseteq live', live' \subseteq live \cup {o}, o \in live',
         MarkerOK(m', Item), SentinelIn(m'), m.mark \subseteq m'.mark,
         m'.mark \subseteq m.mark \cup {o},
         o \in m'.mark \ m.mark => \A j \in Slot : mem[o][j] = Null,
         m.overflow => m'.overflow,
         m'.overflow \/ (m.queued \cup {o} \subseteq m'.mark \cup m'.queued),
         Items(m.work) \subseteq Items(m'.work),
         \A q \in m'.queued : q \in m.queued \/ HasItem(m', q)
  PROVE  IInv'
<1>1. /\ pc = "presweep" /\ b \in live /\ k <= Parts(b)
      /\ mem' = [mem EXCEPT ![b][k] = o]
  BY DEF PresweepStore
<1>2. store = NoStore /\ marking
  BY <1>1, NoStoreFacts DEF IInv, CycleSound
<1>3. /\ mem' \in [Memory -> [Slot -> Obj \cup {Null}]]
      /\ \A c \in Memory, j \in Slot :
           mem'[c][j] = IF c = b /\ j = k THEN o ELSE mem[c][j]
  <2>1. mem \in [Memory -> [Slot -> Obj \cup {Null}]] /\ o \in Obj \cup {Null}
    BY InvParts
  <2> QED
    BY <1>1, <2>1, MemUpdate
<1>4. b # Stack /\ Stack \in Memory
  BY <1>1, InvParts, MarkAssumption DEF Memory
<1>5. TypeOK'
  <2>1. m' \in Marker /\ WellFormed(m'.work, SegSize)
    BY DEF MarkerOK, Marker, MarkerOver, SegmentedStack, StackOver
  <2> QED
    BY <1>3, <2>1, InvParts DEF IInv, TypeOK
<1>6. MemorySound'
  <2> SUFFICES ASSUME NEW c \in Memory, NEW j \in Slot, c \notin Held' \/ Parts(c) < j
               PROVE  mem'[c][j] = Null
    BY DEF MemorySound, Parts
  <2>1. c \notin Held \/ Parts(c) < j
    BY DEF Held
  <2>2. ~(c = b /\ j = k)
    <3>1. Parts(c) \in Nat /\ j \in Nat /\ k \in Nat
      BY InvFacts, HeapFacts, SlotFacts
    <3> QED
      BY <1>1, <2>1, <3>1 DEF Held
  <2> QED
    BY <1>3, <2>1, <2>2 DEF IInv, MemorySound
<1>7. StoreSound'
  BY <1>2 DEF StoreSound
<1>8. NoDangling'
  <2>1. ASSUME NEW c \in Held', NEW j \in Slot PROVE mem'[c][j] \in live' \cup {Null}
    <3>1. c \in Memory
      BY InvParts DEF Held, Memory
    <3>2. mem[c][j] \in live \cup {Null}
      <4>1. CASE c \in Held
        BY <4>1 DEF IInv, NoDangling
      <4>2. CASE c \notin Held
        BY <3>1, <4>2 DEF IInv, MemorySound
      <4> QED
        BY <4>1, <4>2
    <3> QED
      BY <1>3, <3>1, <3>2
  <2>2. weak' \subseteq live'
    BY DEF IInv, NoDangling
  <2> QED
    BY <1>2, <2>1, <2>2 DEF NoDangling
<1>9. ASSUME ~m'.overflow, NEW c \in Memory, NEW j \in Slot
      PROVE  SafeIn(m, mem[c][j]) \/ AheadIn(m, c, j)
             => SafeIn(m', mem'[c][j]) \/ AheadIn(m', c, j)
  <2>1. SafeIn(m', o)
    BY <1>9 DEF SafeIn
  <2>2. SafeIn(m, mem[c][j]) => SafeIn(m', mem[c][j])
    BY <1>9 DEF SafeIn
  <2>3. AheadIn(m, c, j) => AheadIn(m', c, j)
    BY DEF AheadIn
  <2> QED
    BY <1>3, <2>1, <2>2, <2>3
<1>10. TriColour'
  <2> SUFFICES ASSUME ~m'.overflow, NEW c \in m'.mark, NEW j \in Slot
               PROVE  SafeIn(m', mem'[c][j]) \/ AheadIn(m', c, j)
    BY DEF TriColour, Safe, SafeIn, Ahead, AheadIn
  <2>1. c \in Memory
    BY MarkerFields DEF Memory
  <2>2. SafeIn(m, mem[c][j]) \/ AheadIn(m, c, j)
    <3>1. CASE c \in m.mark
      BY <1>1, <3>1 DEF IInv, TriColour, Safe, SafeIn, Ahead, AheadIn
    <3>2. CASE c \notin m.mark
      BY <3>2 DEF SafeIn
    <3> QED
      BY <3>1, <3>2
  <2> QED
    BY <1>9, <2>1, <2>2
<1>11. QueuedOnStack'
  BY DEF IInv, QueuedOnStack, HasItem
<1>12. SentinelSound'
  BY DEF SentinelIn, SentinelSound
<1>13. ScanSound'
  <2>1. m'.overflow \/ \A j \in Slot : SafeIn(m', mem'[Root][j]) \/ AheadIn(m', Root, j)
    BY <1>1, <1>9 DEF IInv, ScanSound, Safe, SafeIn, Ahead, AheadIn, Memory
  <2>2. \A j \in Slot : mem'[Stack][j] \in m'.mark \cup {Null}
    BY <1>1, <1>3, <1>4 DEF IInv, ScanSound
  <2>3. IsEmpty(barrier')
    BY <1>1 DEF IInv, ScanSound
  <2> QED
    BY <1>1, <2>1, <2>2, <2>3 DEF ScanSound, Safe, SafeIn, Ahead, AheadIn
<1>14. CycleSound'
  BY <1>2 DEF CycleSound
<1> QED
  BY <1>5, <1>6, <1>7, <1>8, <1>10, <1>11, <1>12, <1>13, <1>14 DEF IInv

LEMMA PresweepReadWeakInv ==
  ASSUME IInv, NEW o \in Obj, NEW b \in Memory, NEW k \in Slot, PresweepReadWeak(o, b, k)
  PROVE  IInv'
<1>1. MarkerOK(m, Item) /\ SentinelIn(m)
  BY InvFacts
<1>2. /\ PresweepStore(o, b, k) /\ o \in live
      /\ UNCHANGED <<shape, live, weak, store, marking, barrier, pc, resume, todo>>
  BY DEF PresweepReadWeak, IInv, NoDangling
<1>3. doomed' \subseteq Obj
  BY InvParts DEF PresweepReadWeak, Revived
<1>4. CASE m' = m /\ o \in m.mark
  BY <1>1, <1>2, <1>3, <1>4, PresweepStep
<1>5. CASE \E more \in More : m' = PushObject(m, o, more)
  <2>1. Queues(m, m', o, Item)
    BY <1>1, <1>5, PushObjectExtends DEF More
  <2>2. MarkerOK(m', Item) /\ m'.mark = m.mark /\ (m.overflow => m'.overflow)
        /\ (m'.overflow \/ (m.queued \cup {o} \subseteq m'.mark \cup m'.queued))
    BY <2>1 DEF Queues
  <2>3. Items(m.work) \subseteq Items(m'.work)
    <3>1. m.work \in StackOver(Item) /\ m'.work \in StackOver(Item)
      BY <1>1, <2>2, MarkerFields
    <3> QED
      BY <2>1, <3>1, ItemsKept DEF Queues
  <2>4. \A q \in m'.queued : q \in m.queued \/ HasItem(m', q)
    BY <2>1 DEF Queues, HasItem
  <2>5. SentinelIn(m')
    <3>1. m.sentinel \in Nat /\ Len(m.work.items) \in Nat /\ Len(m'.work.items) \in Nat
      BY <1>1, <2>2, MarkerFields
    <3> QED
      BY <1>1, <2>1, <3>1 DEF SentinelIn, Queues, Count
  <2> QED
    BY <1>2, <1>3, <2>2, <2>3, <2>4, <2>5, PresweepStep
<1> QED
  BY <1>4, <1>5 DEF PresweepReadWeak

LEMMA PresweepAllocInv ==
  ASSUME IInv, NEW o \in Obj, NEW b \in Memory, NEW k \in Slot, PresweepAlloc(o, b, k)
  PROVE  IInv'
<1>1. MarkerOK(m, Item) /\ SentinelIn(m)
  BY InvFacts
<1>2. /\ PresweepStore(o, b, k) /\ o \notin live /\ live' = live \cup {o} /\ m' = SetMark(m, o)
      /\ UNCHANGED <<shape, weak, store, marking, barrier, pc, resume, todo, doomed>>
  BY DEF PresweepAlloc
<1>3. /\ MarkerOK(m', Item) /\ m'.mark = m.mark \cup {o} /\ m'.queued = m.queued \ {o}
      /\ m'.work = m.work /\ m'.overflow = m.overflow /\ m'.sentinel = m.sentinel
  BY <1>1, <1>2 DEF SetMark, MarkerOK, MarkerOver
<1>4. SentinelIn(m')
  BY <1>1, <1>3 DEF SentinelIn
<1>5. \A j \in Slot : mem[o][j] = Null
  <2>1. o \in Memory /\ o \notin Held
    BY <1>2, MarkAssumption DEF Memory, Held
  <2> QED
    BY <2>1 DEF IInv, MemorySound
<1> QED
  BY <1>2, <1>3, <1>4, <1>5, InvParts, PresweepStep

\* Nothing is queued, so that every reference of what stays is marked.
LEMMA SweepInv == ASSUME IInv, Sweep PROVE IInv'
<1>1. /\ pc = "resweep" /\ IsEmpty(m.work) /\ ~m.overflow
      /\ live' = live \cap (m.mark \cup {Root})
      /\ mem' = [b \in Memory |-> IF b \in Objects \ m.mark THEN Cleared ELSE mem[b]]
      /\ weak' = weak \cap m.mark
      /\ m' = [m EXCEPT !.mark = {}, !.prot = @ \cap m.mark]
      /\ marking' = FALSE /\ pc' = "run" /\ doomed' = {}
      /\ UNCHANGED <<shape, store, barrier, resume, todo>>
  BY DEF Sweep
<1>2. store = NoStore /\ IsEmpty(barrier)
  BY <1>1, NoStoreFacts DEF IInv, ScanSound
<1>3. MarkerOK(m, Item)
  BY InvFacts
<1>4. /\ MarkerOK(m', Item) /\ m'.mark = {} /\ m'.queued = m.queued /\ m'.work = m.work
      /\ m'.overflow = m.overflow /\ m'.sentinel = m.sentinel
  BY <1>1, <1>3 DEF MarkerOK, MarkerOver
<1>5. Items(m.work) = {} /\ m.queued = {}
  <2>1. Items(m.work) = {} /\ Items(barrier) = {}
    BY <1>1, <1>2 DEF Items, IsEmpty
  <2> QED
    BY <2>1 DEF IInv, QueuedOnStack
<1>6. \A b \in Memory : mem'[b] = IF b \in Objects \ m.mark THEN Cleared ELSE mem[b]
  BY <1>1
<1>7. mem' \in [Memory -> [Slot -> Obj \cup {Null}]]
  <2>1. Cleared \in [Slot -> Obj \cup {Null}]
    BY DEF Cleared
  <2>2. \A b \in Memory : mem'[b] \in [Slot -> Obj \cup {Null}]
    BY <1>6, <2>1, InvParts
  <2> QED
    BY <1>1, <2>2
<1>8. TypeOK'
  <2>1. m' \in Marker /\ WellFormed(m'.work, SegSize)
    BY <1>4 DEF MarkerOK, Marker, MarkerOver, SegmentedStack, StackOver
  <2> QED
    BY <1>1, <1>7, <2>1 DEF IInv, TypeOK
<1>9. \A k \in Slot : Cleared[k] = Null
  BY DEF Cleared
<1>10. MemorySound'
  <2> SUFFICES ASSUME NEW b \in Memory, NEW k \in Slot, b \notin Held' \/ Parts(b) < k
               PROVE  mem'[b][k] = Null
    BY <1>1 DEF MemorySound, Parts
  <2>1. CASE b \in Objects \ m.mark
    BY <1>6, <1>9, <2>1
  <2>2. CASE b \notin Objects \ m.mark
    <3>1. b \notin Held \/ Parts(b) < k
      BY <1>1, <2>2, InvParts DEF Held, Objects
    <3> QED
      BY <1>6, <2>2, <3>1 DEF IInv, MemorySound
  <2> QED
    BY <2>1, <2>2
<1>11. StoreSound'
  BY <1>1, <1>2 DEF StoreSound
<1>12. NoDangling'
  <2>1. ASSUME NEW b \in Held', NEW k \in Slot PROVE mem'[b][k] \in live' \cup {Null}
    <3>1. b \in Held /\ b \in Memory /\ (b \in m.mark \/ b = Root \/ b = Stack)
      BY <1>1, InvParts DEF Held, Memory
    <3>2. mem'[b][k] = mem[b][k]
      BY <1>6, <3>1, InvParts, MarkAssumption DEF Objects
    <3>3. mem[b][k] \in m.mark \cup {Null}
      <4>1. CASE b \in m.mark
        BY <1>1, <1>5, <4>1 DEF IInv, TriColour, Safe, Ahead
      <4>2. CASE b = Root
        BY <1>1, <1>5, <4>2 DEF IInv, ScanSound, Safe, Ahead
      <4>3. CASE b = Stack
        BY <1>1, <4>3 DEF IInv, ScanSound
      <4> QED
        BY <3>1, <4>1, <4>2, <4>3
    <3>4. mem[b][k] \in live \cup {Null}
      BY <3>1 DEF IInv, NoDangling
    <3> QED
      BY <1>1, <3>2, <3>3, <3>4
  <2>2. weak' \subseteq live'
    BY <1>1 DEF IInv, NoDangling
  <2> QED
    BY <1>1, <1>2, <2>1, <2>2 DEF NoDangling
<1>13. TriColour' /\ QueuedOnStack'
  BY <1>4, <1>5 DEF TriColour, QueuedOnStack
<1>14. SentinelSound'
  BY <1>1, <1>4 DEF IInv, SentinelSound
<1>15. ScanSound' /\ CycleSound'
  BY <1>1, <1>2, <1>4 DEF ScanSound, CycleSound
<1> QED
  BY <1>8, <1>10, <1>11, <1>12, <1>13, <1>14, <1>15 DEF IInv

-----------------------------------------------------------------------------
(* The theorems.                                                            *)

LEMMA InitInv == Init => IInv
<1> SUFFICES ASSUME Init PROVE IInv
  OBVIOUS
<1>1. /\ EmptyStack \in SegmentedStack
      /\ \A limit \in Nat \ {0} : WellFormed(EmptyStack, limit)
      /\ IsEmpty(EmptyStack) /\ Items(EmptyStack) = {}
  <2>1. <<0>> \in Seq(Nat) /\ <<>> \in Seq(Item)
    OBVIOUS
  <2>2. EmptyStack \in SegmentedStack
    BY <2>1 DEF EmptyStack, SegmentedStack
  <2> QED
    BY <2>2 DEF EmptyStack, WellFormed, TopCount, Count, IsEmpty, Items
<1>2. Cleared \in [Slot -> Obj \cup {Null}] /\ \A k \in Slot : Cleared[k] = Null
  BY DEF Cleared
<1>3. /\ mem \in [Memory -> [Slot -> Obj \cup {Null}]]
      /\ \A b \in Memory, k \in Slot : mem[b][k] = Null
  BY <1>2 DEF Init
<1>4. /\ shape \in Shapes /\ live = {Root} /\ weak = {} /\ store = NoStore /\ marking = FALSE
      /\ barrier = EmptyStack /\ pc = "run" /\ resume = "drain" /\ todo = {} /\ doomed = {}
      /\ m \in Marker /\ m.work = EmptyStack /\ m.mark = {} /\ m.queued = {}
      /\ m.overflow = FALSE /\ m.sentinel = 0
  BY <1>1 DEF Init, Marker
<1>5. TypeOK
  <2>1. store \in (Obj \cup {Null}) \X Slot \X (Obj \cup {Null})
    BY <1>4, SlotFacts DEF NoStore
  <2> QED
    BY <1>1, <1>3, <1>4, <2>1, MarkAssumption DEF TypeOK
<1>6. MemorySound /\ StoreSound /\ NoDangling
  <2>1. \A b \in Held : b \in Memory
    BY <1>4 DEF Held, Memory
  <2> QED
    BY <1>3, <1>4, <2>1 DEF MemorySound, StoreSound, NoDangling
<1>7. TriColour /\ QueuedOnStack /\ SentinelSound /\ ScanSound /\ CycleSound
  BY <1>1, <1>4 DEF TriColour, QueuedOnStack, SentinelSound, ScanSound, CycleSound
<1> QED
  BY <1>5, <1>6, <1>7 DEF IInv

LEMMA ProgramInv == ASSUME IInv, Program PROVE IInv'
<1>1. CASE \E i, k \in Slot, b \in Memory : Load(i, b, k)
  BY <1>1, LoadInv
<1>2. CASE \E i \in Slot : Forget(i)
  BY <1>2, ForgetInv
<1>3. CASE \E o \in Obj, k \in Slot, v \in Obj \cup {Null} : BeginStore(o, k, v)
  BY <1>3, BeginStoreInv
<1>4. CASE EndStore
  BY <1>4, EndStoreInv
<1>5. CASE \E k \in Slot, v \in Obj \cup {Null} : StoreRoot(k, v)
  BY <1>5, StoreRootInv
<1>6. CASE \E o \in Obj, i \in Slot : Alloc(o, i)
  BY <1>6, AllocInv
<1>7. CASE \E o \in Obj : Free(o)
  BY <1>7, FreeInv
<1>8. CASE \E o \in Obj, i \in Slot : ReadWeak(o, i)
  BY <1>8, ReadWeakInv
<1>9. CASE DestroyRoot
  BY <1>9, DestroyRootInv
<1>10. CASE CreateRoot
  BY <1>10, CreateRootInv
<1> QED
  BY <1>1, <1>2, <1>3, <1>4, <1>5, <1>6, <1>7, <1>8, <1>9, <1>10 DEF Program

LEMMA CollectorInv == ASSUME IInv, Collector PROVE IInv'
<1>1. CASE \E o \in Obj : Visit(o)
  BY <1>1, VisitInv
<1>2. CASE Drain \/ Recover \/ EndRecovery \/ FinalScan \/ BeginSweep \/ EndPresweep \/ Sweep
  BY <1>2, DrainInv, RecoverInv, EndRecoveryInv, FinalScanInv, BeginSweepInv,
     EndPresweepInv, SweepInv
<1> QED
  BY <1>1, <1>2 DEF Collector

LEMMA StepInv == IInv /\ [Next]_vars => IInv'
<1> SUFFICES ASSUME IInv, [Next]_vars PROVE IInv'
  OBVIOUS
<1>1. CASE Program
  BY <1>1, ProgramInv
<1>2. CASE StartMark \/ MarkStep \/ ShiftBarrierWork \/ Finish
  BY <1>2, StartMarkInv, MarkStepInv, ShiftBarrierWorkInv, FinishInv
<1>3. CASE Collector
  BY <1>3, CollectorInv
<1>4. CASE \E o \in Obj, b \in Memory, k \in Slot :
             PresweepReadWeak(o, b, k) \/ PresweepAlloc(o, b, k)
  BY <1>4, PresweepReadWeakInv, PresweepAllocInv
<1>5. CASE UNCHANGED vars
  BY <1>5 DEF vars, program, IInv, TypeOK, MemorySound, StoreSound, NoDangling, TriColour,
       QueuedOnStack, SentinelSound, ScanSound, CycleSound, Held, OnStack, Safe, Ahead, Parts
<1> QED
  BY <1>1, <1>2, <1>3, <1>4, <1>5 DEF Next

\* The inductive invariant: what the marker has passed is accounted for at
\* every step of the program, of an increment and of FinishIncrementalMark.
THEOREM MarkerInvariant == SafetySpec => []IInv
BY InitInv, StepInv, PTL DEF SafetySpec

\* No reference the program can follow, and no weak reference, leads to
\* memory that Sweep or Free has given back.
THEOREM NothingDangles == SafetySpec => []NoDangling
<1>1. IInv => NoDangling
  BY DEF IInv
<1> QED
  BY <1>1, MarkerInvariant, PTL

\* A part of a marked object that was scanned refers only to objects that are
\* marked or queued, or items were dropped and the flag says so.
THEOREM MarkedIsScanned == SafetySpec => []TriColour
<1>1. IInv => TriColour
  BY DEF IInv
<1> QED
  BY <1>1, MarkerInvariant, PTL

\* A queued object has an item on one of the two stacks.
THEOREM QueuedHasItem == SafetySpec => []QueuedOnStack
<1>1. IInv => QueuedOnStack
  BY DEF IInv
<1> QED
  BY <1>1, MarkerInvariant, PTL

-----------------------------------------------------------------------------
(* Mark implements CollectorAbs: a step of the program is the abstract step *)
(* of the same kind, Sweep is Collect, and everything else is invisible.    *)

LEMMA AbstractWrite ==
  ASSUME IInv, NEW b \in Held, NEW k \in Slot, NEW v \in (live \cap Obj) \cup {Null},
         mem' = [mem EXCEPT ![b][k] = v], UNCHANGED <<live, weak>>
  PROVE  Abs!AbsNext
<1>1. b \in Abs!Held /\ b \in Abs!Memory
  BY InvParts DEF Held, Abs!Held, Abs!Memory
<1>2. Abs!Write(b, k, v)
  BY <1>1 DEF Abs!Write
<1> QED
  BY <1>1, <1>2 DEF Abs!AbsNext

LEMMA AbstractAlloc ==
  ASSUME IInv, NEW o \in Obj, o \notin live, NEW b \in Held, NEW k \in Slot,
         NEW w \in BOOLEAN, live' = live \cup {o}, mem' = [mem EXCEPT ![b][k] = o],
         weak' = IF w THEN weak \cup {o} ELSE weak
  PROVE  Abs!AbsNext
<1>1. b \in Abs!Held /\ b \in Abs!Memory /\ b \in Memory
  BY InvParts DEF Held, Abs!Held, Abs!Memory, Memory
<1>2. o \in Memory /\ o \notin Held
  BY MarkAssumption DEF Memory, Held
<1>3. mem[o] = Abs!Cleared
  <2>1. mem[o] \in [Slot -> Obj \cup {Null}] /\ \A j \in Slot : mem[o][j] = Null
    BY <1>2, InvParts DEF IInv, MemorySound
  <2>2. mem[o] = [j \in Slot |-> mem[o][j]]
    BY <2>1
  <2> QED
    BY <2>1, <2>2 DEF Abs!Cleared
<1>4. mem' = [mem EXCEPT ![o] = Abs!Cleared, ![b][k] = o]
  <2>1. [mem EXCEPT ![o] = mem[o]] = mem
    BY InvParts
  <2> QED
    BY <1>3, <2>1
<1>5. Abs!Alloc(o, b, k, w)
  BY <1>1, <1>4 DEF Abs!Alloc
<1> QED
  BY <1>1, <1>5 DEF Abs!AbsNext

LEMMA AbstractFree == ASSUME IInv, NEW o \in Obj, Free(o) PROVE Abs!AbsNext
<1>1. /\ o \in live
      /\ RefersTo(o) \subseteq {Stack}
      /\ live' \in {live, live \ {o}}
      /\ mem' = [b \in Memory |-> IF b = o THEN Cleared
                 ELSE [k \in Slot |-> IF mem[b][k] = o THEN Null ELSE mem[b][k]]]
      /\ weak' = weak \ {o}
  BY DEF Free
<1>2. Abs!Memory = Memory /\ Abs!Cleared = Cleared /\ Abs!RefersTo(o) = RefersTo(o)
  BY DEF Abs!Memory, Memory, Abs!Cleared, Cleared, Abs!RefersTo, RefersTo, Abs!Held, Held
<1>3. Abs!Free(o)
  BY <1>1, <1>2 DEF Abs!Free
<1> QED
  BY <1>3 DEF Abs!AbsNext

LEMMA AbstractRoot == ASSUME IInv, DestroyRoot \/ CreateRoot PROVE Abs!AbsNext
<1>1. CASE DestroyRoot
  <2>1. Abs!DestroyRoot
    BY <1>1 DEF DestroyRoot, Abs!DestroyRoot, Cleared, Abs!Cleared
  <2> QED
    BY <2>1 DEF Abs!AbsNext
<1>2. CASE CreateRoot
  <2>1. Root \in Memory /\ Root \notin Held
    BY <1>2, MarkAssumption DEF CreateRoot, Memory, Held
  <2>2. mem[Root] = Abs!Cleared
    <3>1. mem[Root] \in [Slot -> Obj \cup {Null}] /\ \A j \in Slot : mem[Root][j] = Null
      BY <2>1, InvParts DEF IInv, MemorySound
    <3>2. mem[Root] = [j \in Slot |-> mem[Root][j]]
      BY <3>1
    <3> QED
      BY <3>1, <3>2 DEF Abs!Cleared
  <2>3. mem' = [mem EXCEPT ![Root] = Abs!Cleared]
    <3>1. [mem EXCEPT ![Root] = mem[Root]] = mem
      BY InvParts
    <3> QED
      BY <1>2, <2>2, <3>1 DEF CreateRoot
  <2>4. Abs!CreateRoot
    BY <1>2, <2>3 DEF CreateRoot, Abs!CreateRoot
  <2> QED
    BY <2>4 DEF Abs!AbsNext
<1> QED
  BY <1>1, <1>2

\* What Sweep leaves is closed under references.
LEMMA AbstractCollect == ASSUME IInv, Sweep PROVE Abs!AbsNext
<1>1. /\ live' = live \cap (m.mark \cup {Root})
      /\ mem' = [b \in Memory |-> IF b \in Objects \ m.mark THEN Cleared ELSE mem[b]]
      /\ weak' = weak \cap m.mark
  BY DEF Sweep
<1>2. m.mark \subseteq Obj /\ weak \subseteq Obj /\ weak \subseteq live /\ Root \notin Obj
  BY InvParts, MarkAssumption DEF IInv, NoDangling
<1>3. live' \subseteq live /\ live \cap {Root} \subseteq live'
  BY <1>1
<1>4. live \ live' = Objects \ m.mark
  BY <1>1, <1>2, InvParts DEF Objects
<1>5. weak' = weak \cap live'
  BY <1>1, <1>2
<1>6. mem' = [b \in Abs!Memory |-> IF b \in live \ live' THEN Abs!Cleared ELSE mem[b]]
  BY <1>1, <1>4 DEF Abs!Memory, Memory, Abs!Cleared, Cleared
<1>7. ASSUME NEW b \in live' \cup {Stack}, NEW k \in Slot
      PROVE  mem[b][k] \in live' \cup {Null}
  <2>1. mem'[b][k] \in live' \cup {Null}
    BY SweepInv DEF IInv, NoDangling, Held
  <2>2. b \in Memory /\ b \notin Objects \ m.mark
    BY <1>1, <1>2, InvParts, MarkAssumption DEF Objects, Memory
  <2> QED
    BY <1>1, <2>1, <2>2
<1>8. Abs!Collect(live')
  BY <1>3, <1>5, <1>6, <1>7 DEF Abs!Collect
<1>9. live' \in SUBSET live
  BY <1>3
<1> QED
  BY <1>8, <1>9 DEF Abs!AbsNext

LEMMA AbstractInit == Init => Abs!AbsInit
BY DEF Init, Abs!AbsInit, Memory, Abs!Memory, Cleared, Abs!Cleared

LEMMA AbstractProgram == ASSUME IInv, Program PROVE Abs!AbsNext \/ UNCHANGED Abs!absVars
<1>1. CASE \E i, k \in Slot, b \in Memory : Load(i, b, k)
  <2> PICK i \in Slot, k \in Slot, b \in Memory : Load(i, b, k)
    BY <1>1
  <2>1. b \in Held /\ mem[b][k] \in (live \cap Obj) \cup {Null} /\ Stack \in Held
    <3>1. b \in Held
      BY InvParts DEF Load, Named, Held
    <3> QED
      BY <3>1, InvParts DEF IInv, NoDangling, Held
  <2>2. mem' = [mem EXCEPT ![Stack][i] = mem[b][k]] /\ UNCHANGED <<live, weak>>
    BY DEF Load
  <2> QED
    BY <2>1, <2>2, AbstractWrite
<1>2. CASE \E i \in Slot : Forget(i)
  <2> PICK i \in Slot : Forget(i)
    BY <1>2
  <2>1. mem' = [mem EXCEPT ![Stack][i] = Null] /\ UNCHANGED <<live, weak>> /\ Stack \in Held
    BY DEF Forget, Held
  <2> QED
    BY <2>1, AbstractWrite
<1>3. CASE \E o \in Obj, k \in Slot, v \in Obj \cup {Null} : BeginStore(o, k, v)
  BY <1>3 DEF BeginStore, Abs!absVars
<1>4. CASE EndStore
  <2>1. /\ store[1] \in live /\ store[2] \in Slot /\ store[3] \in (live \cap Obj) \cup {Null}
    BY <1>4, InvParts DEF EndStore, IInv, NoDangling
  <2>2. mem' = [mem EXCEPT ![store[1]][store[2]] = store[3]] /\ UNCHANGED <<live, weak>>
    BY <1>4 DEF EndStore
  <2> QED
    BY <2>1, <2>2, AbstractWrite DEF Held
<1>5. CASE \E k \in Slot, v \in Obj \cup {Null} : StoreRoot(k, v)
  <2> PICK k \in Slot, v \in Obj \cup {Null} : StoreRoot(k, v)
    BY <1>5
  <2>1. /\ Root \in Held /\ v \in (live \cap Obj) \cup {Null}
        /\ mem' = [mem EXCEPT ![Root][k] = v] /\ UNCHANGED <<live, weak>>
    BY InvParts DEF StoreRoot, Held
  <2> QED
    BY <2>1, AbstractWrite
<1>6. CASE \E o \in Obj, i \in Slot : Alloc(o, i)
  <2> PICK o \in Obj, i \in Slot : Alloc(o, i)
    BY <1>6
  <2> DEFINE w == Parts(o) > 0
  <2>1. /\ o \notin live /\ Stack \in Held /\ live' = live \cup {o}
        /\ mem' = [mem EXCEPT ![Stack][i] = o]
        /\ weak' = IF w THEN weak \cup {o} ELSE weak
    BY DEF Alloc, Held
  <2>2. w \in BOOLEAN
    OBVIOUS
  <2> HIDE DEF w
  <2> QED
    BY <2>1, <2>2, AbstractAlloc
<1>7. CASE \E o \in Obj : Free(o)
  BY <1>7, AbstractFree
<1>8. CASE \E o \in Obj, i \in Slot : ReadWeak(o, i)
  <2> PICK o \in Obj, i \in Slot : ReadWeak(o, i)
    BY <1>8
  <2>1. /\ Stack \in Held /\ o \in (live \cap Obj) \cup {Null}
        /\ mem' = [mem EXCEPT ![Stack][i] = o] /\ UNCHANGED <<live, weak>>
    BY DEF ReadWeak, Held, IInv, NoDangling
  <2> QED
    BY <2>1, AbstractWrite
<1>9. CASE DestroyRoot \/ CreateRoot
  BY <1>9, AbstractRoot
<1> QED
  BY <1>1, <1>2, <1>3, <1>4, <1>5, <1>6, <1>7, <1>8, <1>9 DEF Program

LEMMA AbstractCollector == ASSUME IInv, Collector PROVE Abs!AbsNext \/ UNCHANGED Abs!absVars
<1>1. CASE Sweep
  BY <1>1, AbstractCollect
<1>2. CASE Drain \/ Recover \/ EndRecovery \/ FinalScan \/ BeginSweep \/ EndPresweep
           \/ \E o \in Obj : Visit(o)
  BY <1>2 DEF Drain, Recover, BeginRecovery, EndRecovery, FinalScan, BeginSweep,
     EndPresweep, Visit, program, Abs!absVars
<1> QED
  BY <1>1, <1>2 DEF Collector

LEMMA AbstractPresweep ==
  ASSUME IInv, NEW o \in Obj, NEW b \in Memory, NEW k \in Slot,
         PresweepReadWeak(o, b, k) \/ PresweepAlloc(o, b, k)
  PROVE  Abs!AbsNext
<1>1. b \in Held /\ mem' = [mem EXCEPT ![b][k] = o]
  BY DEF PresweepReadWeak, PresweepAlloc, PresweepStore, Held
<1>2. CASE PresweepReadWeak(o, b, k)
  <2>1. o \in (live \cap Obj) \cup {Null} /\ UNCHANGED <<live, weak>>
    BY <1>2 DEF PresweepReadWeak, IInv, NoDangling
  <2> QED
    BY <1>1, <2>1, AbstractWrite
<1>3. CASE PresweepAlloc(o, b, k)
  <2>1. o \notin live /\ live' = live \cup {o} /\ weak' = weak
    BY <1>3 DEF PresweepAlloc
  <2> QED
    BY <1>1, <2>1, AbstractAlloc
<1> QED
  BY <1>2, <1>3

LEMMA AbstractStep == IInv /\ [Next]_vars => [Abs!AbsNext]_(Abs!absVars)
<1> SUFFICES ASSUME IInv, [Next]_vars PROVE Abs!AbsNext \/ UNCHANGED Abs!absVars
  BY DEF Abs!absVars
<1>1. CASE Program
  BY <1>1, AbstractProgram
<1>2. CASE StartMark \/ MarkStep \/ ShiftBarrierWork \/ Finish
  BY <1>2 DEF StartMark, MarkStep, ShiftBarrierWork, Finish, program, Abs!absVars
<1>3. CASE Collector
  BY <1>3, AbstractCollector
<1>4. CASE \E o \in Obj, b \in Memory, k \in Slot :
             PresweepReadWeak(o, b, k) \/ PresweepAlloc(o, b, k)
  BY <1>4, AbstractPresweep
<1>5. CASE UNCHANGED vars
  BY <1>5 DEF vars, program, Abs!absVars
<1> QED
  BY <1>1, <1>2, <1>3, <1>4, <1>5 DEF Next

\* The marker with its increments, write barrier, overflow and recovery is a
\* collector that reclaims at once what the rest does not refer to.
THEOREM Refinement == SafetySpec => ImplementsAbs
BY AbstractInit, AbstractStep, MarkerInvariant, PTL DEF SafetySpec, ImplementsAbs, Abs!AbsSpec

=============================================================================
