--------------------------- MODULE MarkWorkProofs ----------------------------
(***************************************************************************)
(* Proofs about the work of the marker: what its stacks and its bits lead  *)
(* to.  Garbage stays out of them, so that it is collected; memory that    *)
(* was freed stays out of them, so that the marker never touches it.       *)
(***************************************************************************)
EXTENDS MarkProofs

-----------------------------------------------------------------------------
(* A region: memory that leads to nothing else, with the roots and the      *)
(* stack.  A marker is tame if it knows of nothing outside of a region, and *)
(* splits only objects of several parts.                                    *)

Region(S) ==
  /\ S \subseteq Memory /\ Stack \in S /\ (Root \in live => Root \in S)
  /\ \A b \in S, k \in Slot : mem[b][k] \in S \cup {Null}

Split == {"tail", "chunk", "objprot"}
Allowed(S) == {x \in Item : x = Dead \/ (x.b \in S /\ (x.t \in Split => Parts(x.b) > 1))}
Tame(g, S) ==
  /\ \A o \in g.mark \cup g.queued : o \in S
  /\ \A x \in Items(g.work) : x \in Allowed(S)

(* A marker is neat, beside a barrier stack with the items of B, if every   *)
(* object is queued once, and the root has one protector and one item above *)
(* it at most.                                                              *)

Neat(g, B) ==
  /\ \A o \in g.mark : o \notin g.queued
  /\ \A i, j \in 1..Len(g.work.items) :
       /\ /\ g.work.items[i].t = "object" /\ g.work.items[j].t = "object"
          /\ g.work.items[i].b = g.work.items[j].b
          => i = j
       /\ g.work.items[i].t = "rootchunk" /\ g.work.items[j].t = "rootchunk" => i = j
  /\ \A i \in 1..Len(g.work.items) :
       /\ g.work.items[i].t = "object" => /\ g.work.items[i].b \in g.queued
                                          /\ \A x \in B : x.b # g.work.items[i].b
       /\ g.work.items[i].t = "rootprot" => i = g.sentinel
       /\ g.work.items[i].t = "rootchunk" => g.sentinel # 0 /\ g.sentinel < i
  /\ \A x \in B : x.t = "object" /\ x.b \in g.queued

\* h has one more item than g, or the same items.
Appends(g, h, x) ==
  /\ MarkerOK(h, Item) /\ h.sentinel = g.sentinel
  /\ Len(h.work.items) = Len(g.work.items) + 1
  /\ \A i \in 1..Len(g.work.items) : h.work.items[i] = g.work.items[i]
  /\ h.work.items[Len(g.work.items) + 1] = x

SameWork(g, h) == MarkerOK(h, Item) /\ h.sentinel = g.sentinel /\ h.work = g.work

LEMMA PushItemCases ==
  ASSUME NEW g, MarkerOK(g, Item), NEW x \in Item, NEW more \in BOOLEAN
  PROVE  LET h == PushItem(g, x, more)
         IN /\ h.mark = g.mark /\ h.queued = g.queued
            /\ Appends(g, h, x) \/ SameWork(g, h)
<1> DEFINE h == PushItem(g, x, more)
<1>0. g.work \in StackOver(Item) /\ WellFormed(g.work, SegSize) /\ SegSize \in Nat \ {0}
  BY MarkerFields
<1>1. CASE CanPush(g.work, SegSize, more)
  <2> DEFINE p == Push(g.work, x, SegSize)
  <2>1. h = [g EXCEPT !.work = p]
    BY <1>1 DEF PushItem
  <2>2. /\ p \in StackOver(Item) /\ WellFormed(p, SegSize)
        /\ Len(p.items) = Len(g.work.items) + 1
        /\ \A i \in 1..Len(g.work.items) : p.items[i] = g.work.items[i]
        /\ p.items[Len(g.work.items) + 1] = x
    BY <1>0, PushStack
  <2> HIDE DEF p
  <2>3. /\ h.work = p /\ h.mark = g.mark /\ h.queued = g.queued
        /\ h.sentinel = g.sentinel /\ h \in MarkerOver(Item)
    BY <2>1, <2>2 DEF MarkerOK, MarkerOver
  <2> HIDE DEF h
  <2> QED
    BY <2>2, <2>3 DEF Appends, MarkerOK, h
<1>2. CASE ~ CanPush(g.work, SegSize, more)
  <2>1. h = [g EXCEPT !.overflow = TRUE]
    BY <1>2 DEF PushItem
  <2>2. /\ h.work = g.work /\ h.mark = g.mark /\ h.queued = g.queued
        /\ h.sentinel = g.sentinel /\ h \in MarkerOver(Item)
    BY <2>1 DEF MarkerOK, MarkerOver
  <2> HIDE DEF h
  <2> QED
    BY <1>0, <2>2 DEF SameWork, MarkerOK, h
<1> QED
  BY <1>1, <1>2

LEMMA PushObjectCases ==
  ASSUME NEW g, MarkerOK(g, Item), NEW o \in Obj, NEW more \in BOOLEAN
  PROVE  LET h == PushObject(g, o, more)
         IN /\ h.mark = g.mark
            /\ \/ Appends(g, h, Work("object", o, 1)) /\ h.queued = g.queued \cup {o}
               \/ SameWork(g, h) /\ h.queued = g.queued \ {o}
<1> DEFINE h == PushObject(g, o, more)
           x == Work("object", o, 1)
<1>0. g.work \in StackOver(Item) /\ WellFormed(g.work, SegSize) /\ SegSize \in Nat \ {0}
  BY MarkerFields
<1>a. x \in Item
  BY ItemFacts
<1>b. g.queued \cup {o} \subseteq Obj
  BY MarkerFields
<1>1. CASE CanPush(g.work, SegSize, more)
  <2> DEFINE p == Push(g.work, x, SegSize)
  <2>1. h = [g EXCEPT !.work = p, !.queued = g.queued \cup {o}]
    BY <1>1 DEF PushObject
  <2> HIDE DEF x
  <2>2. /\ p \in StackOver(Item) /\ WellFormed(p, SegSize)
        /\ Len(p.items) = Len(g.work.items) + 1
        /\ \A i \in 1..Len(g.work.items) : p.items[i] = g.work.items[i]
        /\ p.items[Len(g.work.items) + 1] = x
    BY <1>0, <1>a, PushStack
  <2> HIDE DEF p, h
  <2>3. /\ h.work = p /\ h.mark = g.mark /\ h.queued = g.queued \cup {o}
        /\ h.sentinel = g.sentinel /\ h \in MarkerOver(Item)
    BY <2>1, <2>2, <1>b DEF MarkerOK, MarkerOver
  <2> QED
    BY <2>2, <2>3 DEF Appends, MarkerOK, h, x
<1>2. CASE ~ CanPush(g.work, SegSize, more)
  <2>1. h = [g EXCEPT !.overflow = TRUE, !.queued = g.queued \ {o}]
    BY <1>2 DEF PushObject
  <2>2. /\ h.work = g.work /\ h.mark = g.mark /\ h.queued = g.queued \ {o}
        /\ h.sentinel = g.sentinel /\ h \in MarkerOver(Item)
    BY <2>1 DEF MarkerOK, MarkerOver
  <2> HIDE DEF h
  <2> QED
    BY <1>0, <2>2 DEF SameWork, MarkerOK, h
<1> QED
  BY <1>1, <1>2

LEMMA AppendTame ==
  ASSUME NEW S, NEW g, NEW h, NEW x, MarkerOK(g, Item), Tame(g, S),
         (Appends(g, h, x) /\ x \in Allowed(S)) \/ SameWork(g, h),
         \A o \in h.mark \cup h.queued : o \in S
  PROVE  Tame(h, S)
<1>1. CASE Appends(g, h, x) /\ x \in Allowed(S)
  <2>1. Len(g.work.items) \in Nat
    BY MarkerFields
  <2>2. ASSUME NEW i \in 1..Len(h.work.items) PROVE h.work.items[i] \in Allowed(S)
    <3>1. i \in 1..Len(g.work.items) \/ i = Len(g.work.items) + 1
      BY <2>1, <1>1 DEF Appends
    <3> QED
      BY <3>1, <1>1 DEF Appends, Tame, Items
  <2> QED
    BY <2>2 DEF Tame, Items
<1>2. CASE SameWork(g, h)
  BY <1>2 DEF SameWork, Tame
<1> QED
  BY <1>1, <1>2

LEMMA AppendNeat ==
  ASSUME NEW B, NEW g, NEW h, NEW x, MarkerOK(g, Item), Neat(g, B),
         Appends(g, h, x) \/ SameWork(g, h), g.queued \subseteq h.queued,
         \A o \in h.mark : o \notin h.queued,
         x.t = "object" => x.b \in h.queued \ g.queued,
         x.t # "rootprot",
         x.t = "rootchunk" => /\ g.sentinel # 0 /\ g.sentinel <= Len(g.work.items)
                              /\ \A y \in Items(g.work) : y.t # "rootchunk"
  PROVE  Neat(h, B)
<1>1. CASE Appends(g, h, x)
  <2> DEFINE n == Len(g.work.items)
  <2>1. n \in Nat /\ g.sentinel \in Nat
    BY MarkerFields
  <2> HIDE DEF n
  <2>2. /\ h.sentinel = g.sentinel /\ Len(h.work.items) = n + 1
        /\ \A i \in 1..n : h.work.items[i] = g.work.items[i]
        /\ h.work.items[n + 1] = x
    BY <1>1 DEF Appends, n
  <2>3. ASSUME NEW i \in 1..n
        PROVE  /\ x.t = "object" /\ g.work.items[i].t = "object" => x.b # g.work.items[i].b
               /\ x.t = "rootchunk" => g.work.items[i].t # "rootchunk"
    BY DEF Neat, Items, n
  <2>a. x.t = "object" => \A y \in B : y.b # x.b
    BY DEF Neat
  <2>4. ASSUME NEW i \in 1..(n + 1), NEW j \in 1..(n + 1)
        PROVE  /\ /\ h.work.items[i].t = "object" /\ h.work.items[j].t = "object"
                  /\ h.work.items[i].b = h.work.items[j].b
                  => i = j
               /\ h.work.items[i].t = "rootchunk" /\ h.work.items[j].t = "rootchunk" => i = j
    <3>1. (i \in 1..n \/ i = n + 1) /\ (j \in 1..n \/ j = n + 1)
      BY <2>1
    <3>2. CASE i \in 1..n /\ j \in 1..n
      <4>1. h.work.items[i] = g.work.items[i] /\ h.work.items[j] = g.work.items[j]
        BY <3>2, <2>2
      <4>2. /\ /\ g.work.items[i].t = "object" /\ g.work.items[j].t = "object"
               /\ g.work.items[i].b = g.work.items[j].b
               => i = j
            /\ g.work.items[i].t = "rootchunk" /\ g.work.items[j].t = "rootchunk" => i = j
        BY <3>2 DEF Neat, n
      <4> QED
        BY <4>1, <4>2
    <3>3. CASE i = n + 1 /\ j \in 1..n
      BY <3>3, <2>2, <2>3
    <3>4. CASE i \in 1..n /\ j = n + 1
      BY <3>4, <2>2, <2>3
    <3> QED
      BY <3>1, <3>2, <3>3, <3>4
  <2>5. ASSUME NEW i \in 1..(n + 1)
        PROVE  /\ h.work.items[i].t = "object" => /\ h.work.items[i].b \in h.queued
                                                  /\ \A y \in B : y.b # h.work.items[i].b
               /\ h.work.items[i].t = "rootprot" => i = h.sentinel
               /\ h.work.items[i].t = "rootchunk" => h.sentinel # 0 /\ h.sentinel < i
    <3>1. i \in 1..n \/ i = n + 1
      BY <2>1
    <3>2. CASE i \in 1..n
      <4>1. h.work.items[i] = g.work.items[i]
        BY <3>2, <2>2
      <4>2. /\ g.work.items[i].t = "object" => /\ g.work.items[i].b \in g.queued
                                               /\ \A y \in B : y.b # g.work.items[i].b
            /\ g.work.items[i].t = "rootprot" => i = g.sentinel
            /\ g.work.items[i].t = "rootchunk" => g.sentinel # 0 /\ g.sentinel < i
        BY <3>2 DEF Neat, n
      <4> QED
        BY <4>1, <4>2, <2>2
    <3>3. CASE i = n + 1
      BY <3>3, <2>1, <2>2, <2>a DEF n
    <3> QED
      BY <3>1, <3>2, <3>3
  <2>6. \A y \in B : y.t = "object" /\ y.b \in h.queued
    BY DEF Neat
  <2> QED
    BY <2>2, <2>4, <2>5, <2>6 DEF Neat
<1>2. CASE SameWork(g, h)
  BY <1>2 DEF SameWork, Neat
<1> QED
  BY <1>1, <1>2

-----------------------------------------------------------------------------
(* The operations of the marker keep it tame and neat.                      *)

LEMMA RegionFacts ==
  ASSUME HeapOK, NEW S, Region(S), NEW b \in S, NEW k \in Slot
  PROVE  b \in Memory /\ mem[b][k] \in (S \cap Obj) \cup {Null}
BY HeapFacts DEF Region

LEMMA PushItemTame ==
  ASSUME NEW S, NEW B, NEW g, MarkerOK(g, Item), Tame(g, S), NEW x \in Allowed(S),
         NEW more \in BOOLEAN
  PROVE  LET h == PushItem(g, x, more)
         IN /\ MarkerOK(h, Item) /\ Tame(h, S)
            /\ Neat(g, B) /\ x.t \notin {"object", "rootprot", "rootchunk"} => Neat(h, B)
<1> DEFINE h == PushItem(g, x, more)
<1>1. x \in Item
  BY DEF Allowed
<1>2. h.mark = g.mark /\ h.queued = g.queued /\ (Appends(g, h, x) \/ SameWork(g, h))
  BY <1>1, PushItemCases
<1> HIDE DEF h
<1>3. MarkerOK(h, Item)
  BY <1>2 DEF Appends, SameWork
<1>4. \A o \in h.mark \cup h.queued : o \in S
  BY <1>2 DEF Tame
<1>5. Tame(h, S)
  BY <1>2, <1>4, AppendTame
<1>6. ASSUME Neat(g, B), x.t \notin {"object", "rootprot", "rootchunk"} PROVE Neat(h, B)
  <2>1. \A o \in h.mark : o \notin h.queued
    BY <1>2, <1>6 DEF Neat
  <2> QED
    BY <1>2, <1>6, <2>1, AppendNeat
<1> QED
  BY <1>3, <1>5, <1>6 DEF h

LEMMA TraceTame ==
  ASSUME NEW S, NEW B, NEW g, MarkerOK(g, Item), Tame(g, S),
         NEW v \in (S \cap Obj) \cup {Null}, NEW more \in BOOLEAN
  PROVE  LET h == Trace(g, v, more)
         IN /\ MarkerOK(h, Item) /\ Tame(h, S)
            /\ Neat(g, B) => Neat(h, B)
<1> DEFINE h == Trace(g, v, more)
<1>0. MarkerOK(h, Item)
  BY TraceExtends DEF Extends
<1>1. CASE v = Null \/ v \in g.mark \cup g.queued
  BY <1>0, <1>1 DEF Trace
<1>2. CASE ~(v = Null \/ v \in g.mark \cup g.queued) /\ Parts(v) = 0
  <2>1. h = [g EXCEPT !.mark = g.mark \cup {v}]
    BY <1>2 DEF Trace
  <2>2. v \in S
    BY <1>2
  <2>3. /\ h.work = g.work /\ h.mark = g.mark \cup {v} /\ h.queued = g.queued
        /\ h.sentinel = g.sentinel
    BY <2>1 DEF MarkerOK, MarkerOver
  <2> HIDE DEF h
  <2>4. Tame(h, S)
    BY <2>2, <2>3 DEF Tame
  <2>5. Neat(g, B) => Neat(h, B)
    BY <1>2, <2>3 DEF Neat
  <2> QED
    BY <1>0, <2>4, <2>5 DEF h
<1>3. CASE ~(v = Null \/ v \in g.mark \cup g.queued) /\ Parts(v) # 0
  <2> DEFINE x == Work("object", v, 1)
  <2>1. h = PushObject(g, v, more) /\ v \in Obj /\ v \in S
    BY <1>3 DEF Trace
  <2>2. x \in Allowed(S) /\ x.t = "object" /\ x.b = v
    BY <2>1, ItemFacts DEF Work, Allowed, Split
  <2> HIDE DEF x, h
  <2>3. /\ h.mark = g.mark
        /\ \/ Appends(g, h, x) /\ h.queued = g.queued \cup {v}
           \/ SameWork(g, h) /\ h.queued = g.queued \ {v}
    BY <2>1, PushObjectCases DEF x
  <2>4. \A o \in h.mark \cup h.queued : o \in S
    BY <2>1, <2>3 DEF Tame
  <2>5. Tame(h, S)
    BY <2>2, <2>3, <2>4, AppendTame
  <2>6. ASSUME Neat(g, B) PROVE Neat(h, B)
    <3>1. \A o \in h.mark : o \notin h.queued
      BY <1>3, <2>3, <2>6 DEF Neat
    <3>2. CASE Appends(g, h, x) /\ h.queued = g.queued \cup {v}
      <4>1. g.queued \subseteq h.queued /\ v \in h.queued \ g.queued
        BY <3>2, <1>3
      <4> QED
        BY <2>2, <2>6, <3>1, <3>2, <4>1, AppendNeat
    <3>3. CASE SameWork(g, h) /\ h.queued = g.queued \ {v}
      <4>1. h.queued = g.queued
        BY <3>3, <1>3
      <4> QED
        BY <2>3, <2>6, <3>3, <4>1 DEF SameWork, Neat
    <3> QED
      BY <2>3, <3>2, <3>3
  <2> QED
    BY <1>0, <2>5, <2>6 DEF h
<1> QED
  BY <1>1, <1>2, <1>3

\* Of the root, the next part is pushed only if no other is on the stack.
LEMMA MarkPartsTame ==
  ASSUME HeapOK, NEW S, Region(S), NEW B, NEW g, MarkerOK(g, Item), Tame(g, S),
         NEW t \in {"chunk", "rootchunk", "stack"}, NEW b \in S, NEW k \in Slot,
         NEW more \in BOOLEAN, \A j \in Slot : Work(t, b, j) \in Item
  PROVE  LET h == MarkParts(g, t, b, k, more)
         IN /\ MarkerOK(h, Item) /\ Tame(h, S)
            /\ /\ Neat(g, B)
               /\ t = "rootchunk" /\ Parts(b) > 1 =>
                    /\ g.sentinel # 0 /\ g.sentinel <= Len(g.work.items)
                    /\ \A y \in Items(g.work) : y.t # "rootchunk"
               => Neat(h, B)
<1> DEFINE s == IF k < Parts(b) THEN PushItem(g, Work(t, b, k + 1), more) ELSE g
           h == Trace(s, mem[b][k], more)
           onlyOne == t = "rootchunk" /\ Parts(b) > 1 =>
                        /\ g.sentinel # 0 /\ g.sentinel <= Len(g.work.items)
                        /\ \A y \in Items(g.work) : y.t # "rootchunk"
<1>1. h = MarkParts(g, t, b, k, more)
  BY DEF MarkParts
<1>2. k \in Nat \ {0} /\ Parts(b) \in Nat /\ (k < Parts(b) => k + 1 \in Slot)
      /\ mem[b][k] \in (S \cap Obj) \cup {Null}
  BY RegionFacts, HeapFacts, SlotFacts
<1>3. MarkerOK(s, Item) /\ Tame(s, S) /\ (Neat(g, B) /\ onlyOne => Neat(s, B))
  <2>1. CASE ~(k < Parts(b))
    BY <2>1
  <2>2. CASE k < Parts(b)
    <3> DEFINE x == Work(t, b, k + 1)
    <3>1. x \in Item /\ x.t = t /\ x.b = b /\ Parts(b) > 1
      BY <1>2, <2>2 DEF Work
    <3>2. x \in Allowed(S) /\ s = PushItem(g, x, more)
      BY <2>2, <3>1 DEF Allowed
    <3> HIDE DEF x, s
    <3>3. MarkerOK(s, Item) /\ Tame(s, S)
      BY <3>2, PushItemTame
    <3>4. s.mark = g.mark /\ s.queued = g.queued /\ (Appends(g, s, x) \/ SameWork(g, s))
      BY <3>1, <3>2, PushItemCases
    <3>5. ASSUME Neat(g, B), onlyOne PROVE Neat(s, B)
      <4>1. \A o \in s.mark : o \notin s.queued
        BY <3>4, <3>5 DEF Neat
      <4>2. x.t # "object" /\ x.t # "rootprot"
        BY <3>1
      <4>3. x.t = "rootchunk" => /\ g.sentinel # 0 /\ g.sentinel <= Len(g.work.items)
                                 /\ \A y \in Items(g.work) : y.t # "rootchunk"
        BY <3>1, <3>5
      <4> QED
        BY <3>4, <3>5, <4>1, <4>2, <4>3, AppendNeat
    <3> QED
      BY <3>3, <3>5
  <2> QED
    BY <2>1, <2>2
<1> HIDE DEF s
<1>4. MarkerOK(h, Item) /\ Tame(h, S) /\ (Neat(s, B) => Neat(h, B))
  BY <1>2, <1>3, TraceTame
<1> HIDE DEF h
<1> QED
  BY <1>1, <1>3, <1>4

LEMMA SetMarkTame ==
  ASSUME NEW S, NEW B, NEW g, MarkerOK(g, Item), Tame(g, S), NEW o \in S \cap Obj
  PROVE  LET h == SetMark(g, o)
         IN /\ MarkerOK(h, Item) /\ Tame(h, S)
            /\ /\ Neat(g, B)
               /\ \A x \in Items(g.work) : x.t = "object" => x.b # o
               /\ \A x \in B : x.b # o
               => Neat(h, B)
<1> DEFINE h == SetMark(g, o)
<1>1. /\ MarkerOK(h, Item)
      /\ h.mark = g.mark \cup {o} /\ h.queued = g.queued \ {o}
      /\ h.work = g.work /\ h.sentinel = g.sentinel
  BY SetMarkOK
<1> HIDE DEF h
<1>2. Tame(h, S)
  BY <1>1 DEF Tame
<1>3. ASSUME Neat(g, B),
             \A x \in Items(g.work) : x.t = "object" => x.b # o,
             \A x \in B : x.b # o
      PROVE  Neat(h, B)
  <2>1. \A i \in 1..Len(g.work.items) :
          g.work.items[i].t = "object" => g.work.items[i].b # o
    BY <1>3 DEF Items
  <2> QED
    BY <1>1, <1>3, <2>1 DEF Neat
<1> QED
  BY <1>1, <1>2, <1>3 DEF h

LEMMA ProtectTame ==
  ASSUME NEW S, NEW B, NEW g, MarkerOK(g, Item), Tame(g, S), NEW o \in S \cap Obj,
         Parts(o) > 1, NEW more \in BOOLEAN
  PROVE  LET h == Protect(g, o, more)
         IN /\ MarkerOK(h, Item) /\ Tame(h, S)
            /\ Neat(g, B) => Neat(h, B)
<1> DEFINE s == [g EXCEPT !.prot = g.prot \cup {o}]
           x == Work("objprot", o, 1)
           h == Protect(g, o, more)
<1>1. h = PushItem(s, x, more)
  BY DEF Protect
<1>2. /\ MarkerOK(s, Item) /\ s.mark = g.mark /\ s.queued = g.queued
      /\ s.work = g.work /\ s.sentinel = g.sentinel
  BY DEF MarkerOK, MarkerOver
<1>3. x \in Allowed(S) /\ x.t = "objprot"
  BY ItemFacts DEF Allowed, Work
<1> HIDE DEF s, x, h
<1>4. Tame(s, S) /\ (Neat(g, B) => Neat(s, B))
  BY <1>2 DEF Tame, Neat
<1> QED
  BY <1>1, <1>2, <1>3, <1>4, PushItemTame DEF h

LEMMA MarkTailTame ==
  ASSUME HeapOK, NEW S, Region(S), NEW B, NEW g, MarkerOK(g, Item), Tame(g, S),
         NEW o \in S \cap Obj, NEW k \in Slot, Parts(o) > 1, NEW more \in BOOLEAN
  PROVE  LET h == MarkTail(g, o, k, more)
         IN /\ MarkerOK(h, Item) /\ Tame(h, S)
            /\ Neat(g, B) => Neat(h, B)
<1> DEFINE next == IF k < Parts(o) THEN Work("tail", o, k + 1) ELSE Dead
           s == PushItem(g, next, more)
           h == Trace(s, mem[o][k], more)
<1>1. h = MarkTail(g, o, k, more)
  BY DEF MarkTail
<1>2. /\ Parts(o) \in {0} \cup Slot /\ (k < Parts(o) => k + 1 \in Slot)
      /\ mem[o][k] \in (S \cap Obj) \cup {Null}
  BY RegionFacts, HeapFacts, SlotFacts DEF Memory
<1>3. next \in Allowed(S) /\ next.t \in {"tail", "dead"}
  BY <1>2, ItemFacts DEF Allowed, Work, Dead
<1> HIDE DEF next
<1>4. MarkerOK(s, Item) /\ Tame(s, S) /\ (Neat(g, B) => Neat(s, B))
  BY <1>3, PushItemTame
<1> HIDE DEF s
<1>5. MarkerOK(h, Item) /\ Tame(h, S) /\ (Neat(s, B) => Neat(h, B))
  BY <1>2, <1>4, TraceTame
<1> HIDE DEF h
<1> QED
  BY <1>1, <1>4, <1>5

LEMMA MarkObjectTame ==
  ASSUME HeapOK, NEW S, Region(S), NEW B, NEW g, MarkerOK(g, Item), Tame(g, S),
         NEW o \in S \cap Obj, NEW more \in BOOLEAN
  PROVE  LET h == MarkObject(g, o, more)
         IN /\ MarkerOK(h, Item) /\ Tame(h, S)
            /\ /\ Neat(g, B)
               /\ \A x \in Items(g.work) : x.t = "object" => x.b # o
               /\ \A x \in B : x.b # o
               => Neat(h, B)
<1> DEFINE s == SetMark(g, o)
           h == MarkObject(g, o, more)
           alone == /\ \A x \in Items(g.work) : x.t = "object" => x.b # o
                    /\ \A x \in B : x.b # o
<1>1. MarkerOK(s, Item) /\ Tame(s, S) /\ (Neat(g, B) /\ alone => Neat(s, B))
  BY SetMarkTame
<1>2. 1 \in Slot /\ Parts(o) \in {0} \cup Slot /\ Parts(o) \in Nat
      /\ mem[o][1] \in (S \cap Obj) \cup {Null}
  BY SlotFacts, HeapFacts, RegionFacts DEF Memory
<1> SUFFICES MarkerOK(h, Item) /\ Tame(h, S) /\ (Neat(s, B) => Neat(h, B))
  BY <1>1
<1>3. CASE Parts(o) <= 1
  <2>1. h = Trace(s, mem[o][1], more)
    BY <1>3 DEF MarkObject
  <2> HIDE DEF s, h
  <2> QED
    BY <1>1, <1>2, <2>1, TraceTame
<1>4. CASE ~(Parts(o) <= 1) /\ o \in shape.exact
  <2> DEFINE t == Trace(s, mem[o][1], more)
             p == Protect(t, o, more)
             x == Work("tail", o, 2)
  <2>1. h = PushItem(p, x, more)
    BY <1>4 DEF MarkObject
  <2>2. Parts(o) > 1
    BY <1>2, <1>4
  <2>3. x \in Allowed(S) /\ x.t = "tail"
    <3>1. 1 + 1 \in Slot
      BY <2>2, <1>2, SlotFacts
    <3>2. x \in Item
      BY <3>1, ItemFacts
    <3>3. x.t = "tail" /\ x.b = o
      BY DEF Work
    <3> HIDE DEF x
    <3> QED
      BY <3>2, <3>3, <2>2 DEF Allowed
  <2> HIDE DEF s, h, x
  <2>4. MarkerOK(t, Item) /\ Tame(t, S) /\ (Neat(s, B) => Neat(t, B))
    BY <1>1, <1>2, TraceTame
  <2> HIDE DEF t
  <2>5. MarkerOK(p, Item) /\ Tame(p, S) /\ (Neat(t, B) => Neat(p, B))
    BY <2>2, <2>4, ProtectTame
  <2> HIDE DEF p
  <2>6. MarkerOK(h, Item) /\ Tame(h, S) /\ (Neat(p, B) => Neat(h, B))
    BY <2>1, <2>3, <2>5, PushItemTame
  <2> QED
    BY <2>4, <2>5, <2>6
<1>5. CASE ~(Parts(o) <= 1) /\ o \notin shape.exact
  <2> DEFINE p == Protect(s, o, more)
  <2>1. h = MarkParts(p, "chunk", o, 1, more)
    BY <1>5 DEF MarkObject
  <2>2. Parts(o) > 1
    BY <1>2, <1>5
  <2> HIDE DEF s, h
  <2>3. MarkerOK(p, Item) /\ Tame(p, S) /\ (Neat(s, B) => Neat(p, B))
    BY <1>1, <2>2, ProtectTame
  <2> HIDE DEF p
  <2>4. \A j \in Slot : Work("chunk", o, j) \in Item
    BY ItemFacts
  <2>5. MarkerOK(h, Item) /\ Tame(h, S) /\ (Neat(p, B) => Neat(h, B))
    BY <1>2, <2>1, <2>3, <2>4, MarkPartsTame
  <2> QED
    BY <2>3, <2>5
<1> QED
  BY <1>3, <1>4, <1>5

\* After the top item x has been popped, leaving g.
LEMMA PopTame ==
  ASSUME NEW S, NEW B, MarkerOK(m, Item), Tame(m, S), m.work.items # <<>>
  PROVE  LET x == TopItem(m.work)
             g == [m EXCEPT !.work = Pop(m.work)]
             n == Len(m.work.items)
         IN /\ x \in Allowed(S) /\ x = m.work.items[n] /\ n \in Nat \ {0}
            /\ MarkerOK(g, Item) /\ Tame(g, S)
            /\ g.mark = m.mark /\ g.queued = m.queued /\ g.sentinel = m.sentinel
            /\ Len(g.work.items) = n - 1
            /\ \A i \in 1..(n - 1) : g.work.items[i] = m.work.items[i]
            /\ Neat(m, B) => Neat(g, B)
<1> DEFINE x == TopItem(m.work)
           p == Pop(m.work)
           g == [m EXCEPT !.work = p]
           n == Len(m.work.items)
<1>1. /\ m.work \in StackOver(Item) /\ WellFormed(m.work, SegSize)
      /\ m.work.items \in Seq(Item) /\ n \in Nat \ {0} /\ SegSize \in Nat \ {0}
  BY MarkerFields
<1>2. n > 0
  BY <1>1
<1>3. /\ p \in StackOver(Item) /\ WellFormed(p, SegSize)
      /\ Len(p.items) = n - 1
      /\ \A i \in 1..Len(p.items) : p.items[i] = m.work.items[i]
  BY <1>1, <1>2, PopStack
<1>4. x = m.work.items[n] /\ x \in Items(m.work)
  BY <1>1 DEF TopItem, Items
<1> HIDE DEF p
<1>5. /\ MarkerOK(g, Item) /\ g.work = p
      /\ g.mark = m.mark /\ g.queued = m.queued /\ g.sentinel = m.sentinel
  BY <1>3 DEF MarkerOK, MarkerOver
<1> HIDE DEF x, g
<1>6. x \in Allowed(S)
  BY <1>4 DEF Tame
<1>7. Tame(g, S)
  <2>1. ASSUME NEW i \in 1..Len(p.items) PROVE p.items[i] \in Allowed(S)
    <3>1. i \in 1..n /\ p.items[i] = m.work.items[i]
      BY <1>1, <1>3
    <3> QED
      BY <3>1 DEF Tame, Items
  <2> QED
    BY <2>1, <1>5 DEF Tame, Items
<1>8. ASSUME Neat(m, B) PROVE Neat(g, B)
  <2>1. \A i \in 1..Len(p.items) : i \in 1..n /\ p.items[i] = m.work.items[i]
    BY <1>1, <1>3
  <2>2. \A i, j \in 1..Len(p.items) :
          /\ /\ p.items[i].t = "object" /\ p.items[j].t = "object"
             /\ p.items[i].b = p.items[j].b
             => i = j
          /\ p.items[i].t = "rootchunk" /\ p.items[j].t = "rootchunk" => i = j
    <3>1. TAKE i, j \in 1..Len(p.items)
    <3>2. /\ i \in 1..n /\ p.items[i] = m.work.items[i]
          /\ j \in 1..n /\ p.items[j] = m.work.items[j]
      BY <2>1
    <3> QED
      BY <3>2, <1>8 DEF Neat
  <2>3. \A i \in 1..Len(p.items) :
          /\ p.items[i].t = "object" => /\ p.items[i].b \in m.queued
                                        /\ \A y \in B : y.b # p.items[i].b
          /\ p.items[i].t = "rootprot" => i = m.sentinel
          /\ p.items[i].t = "rootchunk" => m.sentinel # 0 /\ m.sentinel < i
    <3>1. TAKE i \in 1..Len(p.items)
    <3>2. i \in 1..n /\ p.items[i] = m.work.items[i]
      BY <2>1
    <3> QED
      BY <3>2, <1>8 DEF Neat
  <2>4. (\A o \in m.mark : o \notin m.queued) /\ \A y \in B : y.t = "object" /\ y.b \in m.queued
    BY <1>8 DEF Neat
  <2> QED
    BY <1>5, <2>2, <2>3, <2>4 DEF Neat
<1>9. \A i \in 1..(n - 1) : g.work.items[i] = m.work.items[i]
  BY <1>3, <1>5
<1> QED
  BY <1>1, <1>3, <1>4, <1>5, <1>6, <1>7, <1>8, <1>9 DEF x, g, p

LEMMA MarkTopTame ==
  ASSUME HeapOK, NEW S, Region(S), NEW B, MarkerOK(m, Item), SentinelIn(m), Tame(m, S),
         m.work.items # <<>>, NEW more \in BOOLEAN
  PROVE  LET h == MarkTop(more)
         IN Tame(h, S) /\ (Neat(m, B) => Neat(h, B))
<1> DEFINE x == TopItem(m.work)
           g == [m EXCEPT !.work = Pop(m.work)]
           h == MarkTop(more)
           n == Len(m.work.items)
<1> SUFFICES Tame(h, S) /\ (Neat(m, B) => Neat(h, B))
  OBVIOUS
<1>1. /\ x \in Allowed(S) /\ x = m.work.items[n] /\ n \in Nat \ {0}
      /\ MarkerOK(g, Item) /\ Tame(g, S)
      /\ g.mark = m.mark /\ g.queued = m.queued /\ g.sentinel = m.sentinel
      /\ Len(g.work.items) = n - 1
      /\ \A i \in 1..(n - 1) : g.work.items[i] = m.work.items[i]
      /\ Neat(m, B) => Neat(g, B)
  BY PopTame
<1>2. h = CASE x.t = "object" -> MarkObject(g, x.b, more)
            [] x.t = "tail" -> MarkTail(g, x.b, x.k, more)
            [] x.t \in {"chunk", "rootchunk", "stack"} -> MarkParts(g, x.t, x.b, x.k, more)
            [] x.t = "rootprot" -> [g EXCEPT !.sentinel = 0]
            [] x.t = "objprot" -> [g EXCEPT !.prot = @ \ {x.b}]
            [] x.t = "dead" -> g
  BY DEF MarkTop
<1> HIDE DEF x, g, h, n
<1>3. x \in Item /\ (x = Dead \/ (x.b \in S /\ (x.t \in Split => Parts(x.b) > 1)))
  BY <1>1 DEF Allowed
<1>4. x.t = "dead" \/ (x.b \in S /\ (x.t \in Split => Parts(x.b) > 1))
  BY <1>3 DEF Dead
<1>5. CASE x.t = "object"
  <2>1. x.b \in S \cap Obj /\ h = MarkObject(g, x.b, more)
    BY <1>2, <1>3, <1>4, <1>5, MarkAssumption DEF Item, Dead
  <2>2. ASSUME Neat(m, B)
        PROVE  /\ \A y \in Items(g.work) : y.t = "object" => y.b # x.b
               /\ \A y \in B : y.b # x.b
    <3>1. ASSUME NEW i \in 1..(n - 1), m.work.items[i].t = "object"
          PROVE  m.work.items[i].b # x.b
      <4>1. i \in 1..n /\ n \in 1..n /\ i # n
        BY <1>1
      <4> QED
        BY <4>1, <3>1, <2>2, <1>1, <1>5 DEF Neat, n
    <3>2. \A y \in B : y.b # x.b
      <4>1. n \in 1..n
        BY <1>1
      <4> QED
        BY <4>1, <2>2, <1>1, <1>5 DEF Neat, n
    <3> QED
      BY <3>1, <3>2, <1>1 DEF Items
  <2> QED
    BY <2>1, <2>2, <1>1, MarkObjectTame
<1>6. CASE x.t = "tail"
  <2>1. x.b \in S \cap Obj /\ x.k \in Slot /\ Parts(x.b) > 1 /\ h = MarkTail(g, x.b, x.k, more)
    BY <1>2, <1>3, <1>4, <1>6, MarkAssumption DEF Item, Dead, Split
  <2> QED
    BY <2>1, <1>1, MarkTailTame
<1>7. CASE x.t \in {"chunk", "rootchunk", "stack"}
  <2>1. x.k \in Slot /\ x.b \in S /\ h = MarkParts(g, x.t, x.b, x.k, more)
    BY <1>2, <1>3, <1>4, <1>7, MarkAssumption DEF Item, Dead
  <2>2. \A j \in Slot : Work(x.t, x.b, j) \in Item
    BY <1>3, <1>7, MarkAssumption DEF Item, Dead, Work
  <2>3. ASSUME Neat(m, B), x.t = "rootchunk"
        PROVE  /\ g.sentinel # 0 /\ g.sentinel <= Len(g.work.items)
               /\ \A y \in Items(g.work) : y.t # "rootchunk"
    <3>1. n \in 1..n
      BY <1>1
    <3>2. g.sentinel # 0 /\ g.sentinel < n
      BY <3>1, <2>3, <1>1 DEF Neat, n
    <3>3. g.sentinel <= Len(g.work.items)
      BY <3>2, <1>1, MarkerFields
    <3>4. ASSUME NEW i \in 1..(n - 1) PROVE m.work.items[i].t # "rootchunk"
      <4>1. i \in 1..n /\ i # n
        BY <1>1
      <4> QED
        BY <4>1, <3>1, <2>3, <1>1 DEF Neat, n
    <3> QED
      BY <3>2, <3>3, <3>4, <1>1 DEF Items
  <2> QED
    BY <2>1, <2>2, <2>3, <1>1, <1>7, MarkPartsTame
<1>8. CASE x.t = "rootprot"
  <2>1. h = [g EXCEPT !.sentinel = 0]
    BY <1>2, <1>8
  <2>2. /\ h.work = g.work /\ h.mark = g.mark /\ h.queued = g.queued /\ h.sentinel = 0
    BY <2>1, <1>1 DEF MarkerOK, MarkerOver
  <2>3. ASSUME Neat(m, B), NEW i \in 1..(n - 1)
        PROVE  g.work.items[i].t # "rootprot" /\ g.work.items[i].t # "rootchunk"
    <3>1. i \in 1..n /\ n \in 1..n /\ i # n /\ i < n
      BY <1>1
    <3>2. g.sentinel = n
      BY <3>1, <2>3, <1>1, <1>8 DEF Neat, n
    <3>3. Neat(g, B) /\ i \in 1..Len(g.work.items)
      BY <2>3, <1>1
    <3> QED
      BY <3>1, <3>2, <3>3 DEF Neat
  <2>4. Tame(h, S)
    BY <2>2, <1>1 DEF Tame
  <2>5. ASSUME Neat(m, B) PROVE Neat(h, B)
    <3>1. Neat(g, B)
      BY <2>5, <1>1
    <3>2. \A i \in 1..Len(g.work.items) :
            g.work.items[i].t # "rootprot" /\ g.work.items[i].t # "rootchunk"
      BY <2>3, <2>5, <1>1
    <3> QED
      BY <3>1, <3>2, <2>2 DEF Neat
  <2> QED
    BY <2>4, <2>5
<1>9. CASE x.t = "objprot"
  <2>1. h = [g EXCEPT !.prot = @ \ {x.b}]
    BY <1>2, <1>9
  <2>2. h.work = g.work /\ h.mark = g.mark /\ h.queued = g.queued /\ h.sentinel = g.sentinel
    BY <2>1, <1>1 DEF MarkerOK, MarkerOver
  <2> QED
    BY <2>2, <1>1 DEF Tame, Neat
<1>10. CASE x.t = "dead"
  <2>1. h = g
    BY <1>2, <1>10
  <2> QED
    BY <2>1, <1>1
<1>11. x.t \in {"object", "tail", "chunk", "rootchunk", "stack", "rootprot", "objprot", "dead"}
  BY <1>3 DEF Item, Dead
<1> QED
  BY <1>5, <1>6, <1>7, <1>8, <1>9, <1>10, <1>11

-----------------------------------------------------------------------------
(* The roots.                                                               *)

NoRootWork(g) == \A x \in Items(g.work) : x.t # "rootprot" /\ x.t # "rootchunk"

\* What dies of a stack: the protector at c, and the first item above it.
LEMMA ClearedItems ==
  ASSUME NEW s \in StackOver(Item), NEW c, NEW dying
  PROVE  LET p == ClearWithItemAbove(s, c, dying)
         IN /\ Len(p.items) = Len(s.items)
            /\ \A j \in 1..Len(s.items) :
                 /\ p.items[j] = s.items[j] \/ p.items[j] = Dead
                 /\ j = c => p.items[j] = Dead
                 /\ /\ j > c /\ s.items[j] \in dying
                    /\ \A l \in (c + 1)..(j - 1) : s.items[l] \notin dying
                    => p.items[j] = Dead
<1> DEFINE first(j) == j > c /\ s.items[j] \in dying
                       /\ \A l \in (c + 1)..(j - 1) : s.items[l] \notin dying
           at(j) == IF j = c \/ first(j) THEN Dead ELSE s.items[j]
           n == Len(s.items)
           it == [j \in 1..n |-> at(j)]
           p == ClearWithItemAbove(s, c, dying)
<1>1. s.items \in Seq(Item) /\ n \in Nat
  BY DEF StackOver
<1>2. p.items = it
  BY DEF ClearWithItemAbove, StackOver
<1> HIDE DEF p
<1>3. \A j \in 1..n : /\ at(j) = s.items[j] \/ at(j) = Dead
                      /\ j = c \/ first(j) => at(j) = Dead
  <2> HIDE DEF first
  <2> QED
    OBVIOUS
<1> HIDE DEF at, n
<1>4. DOMAIN it = 1..n /\ \A j \in 1..n : it[j] = at(j)
  OBVIOUS
<1>5. Len(it) = n
  <2>1. it \in Seq(Item \cup {Dead})
    <3>1. \A j \in 1..n : at(j) \in Item \cup {Dead}
      BY <1>1, <1>3 DEF n
    <3> QED
      BY <3>1, <1>1
  <2> HIDE DEF it
  <2> QED
    BY <2>1, <1>1, <1>4
<1> HIDE DEF it
<1> QED
  BY <1>2, <1>3, <1>4, <1>5 DEF p, n

LEMMA SetSentinelTame ==
  ASSUME NEW S, NEW g, MarkerOK(g, Item), Tame(g, S), NEW i \in Nat
  PROVE  LET h == SetSentinel(g, i)
         IN /\ MarkerOK(h, Item) /\ Tame(h, S)
            /\ h.mark = g.mark /\ h.queued = g.queued /\ h.sentinel = i
            /\ Len(h.work.items) = Len(g.work.items)
            /\ \A j \in 1..Len(g.work.items) :
                 h.work.items[j] = g.work.items[j] \/ h.work.items[j] = Dead
<1> DEFINE chunks == {Work("rootchunk", Root, k) : k \in Slot}
           old == IF g.sentinel = 0 THEN g.work
                  ELSE ClearWithItemAbove(g.work, g.sentinel, chunks)
           h == SetSentinel(g, i)
<1>1. SetsSentinel(g, h, i)
  BY SetSentinelEffect
<1>2. h = [g EXCEPT !.work = old, !.sentinel = i]
  BY DEF SetSentinel
<1> HIDE DEF chunks
<1>3. \A j \in 1..Len(g.work.items) :
        old.items[j] = g.work.items[j] \/ old.items[j] = Dead
  BY MarkerFields, ClearedItems
<1> HIDE DEF old
<1>4. h.work = old
  BY <1>2 DEF MarkerOK, MarkerOver
<1> HIDE DEF h
<1>5. /\ MarkerOK(h, Item) /\ h.mark = g.mark /\ h.queued = g.queued /\ h.sentinel = i
      /\ Len(h.work.items) = Len(g.work.items)
  BY <1>1 DEF SetsSentinel
<1>6. Tame(h, S)
  <2>1. Dead \in Allowed(S)
    BY ItemFacts DEF Allowed
  <2>2. \A j \in 1..Len(h.work.items) : h.work.items[j] \in Allowed(S)
    BY <2>1, <1>3, <1>4, <1>5 DEF Tame, Items
  <2> QED
    BY <2>2, <1>5 DEF Tame, Items
<1> QED
  BY <1>3, <1>4, <1>5, <1>6 DEF h

LEMMA MarkRootsTame ==
  ASSUME HeapOK, NEW S, Region(S), NEW B, NEW g, MarkerOK(g, Item), SentinelIn(g),
         Tame(g, S), NEW more \in BOOLEAN
  PROVE  LET h == MarkRoots(g, more)
         IN /\ MarkerOK(h, Item) /\ Tame(h, S)
            /\ Neat(g, B) /\ NoRootWork(g) => Neat(h, B)
<1> DEFINE x == Work("rootprot", Root, 1)
           pushed == PushItem(g, x, more)
           i == Count(pushed.work)
           s == IF Parts(Root) > 1 THEN ProtectRoot(g, more) ELSE g
           h == MarkRoots(g, more)
           n == Len(g.work.items)
<1>1. CASE Root \notin live
  BY <1>1 DEF MarkRoots
<1>2. CASE Root \in live
  <2>1. /\ h = MarkParts(s, "rootchunk", Root, 1, more)
        /\ h = Trace(IF 1 < Parts(Root) THEN PushItem(s, Work("rootchunk", Root, 1 + 1), more)
                     ELSE s, mem[Root][1], more)
    BY <1>2 DEF MarkRoots, MarkParts
  <2>2. /\ Root \in S /\ 1 \in Slot /\ \A j \in Slot : Work("rootchunk", Root, j) \in Item
        /\ mem[Root][1] \in (S \cap Obj) \cup {Null} /\ Parts(Root) \in {0} \cup Slot
        /\ Parts(Root) \in Nat
    BY <1>2, SlotFacts, ItemFacts, RegionFacts, HeapFacts DEF Region
  <2>3. x \in Item /\ x.t = "rootprot" /\ x.b = Root /\ x \in Allowed(S)
    BY <2>2, ItemFacts DEF Work, Allowed, Split
  <2>4. n \in Nat /\ g.sentinel \in Nat
    BY MarkerFields
  <2> HIDE DEF x, n
  <2>5. /\ MarkerOK(pushed, Item) /\ Tame(pushed, S)
        /\ pushed.mark = g.mark /\ pushed.queued = g.queued
        /\ CanPush(g.work, SegSize, more) => Appends(g, pushed, x)
        /\ ~CanPush(g.work, SegSize, more) => SameWork(g, pushed) /\ pushed.work = g.work
    <3>1. MarkerOK(pushed, Item) /\ Tame(pushed, S)
      BY <2>3, PushItemTame
    <3>2. pushed.mark = g.mark /\ pushed.queued = g.queued
          /\ (Appends(g, pushed, x) \/ SameWork(g, pushed))
      BY <2>3, PushItemCases
    <3>3. CanPush(g.work, SegSize, more) => Len(pushed.work.items) = n + 1
      BY <2>3, PushItemExtends DEF n
    <3>4. ~CanPush(g.work, SegSize, more) => pushed.work = g.work
      BY DEF PushItem, MarkerOK, MarkerOver
    <3> HIDE DEF pushed
    <3>5. ~CanPush(g.work, SegSize, more) => SameWork(g, pushed)
      BY <3>2, <3>4, <2>4 DEF Appends, SameWork, n
    <3>6. CanPush(g.work, SegSize, more) => Appends(g, pushed, x)
      BY <3>2, <3>3, <2>4 DEF SameWork, n
    <3> QED
      BY <3>1, <3>2, <3>4, <3>5, <3>6
  <2>6. ProtectRoot(g, more) = IF CanPush(g.work, SegSize, more) THEN SetSentinel(pushed, i)
                               ELSE pushed
    BY DEF ProtectRoot, x
  <2>7. i \in Nat /\ i = Len(pushed.work.items)
    BY <2>5, MarkerFields DEF Count
  <2> HIDE DEF pushed, i
  <2>8. MarkerOK(s, Item) /\ Tame(s, S)
    BY <2>5, <2>6, <2>7, SetSentinelTame
  <2>9. CASE Parts(Root) > 1 /\ CanPush(g.work, SegSize, more)
    <3> DEFINE z == SetSentinel(pushed, i)
    <3>1. s = z
      BY <2>6, <2>9
    <3> HIDE DEF s
    <3>2. ASSUME Neat(g, B), NoRootWork(g)
          PROVE  /\ Neat(s, B) /\ s.sentinel # 0 /\ s.sentinel <= Len(s.work.items)
                 /\ \A y \in Items(s.work) : y.t # "rootchunk"
      <4>1. /\ z.mark = g.mark /\ z.queued = g.queued /\ z.sentinel = i
            /\ Len(z.work.items) = Len(pushed.work.items)
            /\ \A j \in 1..Len(pushed.work.items) :
                 z.work.items[j] = pushed.work.items[j] \/ z.work.items[j] = Dead
        BY <2>5, <2>7, SetSentinelTame
      <4>2. /\ Len(pushed.work.items) = n + 1 /\ i = n + 1
            /\ \A j \in 1..n : pushed.work.items[j] = g.work.items[j]
            /\ pushed.work.items[n + 1] = x
        BY <2>5, <2>7, <2>9 DEF Appends, n
      <4> HIDE DEF z
      <4>3. ASSUME NEW j \in 1..(n + 1)
            PROVE  \/ z.work.items[j] = Dead
                   \/ j = n + 1 /\ z.work.items[j] = x
                   \/ j \in 1..n /\ z.work.items[j] = g.work.items[j]
        <5>1. j \in 1..n \/ j = n + 1
          BY <2>4
        <5> QED
          BY <5>1, <4>1, <4>2
      <4>4. \A j \in 1..n : /\ g.work.items[j].t # "rootprot" /\ g.work.items[j].t # "rootchunk"
                            /\ g.work.items[j].t = "object" =>
                                 /\ g.work.items[j].b \in g.queued
                                 /\ \A y \in B : y.b # g.work.items[j].b
        BY <3>2 DEF NoRootWork, Items, Neat, n
      <4>5. \A j \in 1..(n + 1) :
              /\ z.work.items[j].t # "rootchunk"
              /\ z.work.items[j].t = "rootprot" => j = n + 1
              /\ z.work.items[j].t = "object" =>
                   /\ j \in 1..n /\ z.work.items[j] = g.work.items[j]
                   /\ z.work.items[j].b \in g.queued
                   /\ \A y \in B : y.b # z.work.items[j].b
        <5>1. TAKE j \in 1..(n + 1)
        <5>2. CASE z.work.items[j] = Dead
          BY <5>2 DEF Dead
        <5>3. CASE j = n + 1 /\ z.work.items[j] = x
          BY <5>3, <2>3
        <5>4. CASE j \in 1..n /\ z.work.items[j] = g.work.items[j]
          BY <5>4, <4>4
        <5> QED
          BY <4>3, <5>2, <5>3, <5>4
      <4>6. \A j, l \in 1..(n + 1) :
              /\ z.work.items[j].t = "object" /\ z.work.items[l].t = "object"
              /\ z.work.items[j].b = z.work.items[l].b
              => j = l
        <5>1. TAKE j, l \in 1..(n + 1)
        <5>2. HAVE /\ z.work.items[j].t = "object" /\ z.work.items[l].t = "object"
                   /\ z.work.items[j].b = z.work.items[l].b
        <5>3. /\ j \in 1..n /\ z.work.items[j] = g.work.items[j]
              /\ l \in 1..n /\ z.work.items[l] = g.work.items[l]
          BY <5>2, <4>5
        <5> QED
          BY <5>2, <5>3, <3>2 DEF Neat, n
      <4>7. (\A o \in z.mark : o \notin z.queued) /\ \A y \in B : y.t = "object" /\ y.b \in z.queued
        BY <3>2, <4>1 DEF Neat
      <4>8. Len(z.work.items) = n + 1 /\ z.sentinel = n + 1 /\ z.queued = g.queued
        BY <4>1, <4>2
      <4>9. Neat(z, B)
        BY <4>5, <4>6, <4>7, <4>8 DEF Neat
      <4>10. \A y \in Items(z.work) : y.t # "rootchunk"
        BY <4>5, <4>8 DEF Items
      <4> QED
        BY <4>8, <4>9, <4>10, <3>1, <2>4
    <3> HIDE DEF h
    <3>3. /\ MarkerOK(h, Item) /\ Tame(h, S)
          /\ /\ Neat(s, B)
             /\ /\ s.sentinel # 0 /\ s.sentinel <= Len(s.work.items)
                /\ \A y \in Items(s.work) : y.t # "rootchunk"
             => Neat(h, B)
      BY <2>1, <2>2, <2>8, MarkPartsTame
    <3> QED
      BY <3>2, <3>3 DEF h
  <2>10. CASE Parts(Root) > 1 /\ ~CanPush(g.work, SegSize, more)
    <3> DEFINE c == PushItem(s, Work("rootchunk", Root, 1 + 1), more)
    <3>1. s = pushed /\ s.work = g.work /\ SameWork(g, s)
      BY <2>5, <2>6, <2>10
    <3> HIDE DEF s
    <3>2. h = Trace(c, mem[Root][1], more)
      BY <2>1, <2>10
    <3>3. 1 + 1 \in Slot
      BY <2>2, <2>10, SlotFacts
    <3>4. Work("rootchunk", Root, 1 + 1) \in Allowed(S)
      BY <2>2, <3>3 DEF Allowed, Work, Split
    <3>5. MarkerOK(c, Item) /\ Tame(c, S)
      BY <2>8, <3>4, PushItemTame
    <3>6. c = [s EXCEPT !.overflow = TRUE]
      BY <2>10, <3>1 DEF PushItem
    <3>7. /\ c.work = g.work /\ c.mark = g.mark /\ c.queued = g.queued /\ c.sentinel = g.sentinel
      <4>1. c.work = s.work /\ c.mark = s.mark /\ c.queued = s.queued /\ c.sentinel = s.sentinel
        BY <2>8, <3>6 DEF MarkerOK, MarkerOver
      <4> QED
        BY <4>1, <3>1, <2>5 DEF SameWork
    <3> HIDE DEF c, h
    <3>8. Neat(g, B) => Neat(c, B)
      BY <3>7 DEF Neat
    <3>9. MarkerOK(h, Item) /\ Tame(h, S) /\ (Neat(c, B) => Neat(h, B))
      BY <2>2, <3>2, <3>5, TraceTame
    <3> QED
      BY <3>8, <3>9 DEF h
  <2>11. CASE ~(Parts(Root) > 1)
    <3>1. s = g /\ h = Trace(g, mem[Root][1], more)
      BY <2>1, <2>2, <2>11
    <3> HIDE DEF h
    <3>2. MarkerOK(h, Item) /\ Tame(h, S) /\ (Neat(g, B) => Neat(h, B))
      BY <3>1, <2>2, TraceTame
    <3> QED
      BY <3>2 DEF h
  <2> QED
    BY <2>9, <2>10, <2>11
<1> QED
  BY <1>1, <1>2

LEMMA MarkStackMemoryTame ==
  ASSUME NEW S, Region(S), NEW B, NEW g, MarkerOK(g, Item), Tame(g, S), NEW more \in BOOLEAN
  PROVE  LET h == MarkStackMemory(g, more)
         IN /\ MarkerOK(h, Item) /\ Tame(h, S)
            /\ Neat(g, B) => Neat(h, B)
<1> DEFINE x == Work("stack", Stack, 1)
<1>1. x \in Allowed(S) /\ x.t = "stack"
  BY ItemFacts, SlotFacts DEF Allowed, Work, Region, Split
<1>2. MarkStackMemory(g, more) = PushItem(g, x, more)
  BY DEF MarkStackMemory
<1> HIDE DEF x
<1> QED
  BY <1>1, <1>2, PushItemTame

-----------------------------------------------------------------------------
(* The barrier's work.  A stack is dealt out to two others if each of its   *)
(* items goes to one of them at most.                                       *)

Once(s) == \A i, j \in 1..Len(s.items) : s.items[i].b = s.items[j].b => i = j

Dealt(w, left, s) ==
  /\ \A x \in Items(w) \cup Items(left) : x \in Items(s)
  /\ Once(s) => /\ Once(w) /\ Once(left)
                /\ \A x \in Items(w), y \in Items(left) : y.b # x.b

LEMMA OneBelowTopDealt ==
  ASSUME NEW s \in StackOver(Item), NEW limit \in Nat \ {0}, WellFormed(s, limit),
         Len(s.base) > 1
  PROVE  Dealt(Insert(OneBelowTop(s)), WithoutOneBelowTop(s), s)
<1> DEFINE w == Insert(OneBelowTop(s))
           left == WithoutOneBelowTop(s)
           n == Len(s.base)
           lo == s.base[n - 1]
           hi == s.base[n]
           low == SubSeq(s.items, 1, lo)
           mid == SubSeq(s.items, lo + 1, hi)
           high == SubSeq(s.items, hi + 1, Len(s.items))
           len == Len(s.items)
<1>1. s.items \in Seq(Item) /\ s.base \in Seq(Nat) /\ n \in Nat /\ n > 1 /\ len \in Nat
  BY DEF StackOver
<1>2. lo \in Nat /\ hi \in Nat
  BY <1>1
<1>3. lo < hi /\ hi < len
  <2>1. hi - lo \in 1..limit /\ len - hi \in 1..limit
    BY <1>1 DEF WellFormed, TopCount, Count
  <2> HIDE DEF lo, hi, len
  <2> QED
    BY <1>1, <1>2, <2>1
<1>4. w.items = mid
  BY DEF Insert, OneBelowTop
<1>5. left = [s EXCEPT !.items = low \o high, !.base = SubSeq(s.base, 1, n - 1)]
  BY DEF WithoutOneBelowTop, StackOver
<1>6. left.items = low \o high
  <2> HIDE DEF left, low, high, n
  <2> QED
    BY <1>5 DEF StackOver
<1> HIDE DEF w, left, lo, hi, len
<1>7. low \in Seq(Item) /\ Len(low) = lo /\ \A i \in 1..lo : low[i] = s.items[i]
  BY <1>1, <1>2, <1>3 DEF len
<1>8. mid \in Seq(Item) /\ Len(mid) = hi - lo
      /\ \A i \in 1..(hi - lo) : mid[i] = s.items[lo + i]
  <2>1. mid \in Seq(Item) /\ Len(mid) = hi - lo
    BY <1>1, <1>2, <1>3 DEF len
  <2>2. ASSUME NEW i \in 1..(hi - lo) PROVE mid[i] = s.items[lo + i]
    BY <1>1, <1>2, <1>3 DEF len
  <2> QED
    BY <2>1, <2>2
<1>9. high \in Seq(Item) /\ Len(high) = len - hi
      /\ \A i \in 1..(len - hi) : high[i] = s.items[hi + i]
  BY <1>1, <1>2, <1>3 DEF len
<1> HIDE DEF low, mid, high
<1>10. /\ Len(left.items) = lo + (len - hi)
       /\ \A i \in 1..lo : left.items[i] = low[i]
       /\ \A i \in 1..(len - hi) : left.items[lo + i] = high[i]
  <2>1. low \in Seq(Item) /\ high \in Seq(Item) /\ left.items = low \o high
    BY <1>6, <1>7, <1>9
  <2>2. Len(left.items) = Len(low) + Len(high)
    BY <2>1
  <2>3. \A i \in 1..Len(low) : left.items[i] = low[i]
    BY <2>1
  <2>4. \A i \in 1..Len(high) : left.items[Len(low) + i] = high[i]
    BY <2>1
  <2> QED
    BY <1>7, <1>9, <2>2, <2>3, <2>4
<1>11. ASSUME NEW i \in 1..Len(w.items)
       PROVE  lo + i \in 1..len /\ lo < lo + i /\ lo + i <= hi /\ w.items[i] = s.items[lo + i]
  BY <1>1, <1>2, <1>3, <1>4, <1>8
<1> DEFINE from(i) == IF i <= lo THEN i ELSE i + (hi - lo)
<1>12. ASSUME NEW i \in 1..Len(left.items)
       PROVE  /\ from(i) \in 1..len /\ (from(i) <= lo \/ from(i) > hi)
              /\ left.items[i] = s.items[from(i)]
  <2>1. CASE i <= lo
    BY <2>1, <1>1, <1>2, <1>3, <1>7, <1>10
  <2>2. CASE ~(i <= lo)
    <3>1. i - lo \in 1..(len - hi) /\ lo + (i - lo) = i /\ hi + (i - lo) = i + (hi - lo)
      BY <2>2, <1>1, <1>2, <1>3, <1>10
    <3>2. left.items[i] = s.items[i + (hi - lo)]
      BY <3>1, <1>9, <1>10
    <3>3. i + (hi - lo) \in 1..len /\ i + (hi - lo) > hi
      BY <3>1, <1>1, <1>2, <1>3
    <3> QED
      BY <2>2, <3>2, <3>3
  <2> QED
    BY <2>1, <2>2
<1>13. ASSUME NEW i \in 1..Len(left.items), NEW j \in 1..Len(left.items), from(i) = from(j)
       PROVE  i = j
  BY <1>1, <1>2, <1>3, <1>10, <1>13
<1>14. \A x \in Items(w) \cup Items(left) : x \in Items(s)
  <2> HIDE DEF from
  <2> QED
    BY <1>11, <1>12 DEF Items, len
<1>15. ASSUME Once(s) PROVE Once(w)
  <2>1. ASSUME NEW i \in 1..Len(w.items), NEW j \in 1..Len(w.items),
               w.items[i].b = w.items[j].b
        PROVE  i = j
    <3>1. lo + i \in 1..len /\ lo + j \in 1..len /\ s.items[lo + i].b = s.items[lo + j].b
      BY <2>1, <1>11
    <3>2. lo + i = lo + j
      BY <3>1, <1>15 DEF Once, len
    <3> QED
      BY <3>2, <1>2
  <2> QED
    BY <2>1 DEF Once
<1> HIDE DEF from
<1>16. ASSUME Once(s) PROVE Once(left)
  <2>1. ASSUME NEW i \in 1..Len(left.items), NEW j \in 1..Len(left.items),
               left.items[i].b = left.items[j].b
        PROVE  i = j
    <3>1. from(i) \in 1..len /\ from(j) \in 1..len /\ s.items[from(i)].b = s.items[from(j)].b
      BY <2>1, <1>12
    <3>2. from(i) = from(j)
      BY <3>1, <1>16 DEF Once, len
    <3> QED
      BY <3>2, <1>13
  <2> QED
    BY <2>1 DEF Once
<1>17. ASSUME Once(s), NEW i \in 1..Len(w.items), NEW j \in 1..Len(left.items)
       PROVE  left.items[j].b # w.items[i].b
  <2>1. lo + i \in 1..len /\ lo < lo + i /\ lo + i <= hi /\ w.items[i] = s.items[lo + i]
    BY <1>11
  <2>2. from(j) \in 1..len /\ (from(j) <= lo \/ from(j) > hi) /\ left.items[j] = s.items[from(j)]
    BY <1>12
  <2>3. lo + i # from(j)
    BY <2>1, <2>2, <1>2
  <2> QED
    BY <2>1, <2>2, <2>3, <1>17 DEF Once, len
<1> QED
  BY <1>14, <1>15, <1>16, <1>17 DEF Dealt, Items, w, left

\* Work that comes to an empty mark stack from the barrier's.
LEMMA DealtTame ==
  ASSUME NEW S, MarkerOK(m, Item), SentinelIn(m), IsEmpty(m.work), Tame(m, S),
         \A x \in Items(barrier) : x \in Allowed(S),
         NEW w, NEW left, Dealt(w, left, barrier), NEW h, h.work = w, h.mark = m.mark,
         h.queued = m.queued, h.sentinel = m.sentinel
  PROVE  /\ Tame(h, S) /\ \A x \in Items(left) : x \in Allowed(S)
         /\ Neat(m, Items(barrier)) /\ Once(barrier) =>
              Neat(h, Items(left)) /\ Once(left) /\ NoRootWork(h)
<1>1. Tame(h, S) /\ \A x \in Items(left) : x \in Allowed(S)
  BY DEF Tame, Dealt
<1>2. ASSUME Neat(m, Items(barrier)), Once(barrier)
      PROVE  Neat(h, Items(left)) /\ Once(left) /\ NoRootWork(h)
  <2>1. \A x \in Items(barrier) : x.t = "object" /\ x.b \in m.queued
    BY <1>2 DEF Neat
  <2>2. /\ Once(w) /\ Once(left)
        /\ \A x \in Items(w), y \in Items(left) : y.b # x.b
        /\ \A x \in Items(w) \cup Items(left) : x.t = "object" /\ x.b \in m.queued
    BY <1>2, <2>1 DEF Dealt
  <2>3. \A i \in 1..Len(w.items) : w.items[i] \in Items(w)
    BY DEF Items
  <2>4. \A o \in m.mark : o \notin m.queued
    BY <1>2 DEF Neat
  <2>5. \A i, j \in 1..Len(w.items) :
          /\ /\ w.items[i].t = "object" /\ w.items[j].t = "object"
             /\ w.items[i].b = w.items[j].b
             => i = j
          /\ w.items[i].t = "rootchunk" /\ w.items[j].t = "rootchunk" => i = j
    BY <2>2, <2>3 DEF Once
  <2>6. \A i \in 1..Len(w.items) :
          /\ w.items[i].t = "object" => /\ w.items[i].b \in m.queued
                                        /\ \A y \in Items(left) : y.b # w.items[i].b
          /\ w.items[i].t = "rootprot" => i = m.sentinel
          /\ w.items[i].t = "rootchunk" => m.sentinel # 0 /\ m.sentinel < i
    BY <2>2, <2>3
  <2>7. Neat(h, Items(left))
    BY <2>2, <2>4, <2>5, <2>6 DEF Neat
  <2>8. NoRootWork(h)
    BY <2>2 DEF NoRootWork
  <2> QED
    BY <2>2, <2>7, <2>8
<1> QED
  BY <1>1, <1>2

LEMMA FlushedTame ==
  ASSUME NEW S, MarkerOK(m, Item), SentinelIn(m), IsEmpty(m.work), BarrierOK, Tame(m, S),
         \A x \in Items(barrier) : x \in Allowed(S), NEW more \in BOOLEAN
  PROVE  LET h == Flushed(m, more)
             left == BarrierLeft(m, more)
         IN /\ MarkerOK(h, Item) /\ SentinelIn(h) /\ Tame(h, S)
            /\ \A x \in Items(left) : x \in Allowed(S)
            /\ Neat(m, Items(barrier)) /\ Once(barrier) =>
                 Neat(h, Items(left)) /\ Once(left) /\ NoRootWork(h)
<1> DEFINE h == Flushed(m, more)
           left == BarrierLeft(m, more)
           n == Len(barrier.items)
<1>1. MarkerOK(h, Item) /\ SentinelIn(h)
  BY FlushMoves DEF Moves, Progress
<1>2. /\ m.work.items = <<>> /\ Len(m.work.items) = 0 /\ Items(m.work) = {}
      /\ m.work \in StackOver(Item) /\ WellFormed(m.work, SegSize) /\ SegSize \in Nat \ {0}
      /\ barrier.items \in Seq(Item) /\ n \in Nat
  BY MarkerFields DEF IsEmpty, Items, BarrierOK, StackOver
<1>3. Dealt(h.work, left, barrier)
      /\ h.mark = m.mark /\ h.queued = m.queued /\ h.sentinel = m.sentinel
  <2>1. CASE CanTransferEverything(barrier, more) /\ IsEmpty(barrier)
    <3>1. h = m /\ left = barrier
      BY <2>1 DEF Flushed, BarrierLeft
    <3> HIDE DEF h, left
    <3>2. Once(h.work)
      BY <3>1, <1>2 DEF Once
    <3> QED
      BY <3>1, <3>2, <1>2 DEF Dealt
  <2>2. CASE CanTransferEverything(barrier, more) /\ ~IsEmpty(barrier)
    <3>1. h = [m EXCEPT !.work = Insert(barrier)] /\ left = EmptyStack
      BY <2>2 DEF Flushed, BarrierLeft
    <3>2. h.work = Insert(barrier) /\ h.mark = m.mark /\ h.queued = m.queued
          /\ h.sentinel = m.sentinel
      BY <3>1 DEF MarkerOK, MarkerOver
    <3> HIDE DEF h, left
    <3>3. h.work.items = barrier.items
      BY <3>2 DEF Insert
    <3>4. left.items = <<>> /\ Items(left) = {} /\ Once(left)
      BY <3>1 DEF EmptyStack, Items, Once
    <3>5. Items(h.work) = Items(barrier) /\ (Once(barrier) => Once(h.work))
      BY <3>3 DEF Items, Once
    <3> QED
      BY <3>2, <3>4, <3>5 DEF Dealt
  <2>3. CASE ~CanTransferEverything(barrier, more) /\ CanPush(m.work, SegSize, more)
    <3> DEFINE top == TopItem(barrier)
               w == Push(m.work, top, SegSize)
               p == Pop(barrier)
    <3>1. h = [m EXCEPT !.overflow = TRUE, !.work = w] /\ left = p
      BY <2>3 DEF Flushed, BarrierLeft
    <3>2. n > 0
      BY <1>2, <2>3 DEF CanTransferEverything, IsEmpty
    <3>3. top \in Item /\ top = barrier.items[n] /\ n \in 1..n
      BY <1>2, <3>2 DEF TopItem
    <3> HIDE DEF top
    <3>4. Len(w.items) = 1 /\ w.items[1] = top
      <4>1. top \in Item /\ m.work \in StackOver(Item) /\ WellFormed(m.work, SegSize)
            /\ SegSize \in Nat \ {0}
        BY <1>2, <3>3
      <4>2. LET q == Push(m.work, top, SegSize)
            IN /\ q \in StackOver(Item) /\ WellFormed(q, SegSize)
               /\ Len(q.items) = Len(m.work.items) + 1
               /\ q.items[Len(m.work.items) + 1] = top
        BY <4>1, PushStack
      <4>3. Len(w.items) = Len(m.work.items) + 1 /\ w.items[Len(m.work.items) + 1] = top
        BY <4>2
      <4> HIDE DEF w
      <4> QED
        BY <4>3, <1>2
    <3>5. /\ Len(p.items) = n - 1
          /\ \A i \in 1..Len(p.items) : p.items[i] = barrier.items[i]
      BY <1>2, <3>2, MarkAssumption, PopStack DEF BarrierOK
    <3> HIDE DEF w, p
    <3>6. h.work = w /\ h.mark = m.mark /\ h.queued = m.queued /\ h.sentinel = m.sentinel
      BY <3>1 DEF MarkerOK, MarkerOver
    <3> HIDE DEF h, left, n
    <3>7. \A i \in 1..Len(p.items) : i \in 1..n /\ i # n /\ p.items[i] = barrier.items[i]
      BY <1>2, <3>5
    <3>8. \A x \in Items(w) \cup Items(p) : x \in Items(barrier)
      BY <3>3, <3>4, <3>7 DEF Items, n
    <3>9. ASSUME Once(barrier)
          PROVE  Once(w) /\ Once(p) /\ \A x \in Items(w), y \in Items(p) : y.b # x.b
      <4>1. Once(w)
        BY <3>4 DEF Once
      <4>2. Once(p)
        BY <3>7, <3>9 DEF Once, n
      <4>3. \A i \in 1..Len(p.items) : p.items[i].b # top.b
        BY <3>3, <3>7, <3>9 DEF Once, n
      <4> QED
        BY <4>1, <4>2, <4>3, <3>4 DEF Items
    <3> QED
      BY <3>1, <3>6, <3>8, <3>9 DEF Dealt
  <2>4. CASE ~CanTransferEverything(barrier, more) /\ ~CanPush(m.work, SegSize, more)
    <3>1. h = [m EXCEPT !.overflow = TRUE] /\ left = barrier
      BY <2>4 DEF Flushed, BarrierLeft
    <3>2. h.work = m.work /\ h.mark = m.mark /\ h.queued = m.queued /\ h.sentinel = m.sentinel
      BY <3>1 DEF MarkerOK, MarkerOver
    <3> HIDE DEF h, left
    <3>3. Once(h.work)
      BY <3>2, <1>2 DEF Once
    <3> QED
      BY <3>1, <3>2, <3>3, <1>2 DEF Dealt
  <2> QED
    BY <2>1, <2>2, <2>3, <2>4
<1> HIDE DEF h, left
<1> QED
  BY <1>1, <1>3, DealtTame DEF h, left

LEMMA ShiftedTame ==
  ASSUME NEW S, MarkerOK(m, Item), SentinelIn(m), IsEmpty(m.work), BarrierOK, Tame(m, S),
         \A x \in Items(barrier) : x \in Allowed(S),
         InactiveSegments(barrier) >= BarrierThreshold
  PROVE  LET h == [m EXCEPT !.work = Insert(OneBelowTop(barrier))]
             left == WithoutOneBelowTop(barrier)
         IN /\ Tame(h, S) /\ \A x \in Items(left) : x \in Allowed(S)
            /\ Neat(m, Items(barrier)) /\ Once(barrier) => Neat(h, Items(left)) /\ Once(left)
<1> DEFINE w == Insert(OneBelowTop(barrier))
           left == WithoutOneBelowTop(barrier)
           h == [m EXCEPT !.work = w]
<1>1. BarrierSegSize \in Nat \ {0} /\ Len(barrier.base) > 1
  <2>1. /\ BarrierSegSize \in Nat \ {0} /\ BarrierThreshold \in Nat \ {0}
        /\ Len(barrier.base) \in Nat
    BY MarkAssumption DEF BarrierOK, StackOver
  <2> QED
    BY <2>1 DEF InactiveSegments
<1>2. Dealt(w, left, barrier)
  BY <1>1, OneBelowTopDealt DEF BarrierOK
<1> HIDE DEF w, left
<1>3. h.work = w /\ h.mark = m.mark /\ h.queued = m.queued /\ h.sentinel = m.sentinel
  BY DEF MarkerOK, MarkerOver
<1> HIDE DEF h
<1>4. /\ Tame(h, S) /\ \A x \in Items(left) : x \in Allowed(S)
      /\ Neat(m, Items(barrier)) /\ Once(barrier) => Neat(h, Items(left)) /\ Once(left)
  BY <1>2, <1>3, DealtTame
<1> QED
  BY <1>4 DEF h, w, left

-----------------------------------------------------------------------------
(* The steps of the collector up to the sweep.  From presweep on objects    *)
(* may be queued twice, but nothing is freed then.                          *)

Fine(g, s, S) == Tame(g, S) /\ \A x \in Items(s) : x \in Allowed(S)
Ordered(g, s) == Neat(g, Items(s)) /\ Once(s)
Late == pc \in {"presweep", "resweep"} \/ (pc = "recover" /\ resume = "resweep")

\* A marker step with work leaves the barrier stack alone.
LEMMA MarkTopFine ==
  ASSUME IInv, NEW S, Region(S), Fine(m, barrier, S), ~IsEmpty(m.work),
         NEW more \in More, m' = MarkTop(more), UNCHANGED <<barrier, pc, resume>>
  PROVE  Fine(m', barrier', S) /\ (Late \/ Ordered(m, barrier) => Late' \/ Ordered(m', barrier'))
<1>1. HeapOK /\ MarkerOK(m, Item) /\ SentinelIn(m) /\ more \in BOOLEAN /\ m.work.items # <<>>
  BY InvFacts DEF More, IsEmpty
<1> DEFINE B == Items(barrier)
           h == MarkTop(more)
<1>2. Tame(h, S) /\ (Neat(m, B) => Neat(h, B))
  BY <1>1, MarkTopTame DEF Fine
<1>3. m' = h /\ barrier' = barrier /\ (Late' <=> Late)
  BY DEF Late
<1> HIDE DEF h
<1> QED
  BY <1>2, <1>3 DEF Fine, Ordered

LEMMA ShiftFine ==
  ASSUME IInv, NEW S, Region(S), Fine(m, barrier, S), ShiftBarrierWork
  PROVE  Fine(m', barrier', S) /\ (Late \/ Ordered(m, barrier) => Late' \/ Ordered(m', barrier'))
<1> DEFINE h == [m EXCEPT !.work = Insert(OneBelowTop(barrier))]
           left == WithoutOneBelowTop(barrier)
<1>1. /\ Tame(h, S) /\ \A x \in Items(left) : x \in Allowed(S)
      /\ Neat(m, Items(barrier)) /\ Once(barrier) => Neat(h, Items(left)) /\ Once(left)
  BY InvFacts, ShiftedTame DEF Fine, ShiftBarrierWork
<1>2. m' = h /\ barrier' = left /\ pc = "run"
  BY DEF ShiftBarrierWork, Running
<1> HIDE DEF h, left
<1> QED
  BY <1>1, <1>2 DEF Fine, Ordered, Late

LEMMA EmptyHasNoRoot == IsEmpty(m.work) => NoRootWork(m) /\ Items(m.work) = {}
BY DEF IsEmpty, NoRootWork, Items

LEMMA BeginRecoveryFine ==
  ASSUME IInv, NEW S, Region(S), Fine(m, barrier, S), BeginRecovery
  PROVE  /\ Fine(m', barrier', S)
         /\ Ordered(m, barrier) /\ NoRootWork(m) => Ordered(m', barrier')
<1>1. HeapOK /\ MarkerOK(m, Item) /\ SentinelIn(m) /\ BarrierOK
  BY InvFacts
<1>2. PICK more \in More : m' = MarkRoots([m EXCEPT !.overflow = FALSE], more)
  BY DEF BeginRecovery
<1> DEFINE g == [m EXCEPT !.overflow = FALSE]
           B == Items(barrier)
<1>3. /\ MarkerOK(g, Item) /\ g.work = m.work /\ g.mark = m.mark /\ g.queued = m.queued
      /\ g.sentinel = m.sentinel
  BY <1>1 DEF MarkerOK, MarkerOver
<1>4. m' = MarkRoots(g, more) /\ more \in BOOLEAN
  BY <1>2 DEF More
<1> HIDE DEF g
<1>5. SentinelIn(g) /\ Tame(g, S) /\ (Neat(m, B) => Neat(g, B))
      /\ (NoRootWork(m) => NoRootWork(g))
  BY <1>1, <1>3 DEF SentinelIn, Tame, Fine, Neat, NoRootWork
<1> DEFINE h == MarkRoots(g, more)
<1>6. Tame(h, S) /\ (Neat(g, B) /\ NoRootWork(g) => Neat(h, B))
  BY <1>1, <1>3, <1>4, <1>5, MarkRootsTame
<1>7. m' = h /\ barrier' = barrier
  BY <1>4 DEF BeginRecovery
<1> HIDE DEF h
<1> QED
  BY <1>5, <1>6, <1>7 DEF Fine, Ordered

LEMMA VisitFine ==
  ASSUME IInv, NEW S, Region(S), Fine(m, barrier, S), NEW o \in Obj, Visit(o)
  PROVE  Fine(m', barrier', S) /\ (Late \/ Ordered(m, barrier) => Late' \/ Ordered(m', barrier'))
<1>1. HeapOK /\ MarkerOK(m, Item) /\ SentinelIn(m) /\ BarrierOK
  BY InvFacts
<1>2. PICK more \in More :
        m' = IF o \in m.mark /\ Parts(o) > 0 THEN MarkObject(m, o, more) ELSE m
  BY DEF Visit
<1>3. barrier' = barrier /\ (Late' <=> Late)
  BY DEF Visit, Late
<1>4. CASE o \in m.mark /\ Parts(o) > 0
  <2> DEFINE B == Items(barrier)
             h == MarkObject(m, o, more)
  <2>1. o \in S \cap Obj /\ more \in BOOLEAN
    BY <1>4 DEF Fine, Tame, More
  <2>2. /\ Tame(h, S)
        /\ /\ Neat(m, B)
           /\ \A x \in Items(m.work) : x.t = "object" => x.b # o
           /\ \A x \in B : x.b # o
           => Neat(h, B)
    BY <1>1, <2>1, MarkObjectTame DEF Fine
  <2>3. ASSUME Neat(m, B)
        PROVE  /\ \A x \in Items(m.work) : x.t = "object" => x.b # o
               /\ \A x \in B : x.b # o
    BY <1>4, <2>3 DEF Neat, Items
  <2>4. m' = h
    BY <1>2, <1>4
  <2> HIDE DEF h
  <2> QED
    BY <1>3, <2>2, <2>3, <2>4 DEF Fine, Ordered
<1>5. CASE ~(o \in m.mark /\ Parts(o) > 0)
  BY <1>2, <1>3, <1>5
<1> QED
  BY <1>4, <1>5

LEMMA FinalScanFine ==
  ASSUME IInv, NEW S, Region(S), Fine(m, barrier, S), FinalScan
  PROVE  Fine(m', barrier', S) /\ (Late \/ Ordered(m, barrier) => Late' \/ Ordered(m', barrier'))
<1>1. HeapOK /\ MarkerOK(m, Item) /\ SentinelIn(m) /\ BarrierOK /\ IsEmpty(m.work)
  BY InvFacts DEF FinalScan
<1>2. PICK more \in More :
        /\ m' = MarkStackMemory(MarkRoots(Flushed(m, more), more), more)
        /\ barrier' = BarrierLeft(m, more)
  BY DEF FinalScan
<1>3. more \in BOOLEAN
  BY DEF More
<1> DEFINE f == Flushed(m, more)
           left == BarrierLeft(m, more)
           B == Items(left)
           r == MarkRoots(f, more)
           h == MarkStackMemory(r, more)
<1>4. /\ MarkerOK(f, Item) /\ SentinelIn(f) /\ Tame(f, S)
      /\ \A x \in B : x \in Allowed(S)
      /\ Neat(m, Items(barrier)) /\ Once(barrier) =>
           Neat(f, B) /\ Once(left) /\ NoRootWork(f)
  BY <1>1, <1>3, FlushedTame DEF Fine
<1> HIDE DEF f, left, B
<1>5. MarkerOK(r, Item) /\ Tame(r, S) /\ (Neat(f, B) /\ NoRootWork(f) => Neat(r, B))
  BY <1>1, <1>3, <1>4, MarkRootsTame
<1> HIDE DEF r
<1>6. Tame(h, S) /\ (Neat(r, B) => Neat(h, B))
  BY <1>3, <1>5, MarkStackMemoryTame
<1>7. m' = h /\ barrier' = left /\ ~Late
  BY <1>2 DEF FinalScan, Late, h, r, f, left
<1> HIDE DEF h
<1> QED
  BY <1>4, <1>5, <1>6, <1>7 DEF Fine, Ordered, B

LEMMA EndRecoveryFine ==
  ASSUME IInv, NEW S, Region(S), Fine(m, barrier, S), EndRecovery
  PROVE  Fine(m', barrier', S) /\ (Late \/ Ordered(m, barrier) => Late' \/ Ordered(m', barrier'))
<1>1. HeapOK /\ MarkerOK(m, Item) /\ SentinelIn(m) /\ BarrierOK /\ IsEmpty(m.work)
      /\ pc = "recover" /\ pc' = resume /\ resume' = resume
  BY InvFacts DEF EndRecovery
<1>2. CASE resume = "resweep" /\ UNCHANGED <<m, barrier>>
  BY <1>1, <1>2 DEF Late
<1>3. CASE \E more \in More :
             /\ resume # "resweep"
             /\ barrier' = BarrierLeft(m, more)
             /\ m' = IF resume = "rescan" THEN MarkStackMemory(Flushed(m, more), more)
                     ELSE Flushed(m, more)
  <2>1. PICK more \in More :
             /\ resume # "resweep"
             /\ barrier' = BarrierLeft(m, more)
             /\ m' = IF resume = "rescan" THEN MarkStackMemory(Flushed(m, more), more)
                     ELSE Flushed(m, more)
    BY <1>3
  <2>2. more \in BOOLEAN
    BY DEF More
  <2> DEFINE f == Flushed(m, more)
             left == BarrierLeft(m, more)
             B == Items(left)
             h == MarkStackMemory(f, more)
  <2>3. /\ MarkerOK(f, Item) /\ SentinelIn(f) /\ Tame(f, S)
        /\ \A x \in B : x \in Allowed(S)
        /\ Neat(m, Items(barrier)) /\ Once(barrier) => Neat(f, B) /\ Once(left)
    BY <1>1, <2>2, FlushedTame DEF Fine
  <2>4. barrier' = left /\ (m' = h \/ m' = f) /\ ~Late
    BY <1>1, <2>1 DEF Late
  <2> HIDE DEF f, left, B
  <2>5. Tame(h, S) /\ (Neat(f, B) => Neat(h, B))
    BY <2>2, <2>3, MarkStackMemoryTame
  <2> HIDE DEF h
  <2> QED
    BY <2>3, <2>4, <2>5 DEF Fine, Ordered, B
<1> QED
  BY <1>2, <1>3 DEF EndRecovery

LEMMA CollectorFine ==
  ASSUME IInv, NEW S, Region(S), Fine(m, barrier, S),
         \/ MarkStep \/ ShiftBarrierWork \/ Finish
         \/ Collector /\ ~Sweep
  PROVE  Fine(m', barrier', S) /\ (Late \/ Ordered(m, barrier) => Late' \/ Ordered(m', barrier'))
<1>1. CASE MarkStep
  BY <1>1, MarkTopFine DEF MarkStep
<1>2. CASE ShiftBarrierWork
  BY <1>2, ShiftFine
<1>3. CASE Finish
  BY <1>3 DEF Finish, Running, Late
<1>4. CASE Drain
  BY <1>4, MarkTopFine DEF Drain
<1>5. CASE Recover
  <2>1. Fine(m', barrier', S) /\ (Ordered(m, barrier) => Ordered(m', barrier'))
    BY <1>5, BeginRecoveryFine, EmptyHasNoRoot DEF Recover
  <2>2. Late => Late'
    BY <1>5 DEF Late, Recover, BeginRecovery
  <2> QED
    BY <2>1, <2>2
<1>6. CASE EndRecovery
  BY <1>6, EndRecoveryFine
<1>7. CASE FinalScan
  BY <1>7, FinalScanFine
<1>8. CASE BeginSweep
  <2>1. /\ m' = [m EXCEPT !.work = EmptyStack, !.sentinel = 0]
        /\ barrier' = EmptyStack /\ pc' = "presweep"
    BY <1>8 DEF BeginSweep
  <2>2. m'.work = EmptyStack /\ m'.mark = m.mark /\ m'.queued = m.queued
    BY <2>1, InvFacts DEF MarkerOK, MarkerOver
  <2>3. Items(EmptyStack) = {}
    BY DEF Items, EmptyStack
  <2> QED
    BY <2>1, <2>2, <2>3 DEF Fine, Tame, Late
<1>9. CASE EndPresweep
  <2>1. CASE BeginRecovery /\ resume' = "resweep"
    <3>1. Fine(m', barrier', S)
      BY <2>1, BeginRecoveryFine
    <3>2. Late'
      BY <2>1 DEF Late, BeginRecovery
    <3> QED
      BY <3>1, <3>2
  <2>2. CASE pc' = "resweep" /\ UNCHANGED <<m, barrier>>
    BY <2>2 DEF Late
  <2> QED
    BY <1>9, <2>1, <2>2 DEF EndPresweep
<1>10. CASE \E o \in Obj : Visit(o)
  BY <1>10, VisitFine
<1> QED
  BY <1>1, <1>2, <1>3, <1>4, <1>5, <1>6, <1>7, <1>8, <1>9, <1>10 DEF Collector

-----------------------------------------------------------------------------
(* Garbage.  What was not garbage when marking started is a region, and the *)
(* marker is tame in it.                                                    *)

GarbageKept ==
  /\ doomed \subseteq live
  /\ Region(Memory \ doomed)
  /\ store[1] \notin doomed /\ store[3] \notin doomed
  /\ Fine(m, barrier, Memory \ doomed)

LEMMA FineGrows ==
  ASSUME NEW g, NEW s, NEW S, NEW T, S \subseteq T, Fine(g, s, S)
  PROVE  Fine(g, s, T)
BY DEF Fine, Tame, Allowed

LEMMA GarbageStep ==
  ASSUME IInv, IInv', shape' = shape, doomed' \subseteq live',
         \A b \in Memory \ doomed', k \in Slot : mem'[b][k] \notin doomed',
         store'[1] \notin doomed', store'[3] \notin doomed',
         Fine(m', barrier', Memory \ doomed')
  PROVE  GarbageKept'
<1>1. /\ doomed' \subseteq Obj /\ mem' \in [Memory -> [Slot -> Obj \cup {Null}]]
  BY DEF IInv, TypeOK
<1>2. Region(Memory \ doomed)'
  <2>1. Root \notin doomed' /\ Stack \notin doomed'
    BY <1>1, MarkAssumption
  <2>2. \A b \in Memory \ doomed', k \in Slot : mem'[b][k] \in (Memory \ doomed') \cup {Null}
    BY <1>1 DEF Memory
  <2> QED
    BY <2>1, <2>2 DEF Region, Memory
<1>3. Fine(m, barrier, Memory \ doomed)'
  BY DEF Fine, Tame, Allowed, Parts
<1> QED
  BY <1>2, <1>3 DEF GarbageKept

LEMMA GarbageFacts ==
  ASSUME IInv, GarbageKept
  PROVE  /\ doomed \subseteq live /\ doomed \subseteq Obj /\ Null \notin doomed
         /\ Root \notin doomed /\ Stack \notin doomed
         /\ \A b \in Memory \ doomed, k \in Slot : mem[b][k] \notin doomed
         /\ store[1] \notin doomed /\ store[3] \notin doomed
         /\ \A v \in OnStack : v \notin doomed
         /\ \A b \in Named : b \notin doomed
<1>1. doomed \subseteq Obj
  BY DEF IInv, TypeOK
<1>2. Null \notin doomed /\ Root \notin doomed /\ Stack \notin doomed
  BY <1>1, MarkAssumption
<1>3. \A b \in Memory \ doomed, k \in Slot : mem[b][k] \notin doomed
  BY <1>2 DEF GarbageKept, Region
<1>4. \A v \in OnStack : v \notin doomed
  BY <1>2, <1>3 DEF OnStack, Memory
<1> QED
  BY <1>1, <1>2, <1>3, <1>4 DEF GarbageKept, Named

\* A write of something that is not garbage.
LEMMA GarbageWrite ==
  ASSUME IInv, IInv', GarbageKept, shape' = shape, live \subseteq live', doomed' \in {doomed, {}},
         NEW c \in Memory, NEW i \in Slot, NEW v \in Obj \cup {Null}, v \notin doomed',
         mem' = [mem EXCEPT ![c][i] = v],
         store'[1] \notin doomed', store'[3] \notin doomed',
         Fine(m', barrier', Memory \ doomed')
  PROVE  GarbageKept'
<1>1. \A b \in Memory, k \in Slot :
        mem'[b][k] = IF b = c /\ k = i THEN v ELSE mem[b][k]
  BY MemUpdate DEF IInv, TypeOK
<1>2. doomed' \subseteq live'
  BY DEF GarbageKept
<1>3. ASSUME NEW b \in Memory \ doomed', NEW k \in Slot PROVE mem'[b][k] \notin doomed'
  <2>1. doomed' = doomed => mem[b][k] \notin doomed
    BY GarbageFacts
  <2> QED
    BY <1>1, <2>1
<1> QED
  BY <1>2, <1>3, GarbageStep

LEMMA GarbageRevived ==
  ASSUME IInv, GarbageKept, NEW o \in Obj, doomed' = Revived(o)
  PROVE  /\ doomed' \in {doomed, {}} /\ o \notin doomed'
         /\ Fine(m, barrier, Memory \ doomed')
<1>1. doomed' \in {doomed, {}} /\ o \notin doomed'
  BY DEF Revived
<1>2. Memory \ doomed \subseteq Memory \ doomed'
  BY <1>1
<1> QED
  BY <1>1, <1>2, FineGrows DEF GarbageKept

LEMMA GarbageLoad ==
  ASSUME IInv, IInv', GarbageKept, NEW i \in Slot, NEW b \in Memory, NEW k \in Slot, Load(i, b, k)
  PROVE  GarbageKept'
<1>1. mem[b][k] \notin doomed /\ mem[b][k] \in Obj \cup {Null} /\ Stack \in Memory
  BY GarbageFacts, InvParts DEF Load, Memory
<1>2. /\ UNCHANGED <<shape, live, doomed, store, m, barrier>>
      /\ mem' = [mem EXCEPT ![Stack][i] = mem[b][k]]
  BY DEF Load
<1> DEFINE v == mem[b][k]
<1> HIDE DEF v
<1>3. v \notin doomed' /\ v \in Obj \cup {Null} /\ mem' = [mem EXCEPT ![Stack][i] = v]
  BY <1>1, <1>2 DEF v
<1>4. store'[1] \notin doomed' /\ store'[3] \notin doomed' /\ Fine(m', barrier', Memory \ doomed')
  BY <1>2 DEF GarbageKept
<1> QED
  BY <1>1, <1>2, <1>3, <1>4, GarbageWrite

LEMMA GarbageForget ==
  ASSUME IInv, IInv', GarbageKept, NEW i \in Slot, Forget(i)
  PROVE  GarbageKept'
<1>1. /\ UNCHANGED <<shape, live, doomed, store, m, barrier>>
      /\ mem' = [mem EXCEPT ![Stack][i] = Null]
  BY DEF Forget
<1>2. Null \notin doomed' /\ Stack \in Memory
  BY <1>1, GarbageFacts DEF Memory
<1>3. store'[1] \notin doomed' /\ store'[3] \notin doomed' /\ Fine(m', barrier', Memory \ doomed')
  BY <1>1 DEF GarbageKept
<1> QED
  BY <1>1, <1>2, <1>3, GarbageWrite

LEMMA GarbageStoreRoot ==
  ASSUME IInv, IInv', GarbageKept, NEW k \in Slot, NEW v \in Obj \cup {Null}, StoreRoot(k, v)
  PROVE  GarbageKept'
<1>1. /\ UNCHANGED <<shape, live, doomed, store, m, barrier>>
      /\ mem' = [mem EXCEPT ![Root][k] = v]
  BY DEF StoreRoot
<1>2. v \notin doomed' /\ Root \in Memory
  BY <1>1, GarbageFacts DEF StoreRoot, Memory
<1>3. store'[1] \notin doomed' /\ store'[3] \notin doomed' /\ Fine(m', barrier', Memory \ doomed')
  BY <1>1 DEF GarbageKept
<1> QED
  BY <1>1, <1>2, <1>3, GarbageWrite

LEMMA GarbageEndStore ==
  ASSUME IInv, IInv', GarbageKept, EndStore
  PROVE  GarbageKept'
<1>1. /\ UNCHANGED <<shape, live, doomed, m, barrier>> /\ store' = NoStore
      /\ mem' = [mem EXCEPT ![store[1]][store[2]] = store[3]]
  BY DEF EndStore
<1>2. store[1] \in Memory /\ store[2] \in Slot /\ store[3] \in Obj \cup {Null}
      /\ store[3] \notin doomed' /\ Null \notin doomed'
  <2>1. store[1] \in OnStack
    BY DEF EndStore, IInv, StoreSound
  <2> QED
    BY <1>1, <2>1, InvParts, GarbageFacts DEF Memory
<1>3. store'[1] \notin doomed' /\ store'[3] \notin doomed' /\ Fine(m', barrier', Memory \ doomed')
  BY <1>1, <1>2 DEF GarbageKept, NoStore
<1> DEFINE c == store[1]
           i == store[2]
           v == store[3]
<1> HIDE DEF c, i, v
<1>4. c \in Memory /\ i \in Slot /\ v \in Obj \cup {Null} /\ v \notin doomed'
      /\ mem' = [mem EXCEPT ![c][i] = v]
  BY <1>1, <1>2 DEF c, i, v
<1> QED
  BY <1>1, <1>3, <1>4, GarbageWrite

LEMMA GarbageAlloc ==
  ASSUME IInv, IInv', GarbageKept, NEW o \in Obj, NEW i \in Slot, Alloc(o, i)
  PROVE  GarbageKept'
<1>1. /\ UNCHANGED <<shape, doomed, store, m, barrier>> /\ live' = live \cup {o}
      /\ mem' = [mem EXCEPT ![Stack][i] = o] /\ o \notin live
  BY DEF Alloc
<1>2. o \notin doomed' /\ Stack \in Memory
  BY <1>1, GarbageFacts DEF Memory
<1>3. store'[1] \notin doomed' /\ store'[3] \notin doomed' /\ Fine(m', barrier', Memory \ doomed')
  BY <1>1 DEF GarbageKept
<1> QED
  BY <1>1, <1>2, <1>3, GarbageWrite

LEMMA GarbageReadWeak ==
  ASSUME IInv, IInv', GarbageKept, NEW o \in Obj, NEW i \in Slot, ReadWeak(o, i)
  PROVE  GarbageKept'
<1>1. /\ UNCHANGED <<shape, live, store, m, barrier>> /\ doomed' = Revived(o)
      /\ mem' = [mem EXCEPT ![Stack][i] = o]
  BY DEF ReadWeak
<1>2. /\ doomed' \in {doomed, {}} /\ o \notin doomed' /\ Stack \in Memory
      /\ Fine(m', barrier', Memory \ doomed')
  BY <1>1, GarbageRevived DEF Memory
<1>3. store'[1] \notin doomed' /\ store'[3] \notin doomed'
  BY <1>1, <1>2 DEF GarbageKept
<1> QED
  BY <1>1, <1>2, <1>3, GarbageWrite

LEMMA GarbageCreateRoot ==
  ASSUME IInv, IInv', GarbageKept, CreateRoot
  PROVE  GarbageKept'
<1>1. /\ UNCHANGED <<shape, doomed, store, m, barrier, mem>> /\ live' = live \cup {Root}
  BY DEF CreateRoot
<1>2. /\ doomed' \subseteq live' /\ store'[1] \notin doomed' /\ store'[3] \notin doomed'
      /\ Fine(m', barrier', Memory \ doomed')
  BY <1>1 DEF GarbageKept
<1>3. \A b \in Memory \ doomed', k \in Slot : mem'[b][k] \notin doomed'
  BY <1>1, GarbageFacts
<1> QED
  BY <1>1, <1>2, <1>3, GarbageStep

\* An object that is queued again is on one stack, or on none.
LEMMA TrapWriteFine ==
  ASSUME IInv, NEW S, Fine(m, barrier, S), NEW o \in S \cap Obj, NEW more \in BOOLEAN,
         TrapWrite(o, more)
  PROVE  /\ Fine(m', barrier', S)
         /\ Ordered(m, barrier) => Ordered(m', barrier')
<1>1. MarkerOK(m, Item) /\ BarrierOK /\ BarrierSegSize \in Nat \ {0}
  BY InvFacts, MarkAssumption
<1>2. CASE ~marking \/ o \notin m.mark
  BY <1>2 DEF TrapWrite
<1>3. CASE ~(~marking \/ o \notin m.mark)
  <2> DEFINE gray == [m EXCEPT !.mark = @ \ {o}, !.queued = @ \cup {o}]
             white == [m EXCEPT !.mark = @ \ {o}]
             x == Work("object", o, 1)
             B == Items(barrier)
  <2>1. /\ MarkerOK(gray, Item) /\ gray.work = m.work /\ gray.mark = m.mark \ {o}
        /\ gray.queued = m.queued \cup {o} /\ gray.sentinel = m.sentinel
    BY <1>1 DEF MarkerOK, MarkerOver
  <2>2. /\ MarkerOK(white, Item) /\ white.work = m.work /\ white.mark = m.mark \ {o}
        /\ white.queued = m.queued /\ white.sentinel = m.sentinel
    BY <1>1 DEF MarkerOK, MarkerOver
  <2>3. x \in Item /\ x \in Allowed(S) /\ x.t = "object" /\ x.b = o
    BY ItemFacts DEF Work, Allowed, Split
  <2>4. \/ /\ m' = gray /\ barrier' = Push(barrier, x, BarrierSegSize)
        \/ /\ m' = PushObject(gray, o, more) /\ barrier' = barrier
    BY <1>3 DEF TrapWrite
  <2>a. o \in m.mark
    BY <1>3
  <2> HIDE DEF gray, white
  <2>5. Tame(gray, S)
    BY <2>1 DEF Tame, Fine
  <2>6. CASE m' = gray /\ barrier' = Push(barrier, x, BarrierSegSize)
    <3> DEFINE p == Push(barrier, x, BarrierSegSize)
               n == Len(barrier.items)
    <3>1. n \in Nat /\ barrier \in StackOver(Item) /\ WellFormed(barrier, BarrierSegSize)
      BY <1>1 DEF BarrierOK, StackOver
    <3> HIDE DEF x
    <3>2. /\ p \in StackOver(Item) /\ WellFormed(p, BarrierSegSize)
          /\ Len(p.items) = n + 1
          /\ \A i \in 1..n : p.items[i] = barrier.items[i]
          /\ p.items[n + 1] = x
      BY <1>1, <2>3, <3>1, PushStack
    <3> HIDE DEF p, n
    <3>3. ASSUME NEW i \in 1..(n + 1)
          PROVE  \/ i = n + 1 /\ p.items[i] = x
                 \/ i \in 1..n /\ p.items[i] = barrier.items[i] /\ p.items[i] \in B
      <4>1. i = n + 1 \/ i \in 1..n
        BY <3>1
      <4> QED
        BY <4>1, <3>2 DEF Items, n
    <3>4. \A y \in Items(p) : y = x \/ y \in B
      BY <3>2, <3>3 DEF Items
    <3>5. Fine(gray, p, S)
      BY <2>3, <2>5, <3>4 DEF Fine
    <3>6. ASSUME Ordered(m, barrier) PROVE Ordered(gray, p)
      <4>1. o \notin m.queued /\ \A y \in B : y.b # o /\ y.b \in m.queued /\ y.t = "object"
        BY <2>a, <3>6 DEF Ordered, Neat
      <4>2. \A i \in 1..Len(m.work.items) : m.work.items[i].t = "object" =>
              /\ m.work.items[i].b \in m.queued /\ m.work.items[i].b # o
              /\ \A y \in B : y.b # m.work.items[i].b
        BY <4>1, <3>6 DEF Ordered, Neat
      <4>3. \A i \in 1..Len(m.work.items) : m.work.items[i].t = "object" =>
              \A y \in Items(p) : y.b # m.work.items[i].b
        BY <4>2, <3>4, <2>3
      <4>4. \A y \in Items(p) : y.t = "object" /\ y.b \in gray.queued
        BY <4>1, <3>4, <2>1, <2>3
      <4>5. \A q \in gray.mark : q \notin gray.queued
        BY <2>1, <3>6 DEF Ordered, Neat
      <4>6. Neat(gray, Items(p))
        BY <4>2, <4>3, <4>4, <4>5, <2>1, <3>6 DEF Ordered, Neat
      <4>7. Once(p)
        <5>1. ASSUME NEW i \in 1..(n + 1), NEW j \in 1..(n + 1), p.items[i].b = p.items[j].b
              PROVE  i = j
          <6>1. CASE i = n + 1 /\ p.items[i] = x
            BY <6>1, <5>1, <4>1, <3>3, <2>3
          <6>2. CASE i \in 1..n /\ p.items[i] = barrier.items[i] /\ p.items[i] \in B
            <7>1. p.items[j] # x
              BY <6>2, <5>1, <4>1, <2>3
            <7>2. j \in 1..n /\ p.items[j] = barrier.items[j]
              BY <7>1, <3>3
            <7> QED
              BY <6>2, <7>2, <5>1, <3>6 DEF Ordered, Once, n
          <6> QED
            BY <6>1, <6>2, <3>3
        <5> QED
          BY <5>1, <3>2 DEF Once
      <4> QED
        BY <4>6, <4>7 DEF Ordered
    <3> QED
      BY <2>6, <3>5, <3>6 DEF p
  <2>7. CASE m' = PushObject(gray, o, more) /\ barrier' = barrier
    <3> DEFINE h == PushObject(gray, o, more)
    <3>1. /\ h.mark = gray.mark
          /\ \/ Appends(gray, h, x) /\ h.queued = gray.queued \cup {o}
             \/ SameWork(gray, h) /\ h.queued = gray.queued \ {o}
      BY <2>1, PushObjectCases
    <3> HIDE DEF h, x
    <3>2. \A q \in h.mark \cup h.queued : q \in S
      BY <2>5, <3>1 DEF Tame
    <3>3. Tame(h, S)
      BY <2>1, <2>3, <2>5, <3>1, <3>2, AppendTame
    <3>4. ASSUME Ordered(m, barrier) PROVE Neat(h, B)
      <4>1. o \notin m.queued /\ Neat(white, B)
        BY <2>2, <2>a, <3>4 DEF Ordered, Neat
      <4>2. CASE Appends(gray, h, x) /\ h.queued = gray.queued \cup {o}
        <5>1. Appends(white, h, x)
          BY <4>2, <2>1, <2>2 DEF Appends
        <5>2. white.queued \subseteq h.queued /\ x.b \in h.queued \ white.queued
          BY <4>1, <4>2, <2>1, <2>2, <2>3
        <5>3. \A q \in h.mark : q \notin h.queued
          BY <4>1, <4>2, <3>1, <2>1, <2>2 DEF Neat
        <5> QED
          BY <5>1, <5>2, <5>3, <4>1, <2>2, <2>3, AppendNeat
      <4>3. CASE SameWork(gray, h) /\ h.queued = gray.queued \ {o}
        <5>1. h.queued = white.queued /\ h.work = white.work /\ h.sentinel = white.sentinel
              /\ h.mark = white.mark
          BY <4>1, <4>3, <3>1, <2>1, <2>2 DEF SameWork
        <5> QED
          BY <5>1, <4>1 DEF Neat
      <4> QED
        BY <4>2, <4>3, <3>1
    <3>5. m' = h /\ barrier' = barrier
      BY <2>7 DEF h
    <3> QED
      BY <3>3, <3>4, <3>5 DEF Fine, Ordered
  <2> QED
    BY <2>4, <2>6, <2>7
<1> QED
  BY <1>2, <1>3

LEMMA GarbageBeginStore ==
  ASSUME IInv, IInv', GarbageKept, NEW o \in Obj, NEW k \in Slot, NEW v \in Obj \cup {Null},
         BeginStore(o, k, v)
  PROVE  GarbageKept'
<1>1. PICK more \in More : TrapWrite(o, more)
  BY DEF BeginStore
<1>2. /\ UNCHANGED <<shape, live, mem, doomed>> /\ store' = <<o, k, v>>
      /\ o \in OnStack /\ v \in OnStack \cup {Null}
  BY DEF BeginStore
<1>3. o \notin doomed /\ v \notin doomed
  BY <1>2, GarbageFacts
<1> DEFINE S == Memory \ doomed
<1>4. o \in S \cap Obj /\ Fine(m, barrier, S) /\ more \in BOOLEAN
  BY <1>3 DEF Memory, GarbageKept, More
<1> HIDE DEF S
<1>5. Fine(m', barrier', S)
  BY <1>1, <1>4, TrapWriteFine
<1>6. /\ doomed' \subseteq live' /\ store'[1] \notin doomed' /\ store'[3] \notin doomed'
      /\ Fine(m', barrier', Memory \ doomed')
  BY <1>2, <1>3, <1>5 DEF GarbageKept, S
<1>7. \A b \in Memory \ doomed', j \in Slot : mem'[b][j] \notin doomed'
  BY <1>2, GarbageFacts
<1> QED
  BY <1>2, <1>6, <1>7, GarbageStep

LEMMA GarbageFree ==
  ASSUME IInv, IInv', GarbageKept, NEW o \in Obj, Free(o)
  PROVE  GarbageKept'
<1>1. /\ UNCHANGED <<shape, store, barrier>> /\ doomed' = doomed \ {o}
      /\ live' = live \/ live' = live \ {o}
      /\ m' = m \/ m' = [m EXCEPT !.mark = @ \ {o}, !.prot = @ \ {o}]
      /\ mem' = [b \in Memory |-> IF b = o THEN Cleared
                 ELSE [k \in Slot |-> IF mem[b][k] = o THEN Null ELSE mem[b][k]]]
  BY DEF Free
<1>2. ASSUME NEW b \in Memory \ doomed', NEW k \in Slot PROVE mem'[b][k] \notin doomed'
  <2>1. CASE b = o
    <3>1. mem'[b][k] = Null
      BY <1>1, <2>1 DEF Cleared
    <3> QED
      BY <3>1, <1>1, GarbageFacts
  <2>2. CASE b # o
    <3>1. mem'[b][k] = IF mem[b][k] = o THEN Null ELSE mem[b][k]
      BY <1>1, <2>2
    <3>2. b \in Memory \ doomed
      BY <1>1, <2>2
    <3> QED
      BY <3>1, <3>2, <1>1, GarbageFacts
  <2> QED
    BY <2>1, <2>2
<1>3. Fine(m', barrier', Memory \ doomed')
  <2>1. \A q \in m'.mark \cup m'.queued : q \in m.mark \cup m.queued
    BY <1>1, InvFacts DEF MarkerOK, MarkerOver
  <2>2. m'.work = m.work
    BY <1>1, InvFacts DEF MarkerOK, MarkerOver
  <2>3. Fine(m', barrier', Memory \ doomed)
    BY <2>1, <2>2, <1>1 DEF Fine, Tame, GarbageKept
  <2>4. Memory \ doomed \subseteq Memory \ doomed'
    BY <1>1
  <2> QED
    BY <2>3, <2>4, FineGrows
<1>4. doomed' \subseteq live' /\ store'[1] \notin doomed' /\ store'[3] \notin doomed'
  BY <1>1 DEF GarbageKept
<1> QED
  BY <1>1, <1>2, <1>3, <1>4, GarbageStep

LEMMA GarbageDestroyRoot ==
  ASSUME IInv, IInv', GarbageKept, DestroyRoot
  PROVE  GarbageKept'
<1>1. /\ UNCHANGED <<shape, store, barrier, doomed>> /\ live' = live \ {Root}
      /\ mem' = [mem EXCEPT ![Root] = Cleared] /\ m' = SetSentinel(m, 0)
  BY DEF DestroyRoot
<1>2. ASSUME NEW b \in Memory \ doomed', NEW k \in Slot PROVE mem'[b][k] \notin doomed'
  <2>1. mem'[b][k] = IF b = Root THEN Null ELSE mem[b][k]
    BY <1>1, InvParts DEF Cleared
  <2> QED
    BY <2>1, <1>1, GarbageFacts
<1> DEFINE S == Memory \ doomed
<1>3. Fine(m', barrier', S)
  <2>1. Fine(m, barrier, S) /\ MarkerOK(m, Item)
    BY InvFacts DEF GarbageKept
  <2> HIDE DEF S
  <2>2. Tame(SetSentinel(m, 0), S)
    BY <2>1, SetSentinelTame DEF Fine
  <2> QED
    BY <1>1, <2>1, <2>2 DEF Fine
<1>4. doomed' \subseteq live' /\ store'[1] \notin doomed' /\ store'[3] \notin doomed'
  BY <1>1, GarbageFacts
<1> QED
  BY <1>1, <1>2, <1>3, <1>4, GarbageStep

LEMMA PushObjectTame ==
  ASSUME NEW S, NEW g, MarkerOK(g, Item), Tame(g, S), NEW o \in S \cap Obj, NEW more \in BOOLEAN
  PROVE  Tame(PushObject(g, o, more), S)
<1> DEFINE x == Work("object", o, 1)
           h == PushObject(g, o, more)
<1>1. /\ h.mark = g.mark
      /\ \/ Appends(g, h, x) /\ h.queued = g.queued \cup {o}
         \/ SameWork(g, h) /\ h.queued = g.queued \ {o}
  BY PushObjectCases
<1>2. x \in Allowed(S)
  BY ItemFacts DEF Allowed, Work, Split
<1> HIDE DEF h, x
<1>3. \A q \in h.mark \cup h.queued : q \in S
  BY <1>1 DEF Tame
<1> QED
  BY <1>1, <1>2, <1>3, AppendTame DEF h

LEMMA GarbagePresweep ==
  ASSUME IInv, IInv', GarbageKept, NEW o \in Obj, NEW b \in Memory, NEW k \in Slot,
         PresweepReadWeak(o, b, k) \/ PresweepAlloc(o, b, k)
  PROVE  GarbageKept'
<1>1. /\ UNCHANGED <<shape, store, barrier>> /\ mem' = [mem EXCEPT ![b][k] = o]
      /\ live \subseteq live'
  BY DEF PresweepReadWeak, PresweepAlloc, PresweepStore
<1>2. doomed' \in {doomed, {}} /\ o \notin doomed' /\ Fine(m, barrier, Memory \ doomed')
  <2>1. CASE PresweepReadWeak(o, b, k)
    BY <2>1, GarbageRevived DEF PresweepReadWeak
  <2>2. CASE PresweepAlloc(o, b, k)
    BY <2>2 DEF PresweepAlloc, GarbageKept
  <2> QED
    BY <2>1, <2>2
<1> DEFINE S == Memory \ doomed'
<1>3. o \in S \cap Obj /\ Fine(m, barrier, S) /\ MarkerOK(m, Item)
  BY <1>2, InvFacts DEF Memory
<1> HIDE DEF S
<1>4. Fine(m', barrier', S)
  <2>1. CASE PresweepReadWeak(o, b, k)
    <3>1. PICK more \in More : m' = IF o \in m.mark THEN m ELSE PushObject(m, o, more)
      BY <2>1 DEF PresweepReadWeak
    <3>2. Tame(PushObject(m, o, more), S)
      BY <1>3, PushObjectTame DEF Fine, More
    <3> QED
      BY <1>1, <1>3, <3>1, <3>2 DEF Fine
  <2>2. CASE PresweepAlloc(o, b, k)
    <3>1. m' = SetMark(m, o)
      BY <2>2 DEF PresweepAlloc
    <3>2. Tame(SetMark(m, o), S)
      BY <1>3, SetMarkTame DEF Fine
    <3> QED
      BY <1>1, <1>3, <3>1, <3>2 DEF Fine
  <2> QED
    BY <2>1, <2>2
<1>5. store'[1] \notin doomed' /\ store'[3] \notin doomed'
  BY <1>1, <1>2 DEF GarbageKept
<1> QED
  BY <1>1, <1>2, <1>4, <1>5, GarbageWrite DEF S

\* What the collector does up to the sweep changes no memory.
LEMMA GarbageCollector ==
  ASSUME IInv, IInv', GarbageKept,
         \/ MarkStep \/ ShiftBarrierWork \/ Finish
         \/ Collector /\ ~Sweep
  PROVE  GarbageKept'
<1>1. UNCHANGED <<shape, live, mem, store, doomed>>
  BY DEF MarkStep, ShiftBarrierWork, Finish, Collector, Drain, Recover, EndRecovery, FinalScan,
         BeginSweep, EndPresweep, Visit, BeginRecovery, program
<1> DEFINE S == Memory \ doomed
<1>2. Region(S) /\ Fine(m, barrier, S)
  BY DEF GarbageKept
<1> HIDE DEF S
<1>3. Fine(m', barrier', S)
  BY <1>2, CollectorFine
<1>4. Fine(m', barrier', Memory \ doomed')
  BY <1>1, <1>3 DEF S
<1>5. /\ doomed' \subseteq live' /\ store'[1] \notin doomed' /\ store'[3] \notin doomed'
      /\ \A b \in Memory \ doomed', k \in Slot : mem'[b][k] \notin doomed'
  BY <1>1, GarbageFacts
<1> QED
  BY <1>1, <1>4, <1>5, GarbageStep

\* Nothing is marked or queued when marking starts.
LEMMA NothingMarked ==
  ASSUME IInv, ~marking
  PROVE  /\ m.mark = {} /\ m.queued = {} /\ IsEmpty(m.work) /\ IsEmpty(barrier)
         /\ pc = "run" /\ ~m.overflow
         /\ \A S : Fine(m, barrier, S)
<1>1. m.mark = {} /\ IsEmpty(m.work) /\ IsEmpty(barrier) /\ pc = "run" /\ ~m.overflow
  BY DEF IInv, CycleSound
<1>2. Items(m.work) = {} /\ Items(barrier) = {}
  BY <1>1 DEF Items, IsEmpty
<1>3. m.queued = {}
  BY <1>2 DEF IInv, QueuedOnStack
<1> QED
  BY <1>1, <1>2, <1>3 DEF Fine, Tame

LEMMA GarbageStartMark ==
  ASSUME IInv, IInv', GarbageKept, StartMark
  PROVE  GarbageKept'
<1>1. /\ UNCHANGED <<shape, live, mem, store, barrier>> /\ doomed' = Objects \ Reachable
      /\ ~marking /\ store = NoStore
  BY DEF StartMark, Running, program
<1>2. PICK more \in More : m' = MarkRoots(m, more)
  BY DEF StartMark
<1> DEFINE closed(C) == /\ {Stack} \cup (live \cap {Root}) \subseteq C
                        /\ \A b \in C, k \in Slot : mem[b][k] \in C \cup {Null}
<1>3. Reachable = {o \in Obj : \A C \in SUBSET Memory : closed(C) => o \in C}
  BY DEF Reachable
<1> HIDE DEF closed
<1>4. ASSUME NEW b \in Memory \ doomed', NEW k \in Slot PROVE mem[b][k] \notin doomed'
  <2>1. mem[b][k] \in Obj \cup {Null} /\ Null \notin Obj
    BY InvParts, MarkAssumption
  <2>2. CASE b \notin Held
    <3>1. mem[b][k] = Null
      BY <2>2 DEF IInv, MemorySound
    <3> QED
      BY <3>1, <2>1, <1>1 DEF Objects
  <2>3. CASE b \in Held /\ mem[b][k] # Null
    <3>1. b \in Reachable \/ b = Stack \/ b \in live \cap {Root}
      BY <2>3, <1>1 DEF Held, Memory, Objects
    <3>2. ASSUME NEW C \in SUBSET Memory, closed(C) PROVE mem[b][k] \in C
      <4>1. b \in C
        BY <3>1, <3>2, <1>3 DEF closed
      <4> QED
        BY <4>1, <3>2, <2>3 DEF closed
    <3>3. mem[b][k] \in Reachable
      BY <3>2, <2>1, <2>3, <1>3
    <3> QED
      BY <3>3, <1>1
  <2> QED
    BY <2>1, <2>2, <2>3, <1>1 DEF Objects
<1>5. doomed' \subseteq live' /\ store'[1] \notin doomed' /\ store'[3] \notin doomed'
  BY <1>1, MarkAssumption DEF Objects, NoStore
<1> DEFINE S == Memory \ doomed'
<1>6. Region(S)
  <2>1. Root \notin doomed' /\ Stack \notin doomed'
    BY <1>1, MarkAssumption DEF Objects
  <2>2. \A b \in S, k \in Slot : mem[b][k] \in S \cup {Null}
    BY <1>4, InvParts DEF Memory
  <2> QED
    BY <2>1, <2>2 DEF Region, Memory
<1> HIDE DEF S
<1>7. Fine(m', barrier', S)
  <2>1. HeapOK /\ MarkerOK(m, Item) /\ SentinelIn(m) /\ Fine(m, barrier, S) /\ more \in BOOLEAN
    BY <1>1, InvFacts, NothingMarked DEF More
  <2>2. Tame(MarkRoots(m, more), S)
    BY <2>1, <1>6, MarkRootsTame DEF Fine
  <2> QED
    BY <2>1, <2>2, <1>1, <1>2 DEF Fine
<1> QED
  BY <1>1, <1>4, <1>5, <1>7, GarbageStep DEF S

LEMMA GarbageSweep ==
  ASSUME IInv, IInv', GarbageKept, Sweep
  PROVE  GarbageKept'
<1>1. /\ UNCHANGED <<shape, store, barrier>> /\ doomed' = {}
      /\ m' = [m EXCEPT !.mark = {}, !.prot = @ \cap m.mark]
  BY DEF Sweep
<1>2. m'.mark = {} /\ m'.queued = m.queued /\ m'.work = m.work
  BY <1>1, InvFacts DEF MarkerOK, MarkerOver
<1>3. Fine(m', barrier', Memory \ doomed)
  BY <1>1, <1>2 DEF GarbageKept, Fine, Tame
<1>4. Fine(m', barrier', Memory \ doomed')
  BY <1>1, <1>3, FineGrows
<1> QED
  BY <1>1, <1>4, GarbageStep

LEMMA GarbageInit == Init => IInv /\ GarbageKept
<1> SUFFICES ASSUME Init PROVE IInv /\ GarbageKept
  OBVIOUS
<1>1. IInv
  BY InitInv
<1>2. doomed = {} /\ Fine(m, barrier, Memory \ doomed) /\ store = NoStore
  BY <1>1, NothingMarked DEF Init
<1>3. Memory \ doomed = Memory
  BY <1>2
<1>4. Region(Memory)
  BY <1>1, InvParts DEF Region, Memory
<1> QED
  BY <1>1, <1>2, <1>3, <1>4 DEF GarbageKept

LEMMA GarbageProgram == ASSUME IInv, IInv', GarbageKept, Program PROVE GarbageKept'
<1>1. CASE \E i, k \in Slot, b \in Memory : Load(i, b, k)
  BY <1>1, GarbageLoad
<1>2. CASE \E i \in Slot : Forget(i)
  BY <1>2, GarbageForget
<1>3. CASE \E o \in Obj, k \in Slot, v \in Obj \cup {Null} : BeginStore(o, k, v)
  BY <1>3, GarbageBeginStore
<1>4. CASE EndStore
  BY <1>4, GarbageEndStore
<1>5. CASE \E k \in Slot, v \in Obj \cup {Null} : StoreRoot(k, v)
  BY <1>5, GarbageStoreRoot
<1>6. CASE \E o \in Obj, i \in Slot : Alloc(o, i)
  BY <1>6, GarbageAlloc
<1>7. CASE \E o \in Obj : Free(o)
  BY <1>7, GarbageFree
<1>8. CASE \E o \in Obj, i \in Slot : ReadWeak(o, i)
  BY <1>8, GarbageReadWeak
<1>9. CASE DestroyRoot
  BY <1>9, GarbageDestroyRoot
<1>10. CASE CreateRoot
  BY <1>10, GarbageCreateRoot
<1> QED
  BY <1>1, <1>2, <1>3, <1>4, <1>5, <1>6, <1>7, <1>8, <1>9, <1>10 DEF Program

LEMMA GarbageNext == IInv /\ GarbageKept /\ [Next]_vars => (IInv /\ GarbageKept)'
<1> SUFFICES ASSUME IInv, GarbageKept, [Next]_vars PROVE (IInv /\ GarbageKept)'
  OBVIOUS
<1>1. IInv'
  BY StepInv
<1>2. CASE Program
  BY <1>1, <1>2, GarbageProgram
<1>3. CASE StartMark
  BY <1>1, <1>3, GarbageStartMark
<1>4. CASE MarkStep \/ ShiftBarrierWork \/ Finish \/ (Collector /\ ~Sweep)
  BY <1>1, <1>4, GarbageCollector
<1>5. CASE Sweep
  BY <1>1, <1>5, GarbageSweep
<1>6. CASE \E o \in Obj, b \in Memory, k \in Slot :
             PresweepReadWeak(o, b, k) \/ PresweepAlloc(o, b, k)
  BY <1>1, <1>6, GarbagePresweep
<1>7. CASE UNCHANGED vars
  BY <1>1, <1>7 DEF vars, program, GarbageKept, Region, Fine, Tame, Allowed, Parts
<1> QED
  BY <1>1, <1>2, <1>3, <1>4, <1>5, <1>6, <1>7 DEF Next

LEMMA GarbageClean == IInv /\ GarbageKept => GarbageInv
<1> SUFFICES ASSUME IInv, GarbageKept PROVE GarbageInv
  OBVIOUS
<1>1. \A x \in Allowed(Memory \ doomed) : x # Dead => x.b \notin doomed
  BY DEF Allowed
<1>2. doomed \cap (m.mark \cup m.queued) = {}
  BY DEF GarbageKept, Fine, Tame
<1>3. \A x \in Items(m.work) \cup Items(barrier) : x # Dead => x.b \notin doomed
  BY <1>1 DEF GarbageKept, Fine, Tame
<1> QED
  BY <1>2, <1>3, GarbageFacts DEF GarbageInv

\* What was garbage when marking started is cut off from the marker: nothing
\* else refers to it, and no step of the program, of an increment or of
\* FinishIncrementalMark marks it, queues it or pushes an item for it.
THEOREM GarbageInvariant == SafetySpec => []GarbageInv
BY GarbageInit, GarbageNext, GarbageClean, PTL DEF SafetySpec

LEMMA SweepCollects ==
  IInv /\ GarbageKept /\ [Next]_vars =>
    [pc = "resweep" /\ pc' = "run" => doomed \cap live' = {}]_vars
<1> SUFFICES ASSUME IInv, GarbageKept, Next, pc = "resweep", pc' = "run"
             PROVE  doomed \cap live' = {}
  OBVIOUS
<1>1. ~Program /\ ~StartMark /\ ~MarkStep /\ ~ShiftBarrierWork /\ ~Finish
  BY DEF Program, Running, StartMark, MarkStep, ShiftBarrierWork, Finish, Load, Forget, BeginStore,
     EndStore, StoreRoot, Alloc, Free, ReadWeak, DestroyRoot, CreateRoot, IInv, StoreSound
<1>2. ~(\E o \in Obj, b \in Memory, k \in Slot :
           PresweepReadWeak(o, b, k) \/ PresweepAlloc(o, b, k))
  BY DEF PresweepReadWeak, PresweepAlloc, PresweepStore
<1>3. Sweep
  BY <1>1, <1>2 DEF Next, Collector, Drain, Recover, EndRecovery, FinalScan, BeginSweep,
     EndPresweep, Visit, BeginRecovery
<1>4. live' = live \cap (m.mark \cup {Root})
  BY <1>3 DEF Sweep
<1>5. \A q \in doomed : q \notin m.mark /\ q # Root
  BY GarbageFacts DEF GarbageKept, Fine, Tame
<1> QED
  BY <1>4, <1>5

\* An object that was garbage when StartIncrementalMark was called is gone
\* after the Sweep of that cycle, unless a weak reference to it was read.
THEOREM GarbageIsCollected == SafetySpec => GarbageCollected
<1>1. Init => IInv /\ GarbageKept
  BY GarbageInit
<1> QED
  BY <1>1, GarbageNext, SweepCollects, PTL DEF SafetySpec, GarbageCollected

-----------------------------------------------------------------------------
(* What the marker still has work for is held, as long as the program frees *)
(* only objects of one part: an object that is marked part by part is held  *)
(* by a protector that the heap may refuse.                                 *)

SmallFreed == \A s \in Shapes, o \in Freeable : s.parts[o] <= 1

WorkKept == Fine(m, barrier, Held) /\ (Late \/ Ordered(m, barrier))

LEMMA HeldRegion == ASSUME IInv PROVE Region(Held)
<1>1. Held \subseteq Memory /\ Stack \in Held /\ (Root \in live => Root \in Held)
  BY InvParts DEF Held, Memory
<1>2. \A b \in Held, k \in Slot : mem[b][k] \in Held \cup {Null}
  BY DEF IInv, NoDangling, Held
<1> QED
  BY <1>1, <1>2 DEF Region

LEMMA WorkStep ==
  ASSUME shape' = shape, Fine(m', barrier', Held'), Late' \/ Ordered(m', barrier')
  PROVE  WorkKept'
<1>1. Fine(m, barrier, Held)'
  BY DEF Fine, Tame, Allowed, Parts
<1>2. Late' \/ Ordered(m, barrier)'
  BY DEF Ordered, Neat, Once
<1> QED
  BY <1>1, <1>2 DEF WorkKept

\* The marker does nothing, and nothing is reclaimed.
LEMMA WorkQuiet ==
  ASSUME WorkKept, UNCHANGED <<shape, m, barrier, pc, resume>>, live \subseteq live'
  PROVE  WorkKept'
<1>1. Held \subseteq Held'
  BY DEF Held
<1>2. Fine(m', barrier', Held')
  BY <1>1, FineGrows DEF WorkKept
<1>3. Late' \/ Ordered(m', barrier')
  BY DEF WorkKept, Late
<1> QED
  BY <1>2, <1>3, WorkStep

LEMMA WorkBeginStore ==
  ASSUME IInv, WorkKept, NEW o \in Obj, NEW k \in Slot, NEW v \in Obj \cup {Null},
         BeginStore(o, k, v)
  PROVE  WorkKept'
<1>1. PICK more \in More : TrapWrite(o, more)
  BY DEF BeginStore
<1>2. UNCHANGED <<shape, live, pc>> /\ o \in OnStack /\ pc = "run"
  BY DEF BeginStore, Running
<1> DEFINE S == Held
<1>3. o \in S \cap Obj /\ Fine(m, barrier, S) /\ more \in BOOLEAN /\ Ordered(m, barrier)
  BY <1>2, InvParts DEF Held, WorkKept, More, Late
<1> HIDE DEF S
<1>4. Fine(m', barrier', S) /\ Ordered(m', barrier')
  BY <1>1, <1>3, TrapWriteFine
<1>5. Fine(m', barrier', Held')
  BY <1>2, <1>4 DEF S, Held
<1> QED
  BY <1>2, <1>4, <1>5, WorkStep

LEMMA WorkStartMark ==
  ASSUME IInv, WorkKept, StartMark
  PROVE  WorkKept'
<1>1. UNCHANGED <<shape, live, barrier, pc>> /\ pc = "run" /\ ~marking
  BY DEF StartMark, Running, program
<1>2. PICK more \in More : m' = MarkRoots(m, more)
  BY DEF StartMark
<1> DEFINE S == Held
           B == Items(barrier)
           h == MarkRoots(m, more)
<1>3. Region(S) /\ Fine(m, barrier, S) /\ Neat(m, B) /\ Once(barrier)
  BY <1>1, HeldRegion DEF WorkKept, Late, Ordered
<1>4. NoRootWork(m)
  BY <1>1, NothingMarked DEF NoRootWork, Items, IsEmpty
<1>5. HeapOK /\ MarkerOK(m, Item) /\ SentinelIn(m) /\ more \in BOOLEAN
  BY InvFacts DEF More
<1> HIDE DEF S, B
<1>6. Tame(m, S) /\ \A x \in Items(barrier) : x \in Allowed(S)
  BY <1>3 DEF Fine
<1>7. Tame(h, S) /\ Neat(h, B)
  BY <1>3, <1>4, <1>5, <1>6, MarkRootsTame
<1>8. Fine(m', barrier', S) /\ Neat(m', B)
  BY <1>1, <1>2, <1>6, <1>7 DEF Fine
<1>9. Fine(m', barrier', Held') /\ Ordered(m', barrier')
  BY <1>1, <1>3, <1>8 DEF S, B, Held, Ordered
<1> QED
  BY <1>1, <1>9, WorkStep

LEMMA WorkCollector ==
  ASSUME IInv, WorkKept,
         \/ MarkStep \/ ShiftBarrierWork \/ Finish
         \/ Collector /\ ~Sweep
  PROVE  WorkKept'
<1>1. UNCHANGED <<shape, live>>
  BY DEF MarkStep, ShiftBarrierWork, Finish, Collector, Drain, Recover, EndRecovery, FinalScan,
         BeginSweep, EndPresweep, Visit, BeginRecovery, program
<1> DEFINE S == Held
<1>2. Region(S) /\ Fine(m, barrier, S)
  BY HeldRegion DEF WorkKept
<1> HIDE DEF S
<1>3. Fine(m', barrier', S) /\ (Late' \/ Ordered(m', barrier'))
  BY <1>2, CollectorFine DEF WorkKept
<1>4. Fine(m', barrier', Held')
  BY <1>1, <1>3 DEF S, Held
<1> QED
  BY <1>1, <1>3, <1>4, WorkStep

LEMMA WorkPresweep ==
  ASSUME IInv, WorkKept, NEW o \in Obj, NEW b \in Memory, NEW k \in Slot,
         PresweepReadWeak(o, b, k) \/ PresweepAlloc(o, b, k)
  PROVE  WorkKept'
<1>1. UNCHANGED <<shape, barrier, pc, resume>> /\ live \subseteq live' /\ o \in live' /\ Late
  BY DEF PresweepReadWeak, PresweepAlloc, PresweepStore, IInv, NoDangling, Late
<1> DEFINE S == Held'
<1>2. o \in S \cap Obj /\ Fine(m, barrier, S) /\ MarkerOK(m, Item)
  <2>1. Held \subseteq Held'
    BY <1>1 DEF Held
  <2> QED
    BY <1>1, <2>1, FineGrows, InvFacts DEF Held, WorkKept
<1> HIDE DEF S
<1>3. Fine(m', barrier', S)
  <2>1. CASE PresweepReadWeak(o, b, k)
    <3>1. PICK more \in More : m' = IF o \in m.mark THEN m ELSE PushObject(m, o, more)
      BY <2>1 DEF PresweepReadWeak
    <3>2. Tame(PushObject(m, o, more), S)
      BY <1>2, PushObjectTame DEF Fine, More
    <3> QED
      BY <1>1, <1>2, <3>1, <3>2 DEF Fine
  <2>2. CASE PresweepAlloc(o, b, k)
    <3>1. m' = SetMark(m, o)
      BY <2>2 DEF PresweepAlloc
    <3>2. Tame(SetMark(m, o), S)
      BY <1>2, SetMarkTame DEF Fine
    <3> QED
      BY <1>1, <1>2, <3>1, <3>2 DEF Fine
  <2> QED
    BY <2>1, <2>2
<1>4. Late'
  BY <1>1 DEF Late
<1> QED
  BY <1>1, <1>3, <1>4, WorkStep DEF S

LEMMA WorkSweep ==
  ASSUME IInv, WorkKept, Sweep
  PROVE  WorkKept'
<1>1. /\ UNCHANGED <<shape, barrier>> /\ IsEmpty(m.work) /\ ~m.overflow /\ pc = "resweep"
      /\ m' = [m EXCEPT !.mark = {}, !.prot = @ \cap m.mark]
  BY DEF Sweep
<1>2. m'.mark = {} /\ m'.queued = m.queued /\ m'.work = m.work
  BY <1>1, InvFacts DEF MarkerOK, MarkerOver
<1>3. IsEmpty(barrier)
  BY <1>1 DEF IInv, ScanSound
<1>4. Items(m.work) = {} /\ Items(barrier) = {} /\ Len(m.work.items) = 0 /\ Len(barrier.items) = 0
  BY <1>1, <1>3 DEF Items, IsEmpty
<1>5. m.queued = {}
  BY <1>4 DEF IInv, QueuedOnStack
<1>6. Fine(m', barrier', Held')
  BY <1>1, <1>2, <1>4, <1>5 DEF Fine, Tame
<1>7. Ordered(m', barrier')
  BY <1>1, <1>2, <1>4 DEF Ordered, Neat, Once
<1> QED
  BY <1>1, <1>6, <1>7, WorkStep

\* An object that is freed has no item: neither stack has it queued, and it
\* is not marked part by part.
LEMMA WorkFree ==
  ASSUME SmallFreed, IInv, WorkKept, NEW o \in Obj, Free(o)
  PROVE  WorkKept'
<1>1. /\ UNCHANGED <<shape, barrier>> /\ pc = "run" /\ o \in Freeable
      /\ \/ live' = live /\ m' = m
         \/ /\ live' = live \ {o} /\ (~marking \/ o \notin m.queued)
            /\ m' = [m EXCEPT !.mark = @ \ {o}, !.prot = @ \ {o}]
  BY DEF Free
<1>2. Fine(m, barrier, Held) /\ Ordered(m, barrier) /\ MarkerOK(m, Item)
  BY <1>1, InvFacts DEF WorkKept, Late
<1>3. CASE live' = live /\ m' = m
  BY <1>1, <1>2, <1>3, WorkStep DEF Held
<1>4. CASE /\ live' = live \ {o} /\ (~marking \/ o \notin m.queued)
           /\ m' = [m EXCEPT !.mark = @ \ {o}, !.prot = @ \ {o}]
  <2>1. /\ m'.mark = m.mark \ {o} /\ m'.queued = m.queued /\ m'.work = m.work
        /\ m'.sentinel = m.sentinel
    BY <1>2, <1>4 DEF MarkerOK, MarkerOver
  <2>2. Ordered(m', barrier')
    <3>1. \A q \in m'.mark : q \notin m'.queued
      BY <1>2, <2>1 DEF Ordered, Neat
    <3> QED
      BY <3>1, <1>1, <1>2, <2>1 DEF Ordered, Neat
  <2>3. \A b : b \in Held /\ b # o => b \in Held'
    BY <1>4 DEF Held
  <2>4. o \notin m.queued
    BY <1>4, NothingMarked
  <2>5. Parts(o) <= 1 /\ Parts(o) \in Nat /\ o # Root /\ o # Stack
    BY <1>1, InvParts, HeapFacts, InvFacts, MarkAssumption DEF SmallFreed, Parts, Memory
  <2>6. ASSUME NEW x \in Items(m.work) \cup Items(barrier), x # Dead PROVE x.b # o
    <3>1. x \in Allowed(Held) /\ x \in Item
      BY <1>2 DEF Fine, Tame, Allowed
    <3>2. x.t = "object" => x.b \in m.queued
      BY <2>6, <1>2 DEF Ordered, Neat, Items
    <3>3. x.t \in Split => Parts(x.b) > 1
      BY <3>1, <2>6 DEF Allowed
    <3>4. x.t \in {"object"} \cup Split \/ x.b \in {Root, Stack}
      BY <3>1, <2>6 DEF Item, Split
    <3> QED
      BY <3>2, <3>3, <3>4, <2>4, <2>5
  <2>7. \A x \in Items(m.work) \cup Items(barrier) : x \in Allowed(Held')
    <3>1. ASSUME NEW x \in Items(m.work) \cup Items(barrier) PROVE x \in Allowed(Held')
      <4>1. x \in Allowed(Held)
        BY <1>2 DEF Fine, Tame
      <4> QED
        BY <4>1, <2>3, <2>6 DEF Allowed
    <3> QED
      BY <3>1
  <2>8. \A q \in m'.mark \cup m'.queued : q \in Held'
    BY <1>2, <2>1, <2>3, <2>4 DEF Fine, Tame
  <2>9. Fine(m', barrier', Held')
    BY <1>1, <2>1, <2>7, <2>8 DEF Fine, Tame
  <2> QED
    BY <1>1, <2>2, <2>9, WorkStep
<1> QED
  BY <1>1, <1>3, <1>4

\* GCRoot::Destroy leaves no item of the root: the protector is at the
\* sentinel, and the one item of the root is above it.
LEMMA WorkDestroyRoot ==
  ASSUME IInv, WorkKept, DestroyRoot
  PROVE  WorkKept'
<1>1. /\ UNCHANGED <<shape, barrier>> /\ pc = "run" /\ live' = live \ {Root}
      /\ m' = SetSentinel(m, 0)
  BY DEF DestroyRoot, Running
<1>2. /\ Fine(m, barrier, Held) /\ Neat(m, Items(barrier)) /\ Once(barrier)
      /\ MarkerOK(m, Item)
  BY <1>1, InvFacts DEF WorkKept, Late, Ordered
<1> DEFINE S == Held
           B == Items(barrier)
           n == Len(m.work.items)
           h == SetSentinel(m, 0)
           chunks == {Work("rootchunk", Root, k) : k \in Slot}
           p == ClearWithItemAbove(m.work, m.sentinel, chunks)
<1>3. Tame(m, S)
  BY <1>2 DEF Fine
<1>4. /\ MarkerOK(h, Item) /\ Tame(h, S) /\ h.mark = m.mark /\ h.queued = m.queued
      /\ h.sentinel = 0 /\ Len(h.work.items) = n
      /\ \A j \in 1..n : h.work.items[j] = m.work.items[j] \/ h.work.items[j] = Dead
  <2> HIDE DEF S
  <2> QED
    BY <1>2, <1>3, SetSentinelTame
<1>5. m.sentinel # 0 => h.work = p
  BY <1>2 DEF SetSentinel, MarkerOK, MarkerOver
<1> HIDE DEF h
<1>6. ASSUME NEW j \in 1..n, h.work.items[j] # Dead PROVE h.work.items[j].b # Root
  <2>1. h.work.items[j] = m.work.items[j] /\ m.work.items[j] \in Item
        /\ n \in Nat /\ m.sentinel \in Nat
    BY <1>4, <1>6, <1>2, MarkerFields DEF StackOver
  <2>2. ASSUME h.work.items[j].b = Root PROVE FALSE
    <3>1. m.work.items[j].t \in {"rootprot", "rootchunk"}
      BY <2>1, <2>2, <1>6, MarkAssumption DEF Item
    <3>2. m.sentinel # 0
      BY <3>1, <1>2 DEF Neat
    <3>3. \A l \in 1..n : /\ l = m.sentinel => h.work.items[l] = Dead
                          /\ /\ l > m.sentinel /\ m.work.items[l] \in chunks
                             /\ \A i \in (m.sentinel + 1)..(l - 1) : m.work.items[i] \notin chunks
                             => h.work.items[l] = Dead
      <4> DEFINE s == m.work
                 c == m.sentinel
      <4>1. s \in StackOver(Item)
        BY <1>2, MarkerFields
      <4> HIDE DEF chunks, s
      <4>2. LET q == ClearWithItemAbove(s, c, chunks)
            IN \A l \in 1..Len(s.items) :
                 /\ l = c => q.items[l] = Dead
                 /\ /\ l > c /\ s.items[l] \in chunks
                    /\ \A i \in (c + 1)..(l - 1) : s.items[i] \notin chunks
                    => q.items[l] = Dead
        BY <4>1, ClearedItems
      <4> QED
        BY <3>2, <1>5, <4>2 DEF s
    <3>4. m.work.items[j].t # "rootprot"
      BY <3>3, <1>6, <1>2 DEF Neat
    <3>5. m.work.items[j].t = "rootchunk" /\ j > m.sentinel
      BY <3>1, <3>4, <1>2, <2>1 DEF Neat
    <3>6. m.work.items[j] \in chunks
      <4> DEFINE x == m.work.items[j]
      <4>1. x \in Item /\ x.t = "rootchunk"
        BY <3>5, <2>1
      <4> HIDE DEF x
      <4>2. x \in [t : {"rootchunk", "rootprot"}, b : {Root}, k : Slot]
        BY <4>1 DEF Item, Dead
      <4>3. x.k \in Slot /\ x = Work("rootchunk", Root, x.k)
        BY <4>1, <4>2 DEF Work
      <4> QED
        BY <4>3 DEF x
    <3>7. \A i \in (m.sentinel + 1)..(j - 1) : m.work.items[i] \notin chunks
      <4>1. ASSUME NEW i \in (m.sentinel + 1)..(j - 1) PROVE m.work.items[i].t # "rootchunk"
        <5>1. i \in 1..n /\ i # j
          BY <2>1
        <5> QED
          BY <5>1, <3>5, <1>2 DEF Neat
      <4> QED
        BY <4>1 DEF Work
    <3> QED
      BY <3>3, <3>5, <3>6, <3>7, <1>6
  <2> QED
    BY <2>2
<1>7. \A b : b \in S /\ b # Root => b \in Held'
  BY <1>1 DEF Held
<1>8. Fine(h, barrier, Held')
  <2>1. \A q \in h.mark \cup h.queued : q \in Held'
    BY <1>2, <1>3, <1>4, <1>7, InvParts, MarkAssumption DEF Tame
  <2>2. ASSUME NEW j \in 1..n PROVE h.work.items[j] \in Allowed(Held')
    <3>1. h.work.items[j] \in Allowed(S)
      BY <1>4 DEF Tame, Items
    <3> QED
      BY <3>1, <1>6, <1>7 DEF Allowed
  <2>3. ASSUME NEW x \in B PROVE x \in Allowed(Held')
    <3>1. x \in Allowed(S) /\ x.t = "object"
      BY <1>2 DEF Fine, Neat
    <3>2. x = Dead \/ x.b # Root
      BY <3>1, MarkAssumption DEF Allowed, Item
    <3> QED
      BY <3>1, <3>2, <1>7 DEF Allowed
  <2> QED
    BY <2>1, <2>2, <2>3, <1>4 DEF Fine, Tame, Items
<1>9. Neat(h, B)
  <2> HIDE DEF B
  <2>1. ASSUME NEW j \in 1..n PROVE h.work.items[j].t \notin {"rootprot", "rootchunk"}
    <3>1. h.work.items[j] \in Item
      BY <1>4, MarkerFields DEF StackOver
    <3> QED
      BY <3>1, <1>6 DEF Item, Dead
  <2>2. \A j \in 1..n : h.work.items[j].t = "object" => h.work.items[j] = m.work.items[j]
    BY <1>4 DEF Dead
  <2> QED
    BY <2>1, <2>2, <1>2, <1>4 DEF Neat, B
<1>10. Fine(m', barrier', Held') /\ Ordered(m', barrier')
  BY <1>1, <1>2, <1>8, <1>9 DEF h, Ordered
<1> QED
  BY <1>1, <1>10, WorkStep

LEMMA WorkInit == Init => IInv /\ WorkKept
<1> SUFFICES ASSUME Init PROVE IInv /\ WorkKept
  OBVIOUS
<1>1. IInv
  BY InitInv
<1>2. Fine(m, barrier, Held) /\ m.mark = {}
  BY <1>1, NothingMarked DEF Init
<1>3. Len(m.work.items) = 0 /\ Len(barrier.items) = 0 /\ Items(barrier) = {}
  BY DEF Init, EmptyStack, Items
<1> QED
  BY <1>1, <1>2, <1>3 DEF WorkKept, Ordered, Neat, Once

LEMMA WorkProgram == ASSUME SmallFreed, IInv, WorkKept, Program PROVE WorkKept'
<1>1. CASE \/ \E i, k \in Slot, b \in Memory : Load(i, b, k)
           \/ \E i \in Slot : Forget(i)
           \/ EndStore \/ CreateRoot
           \/ \E k \in Slot, v \in Obj \cup {Null} : StoreRoot(k, v)
           \/ \E o \in Obj, i \in Slot : Alloc(o, i) \/ ReadWeak(o, i)
  <2>1. UNCHANGED <<shape, m, barrier, pc, resume>> /\ live \subseteq live'
    BY <1>1 DEF Load, Forget, EndStore, CreateRoot, StoreRoot, Alloc, ReadWeak
  <2> QED
    BY <2>1, WorkQuiet
<1>2. CASE \E o \in Obj, k \in Slot, v \in Obj \cup {Null} : BeginStore(o, k, v)
  BY <1>2, WorkBeginStore
<1>3. CASE \E o \in Obj : Free(o)
  BY <1>3, WorkFree
<1>4. CASE DestroyRoot
  BY <1>4, WorkDestroyRoot
<1> QED
  BY <1>1, <1>2, <1>3, <1>4 DEF Program

LEMMA WorkNext == SmallFreed /\ IInv /\ WorkKept /\ [Next]_vars => (IInv /\ WorkKept)'
<1> SUFFICES ASSUME SmallFreed, IInv, WorkKept, [Next]_vars PROVE (IInv /\ WorkKept)'
  OBVIOUS
<1>1. IInv'
  BY StepInv
<1>2. CASE Program
  BY <1>1, <1>2, WorkProgram
<1>3. CASE StartMark
  BY <1>1, <1>3, WorkStartMark
<1>4. CASE MarkStep \/ ShiftBarrierWork \/ Finish \/ (Collector /\ ~Sweep)
  BY <1>1, <1>4, WorkCollector
<1>5. CASE Sweep
  BY <1>1, <1>5, WorkSweep
<1>6. CASE \E o \in Obj, b \in Memory, k \in Slot :
             PresweepReadWeak(o, b, k) \/ PresweepAlloc(o, b, k)
  BY <1>1, <1>6, WorkPresweep
<1>7. CASE UNCHANGED vars
  <2>1. UNCHANGED <<shape, m, barrier, pc, resume>> /\ live \subseteq live'
    BY <1>7 DEF vars, program
  <2> QED
    BY <1>1, <2>1, WorkQuiet
<1> QED
  BY <1>1, <1>2, <1>3, <1>4, <1>5, <1>6, <1>7 DEF Next

LEMMA WorkHeld == IInv /\ WorkKept => WorkValid
<1> SUFFICES ASSUME WorkKept PROVE WorkValid
  OBVIOUS
<1>1. \A x \in Items(m.work) \cup Items(barrier) : x \in Allowed(Held)
  BY DEF WorkKept, Fine, Tame
<1> QED
  BY <1>1 DEF WorkValid, Allowed, Held

\* An item of the mark stack or the barrier stack never outlives what it
\* points into, if the program frees no object that is marked part by part:
\* GCRoot::Destroy clears the items of the root, and an object that is queued
\* stays until its item is popped.
THEOREM WorkIsValid ==
  ASSUME SmallFreed
  PROVE  SafetySpec => []WorkValid
<1>1. IInv /\ WorkKept /\ [Next]_vars => (IInv /\ WorkKept)'
  BY WorkNext
<1> QED
  BY <1>1, WorkInit, WorkHeld, PTL DEF SafetySpec
=============================================================================
