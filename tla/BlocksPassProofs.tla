------------------------- MODULE BlocksPassProofs -------------------------
(***************************************************************************)
(* Proofs about Blocks, continued: the steps of a collection, and the      *)
(* theorems.                                                               *)
(***************************************************************************)
EXTENDS BlocksProofs

(* What the program does during a collection.                              *)

LEMMA CollectState ==
  ASSUME IInv, pc \in {"presweep", "pass", "final"}
  PROVE  /\ collecting = TRUE /\ marking = TRUE
         /\ Sound(h, {at}, TRUE, TRUE, ToVisit(h), held, destroyed)
         /\ Budgeted(h) /\ \A a \in Small : h.quick[a] = {}
         /\ Cursor(h, destroyed) /\ Found(h)
<1>1. collecting = TRUE /\ marking = TRUE
  BY DEF IInv, TypeOK, PhaseInv
<1>2. \A a \in Small : h.quick[a] = {}
  BY DEF IInv, PhaseInv
<1> QED
  BY <1>1, <1>2 DEF IInv, Sound

\* Steps of the program that keep the place of the pass.
LEMMA CollectStep ==
  ASSUME IInv, pc \in {"presweep", "final"}, UNCHANGED <<phase, pass>>,
         NEW W, Sound(h', {at}, TRUE, TRUE, W, held', destroyed'), Budgeted(h'),
         h'.empty = h.empty, h'.passed = h.passed, \A a \in Small : h'.quick[a] = {},
         SweepOf(h) \subseteq SweepOf(h'),
         \A i \in Objects(h) : i \in Objects(h') /\ h'.bits[i] = h.bits[i],
         \A b \in AllBlocks(h') : b \in ToVisit(h) => b \in W,
         \A b \in AllBlocks(h') : b \in W <=> b \in ToVisit(h)',
         Cursor(h, destroyed)'
  PROVE  IInv'
<1>1. /\ pc' = pc /\ todo' = todo /\ doomed' = doomed /\ collecting' = collecting
      /\ marking' = marking /\ instance' = instance /\ closing' = closing
      /\ at' = at /\ next' = next /\ putOnFreeList' = putOnFreeList
  BY DEF phase, pass
<1>2. Shaped(h', {at}) /\ Tinted(h', TRUE, TRUE, W) /\ Sheltered(h', held', destroyed', W)
  BY DEF Sound
<1>3. h' \in AllocatorState
  BY <1>2 DEF Shaped
<1>4. TypeOK'
  <2>1. held' \in SUBSET Item /\ destroyed' \in SUBSET Item
    BY <1>2, HeldItems
  <2>2. /\ closing \in BOOLEAN /\ putOnFreeList \in BOOLEAN /\ collecting \in BOOLEAN
        /\ marking \in BOOLEAN /\ doomed \in SUBSET Item /\ {at, next} \subseteq Block \cup {None}
        /\ pc \in {"run", "presweep", "pass", "final", "dead"}
        /\ instance \in Instances /\ todo \in Remainders(instance.order)
    BY DEF IInv, TypeOK
  <2> QED
    BY <1>1, <1>3, <2>1, <2>2 DEF TypeOK
<1>5. PhaseInv'
  <2>1. PhaseInv
    BY DEF IInv
  <2> QED
    BY <1>1, <2>1 DEF PhaseInv
<1>6. collecting = TRUE /\ marking = TRUE
  BY CollectState
<1>7. Found(h)'
  <2> SUFFICES ASSUME NEW i \in doomed
               PROVE  \/ /\ i \in Objects(h') /\ h'.bits[i] = "none"
                         /\ i[1] \in ToVisit(h)' \cup SweepOf(h')
                      \/ i[1] \in h'.empty
                      \/ pc' = "final" /\ Head(todo') = Large /\ i[1] = next'
    BY <1>1 DEF Found, Objects, SweepOf, SmallBlocks, Own
  <2>1. CASE i \in Objects(h) /\ h.bits[i] = "none" /\ i[1] \in ToVisit(h) \cup SweepOf(h)
    <3>1. i \in Objects(h') /\ h'.bits[i] = "none"
      BY <2>1
    <3>2. i[1] \in AllBlocks(h')
      <4>1. i \in Item /\ (i[1] \in SmallBlocks(h') \/ i[1] \in Own(h', Large))
        BY <1>3, <3>1, ObjectsOf
      <4> QED
        BY <4>1, Kinds DEF AllBlocks, SmallBlocks
    <3> QED
      BY <2>1, <3>1, <3>2
  <2>2. CASE i[1] \in h.empty \/ (pc = "final" /\ Head(todo) = Large /\ i[1] = next)
    BY <1>1, <2>2
  <2>3. Found(h)
    BY DEF IInv
  <2> QED
    BY <2>1, <2>2, <2>3 DEF Found
<1> QED
  BY <1>1, <1>2, <1>4, <1>5, <1>6, <1>7, Assemble

\* The allocators of the pass: todo is the end of the order.
LEMMA SuffixOf ==
  ASSUME NEW S, NEW s \in Seq(S), IsInjective(s)
  PROVE  /\ s \in Remainders(s) /\ <<>> \in Remainders(s)
         /\ \A t \in Remainders(s) : t \in Seq(S) /\ IsInjective(t)
         /\ \A t \in Remainders(s) : t # <<>> => Tail(t) \in Remainders(s)
<1>1. s = SubSeq(s, 1, Len(s)) /\ 1 \in 1..Len(s) + 1
  OBVIOUS
<1>2. <<>> = SubSeq(s, Len(s) + 1, Len(s)) /\ Len(s) + 1 \in 1..Len(s) + 1
  OBVIOUS
<1>3. ASSUME NEW t \in Remainders(s)
      PROVE  /\ t \in Seq(S) /\ IsInjective(t)
             /\ t # <<>> => Tail(t) \in Remainders(s)
  <2>1. PICK k \in 1..Len(s) + 1 : t = SubSeq(s, k, Len(s))
    BY DEF Remainders
  <2>2. /\ t \in Seq(S) /\ Len(t) = Len(s) + 1 - k
        /\ \A j \in 1..Len(t) : t[j] = s[k + j - 1]
    BY <2>1
  <2>3. IsInjective(t)
    <3> SUFFICES ASSUME NEW i \in 1..Len(t), NEW j \in 1..Len(t), t[i] = t[j]
                 PROVE  i = j
      BY <2>2 DEF IsInjective
    <3>1. /\ k + i - 1 \in DOMAIN s /\ k + j - 1 \in DOMAIN s
          /\ s[k + i - 1] = s[k + j - 1]
      BY <2>2
    <3>2. k + i - 1 = k + j - 1
      BY <3>1 DEF IsInjective
    <3> QED
      BY <3>2
  <2>4. ASSUME t # <<>>
        PROVE  Tail(t) = SubSeq(s, k + 1, Len(s)) /\ k + 1 \in 1..Len(s) + 1
    <3>1. Len(t) > 0
      BY <2>2, <2>4
    <3>2. k + 1 \in 1..Len(s) + 1
      BY <2>2, <3>1
    <3>3. /\ Tail(t) \in Seq(S) /\ Len(Tail(t)) = Len(t) - 1
          /\ \A j \in 1..Len(t) - 1 : Tail(t)[j] = t[j + 1]
      BY <2>2, <3>1
    <3> DEFINE u == SubSeq(s, k + 1, Len(s))
               v == Tail(t)
    <3>4. u \in Seq(S) /\ Len(u) = Len(s) - k /\ \A j \in 1..Len(u) : u[j] = s[k + j]
      BY <3>2
    <3>9. /\ v \in Seq(S) /\ Len(v) = Len(t) - 1
          /\ \A j \in 1..Len(t) - 1 : v[j] = t[j + 1]
      BY <3>3
    <3> HIDE DEF u, v
    <3>5. Len(v) = Len(u) /\ Len(u) \in Nat
      <4>1. Len(s) \in Nat /\ k \in Nat
        OBVIOUS
      <4>2. Len(v) = (Len(s) + 1 - k) - 1
        BY <2>2, <3>9
      <4> QED
        BY <3>4, <4>1, <4>2
    <3>6. ASSUME NEW j \in 1..Len(u)
          PROVE  v[j] = u[j]
      <4>1. j + 1 \in 1..Len(t) /\ k + (j + 1) - 1 = k + j
        BY <2>2, <3>4
      <4>2. v[j] = t[j + 1]
        BY <3>9, <3>5
      <4>3. t[j + 1] = s[k + j]
        BY <2>2, <4>1
      <4> QED
        BY <3>4, <4>2, <4>3
    <3>7. v \in [1..Len(u) -> S] /\ u \in [1..Len(u) -> S]
      BY <3>9, <3>4, <3>5
    <3>8. v = u
      BY <3>6, <3>7
    <3> QED
      BY <3>2, <3>8 DEF u, v
  <2> QED
    BY <2>2, <2>3, <2>4 DEF Remainders
<1> QED
  BY <1>1, <1>2, <1>3 DEF Remainders

LEMMA HeadTail ==
  ASSUME NEW S, NEW s \in Seq(S), IsInjective(s), s # <<>>
  PROVE  /\ Head(s) \in S /\ Tail(s) \in Seq(S)
         /\ Range(s) = {Head(s)} \cup Range(Tail(s))
         /\ Head(s) \notin Range(Tail(s))
<1>1. /\ Len(s) \in Nat \ {0} /\ Head(s) = s[1] /\ s[1] \in S
      /\ Tail(s) \in Seq(S) /\ Len(Tail(s)) = Len(s) - 1
      /\ \A j \in 1..Len(s) - 1 : Tail(s)[j] = s[j + 1]
  OBVIOUS
<1>2. /\ \A x : x \in Range(s) <=> \E j \in 1..Len(s) : s[j] = x
      /\ \A x : x \in Range(Tail(s)) <=> \E j \in 1..Len(Tail(s)) : Tail(s)[j] = x
  <2>1. \A x : x \in Range(s) <=> \E j \in 1..Len(s) : s[j] = x
    BY RangeOf
  <2>2. \A x : x \in Range(Tail(s)) <=> \E j \in 1..Len(Tail(s)) : Tail(s)[j] = x
    <3> DEFINE r == Tail(s)
    <3>1. r \in Seq(S)
      BY <1>1
    <3> HIDE DEF r
    <3>2. \A x : x \in Range(r) <=> \E j \in 1..Len(r) : r[j] = x
      BY <3>1, RangeOf
    <3> QED
      BY <3>2 DEF r
  <2> QED
    BY <2>1, <2>2
<1>3. ASSUME NEW x \in Range(s)
      PROVE  x = Head(s) \/ x \in Range(Tail(s))
  <2>1. PICK j \in 1..Len(s) : s[j] = x
    BY <1>2
  <2>2. CASE j = 1
    BY <1>1, <2>1, <2>2
  <2>3. CASE j # 1
    <3>1. j - 1 \in 1..Len(s) - 1 /\ Tail(s)[j - 1] = s[j]
      BY <1>1, <2>3
    <3> QED
      BY <1>1, <1>2, <2>1, <3>1
  <2> QED
    BY <2>2, <2>3
<1>4. Head(s) \in Range(s)
  BY <1>1, <1>2
<1>5. ASSUME NEW x \in Range(Tail(s))
      PROVE  x \in Range(s) /\ x # Head(s)
  <2>1. PICK j \in 1..Len(s) - 1 : s[j + 1] = x
    BY <1>1, <1>2
  <2>2. j + 1 \in 1..Len(s) /\ 1 \in 1..Len(s) /\ j + 1 # 1
    BY <1>1
  <2> QED
    BY <1>1, <1>2, <2>1, <2>2 DEF IsInjective
<1> QED
  BY <1>1, <1>3, <1>4, <1>5

LEMMA Todo ==
  ASSUME IInv
  PROVE  /\ todo \in Seq(Allocs)
         /\ todo # <<>> =>
              /\ Head(todo) \in Allocs /\ Tail(todo) \in Remainders(instance.order)
              /\ Range(todo) = {Head(todo)} \cup Range(Tail(todo))
              /\ Head(todo) \notin Range(Tail(todo))
<1>1. instance \in Instances /\ todo \in Remainders(instance.order)
  BY DEF IInv, TypeOK
<1>2. instance.order \in Seq(Allocs) /\ IsInjective(instance.order)
  BY <1>1, BlocksAssumption
<1>3. /\ todo \in Seq(Allocs) /\ IsInjective(todo)
      /\ todo # <<>> => Tail(todo) \in Remainders(instance.order)
  BY <1>1, <1>2, SuffixOf
<1>4. todo # <<>> => /\ Head(todo) \in Allocs
                     /\ Range(todo) = {Head(todo)} \cup Range(Tail(todo))
                     /\ Head(todo) \notin Range(Tail(todo))
  BY <1>3, HeadTail
<1> QED
  BY <1>3, <1>4

\* What a destructor finds: the pass has begun with allocator Head(todo).
LEMMA FinalState ==
  ASSUME IInv, pc = "final"
  PROVE  /\ todo # <<>> /\ Head(todo) \in Finalizing \cup {Large}
         /\ \A a \in Range(Tail(todo)) : a \in h.passed => a = Float
         /\ Head(todo) \in Finalizing =>
              /\ Between(h, destroyed, Head(todo)) /\ at # None /\ Head(todo) \in h.passed
              /\ at \in Own(h, Head(todo))
              /\ next # None => next \in Own(h, Head(todo))
         /\ Head(todo) = Large =>
              /\ Large \in h.passed
              /\ at = None \/ at \in Own(h, Large)
              /\ next \in Block \ (AllBlocks(h) \cup h.empty)
<1>1. Cursor(h, destroyed) /\ todo # <<>> /\ Head(todo) \in Finalizing \cup {Large}
  BY CollectState DEF IInv, PhaseInv
<1>2. CASE Head(todo) \in Finalizing
  <2>1. Between(h, destroyed, Head(todo)) /\ Head(todo) # Large
    BY <1>1, <1>2, Kinds DEF Cursor
  <2>2. PICK k \in 1..N : <<at, k>> \in destroyed
    BY <2>1 DEF Between
  <2>3. destroyed \subseteq Item
    BY DEF IInv, TypeOK
  <2>4. at \in Block /\ at # None
    BY <2>2, <2>3, BlocksAssumption DEF Item
  <2>5. h \in AllocatorState /\ Head(todo) \in Allocs
    BY <1>2, Kinds DEF IInv, Shaped
  <2>6. next # None => next \in Own(h, Head(todo))
    <3>1. h.list[Head(todo)] \in Seq(Block) /\ IsInjective(h.list[Head(todo)])
      BY <2>5, OwnType DEF IInv, Shaped, Listed
    <3> QED
      BY <2>1, <3>1, Ordered DEF Between, Own
  <2> QED
    BY <1>1, <2>1, <2>4, <2>6 DEF Cursor, Between
<1>3. CASE Head(todo) = Large
  BY <1>1, <1>3, Kinds DEF Cursor
<1> QED
  BY <1>1, <1>2, <1>3

\* The lists of the program's step from h to x: blocks F are new, blocks bs
\* are gone, and the place of the pass is not among them.
InPlace(a, F, bs, x) ==
  /\ Relisted(h, a, F, bs, x)
  /\ F \subseteq Block \ (AllBlocks(h) \cup {at, next})
  /\ at \notin bs /\ (pc = "final" /\ Head(todo) \in Finalizing => next \notin bs)
  /\ at # None => x.free[at] = h.free[at]
  /\ \A c \in Small : at \in x.avail[c] => at \in h.avail[c]

LEMMA OldToVisit ==
  ASSUME NEW a, NEW F, NEW bs, InPlace(a, F, bs, h'), UNCHANGED <<phase, pass>>
  PROVE  \A b \in AllBlocks(h) : b \in AllBlocks(h') =>
           (b \in ToVisit(h) <=> b \in ToVisit(h)')
<1>1. pc' = pc /\ todo' = todo /\ at' = at /\ next' = next
  BY DEF phase, pass
<1>2. ASSUME NEW c \in Allocs, NEW b \in Own(h, c), b \notin bs
      PROVE  b \in Ahead(h, c) <=> b \in Ahead(h, c)'
  <2>1. b \notin F /\ b \in Own(h', c)
    BY <1>2 DEF InPlace, Relisted, AllBlocks
  <2>2. Before(h'.list[c], at, b) <=> Before(h.list[c], at, b)
    BY <1>2, <2>1 DEF InPlace, Relisted
  <2> QED
    BY <1>1, <2>1, <2>2 DEF Ahead, Own, Before
<1>3. ASSUME NEW b \in AllBlocks(h), b \in AllBlocks(h')
      PROVE  b \notin bs /\ b \notin F
  BY <1>3 DEF InPlace, Relisted, AllBlocks
<1>4. ASSUME NEW b \in AllBlocks(h), b \in AllBlocks(h'), b \in ToVisit(h)
      PROVE  b \in ToVisit(h)'
  <2>1. PICK c \in Allocs : b \in Ahead(h, c)
    BY <1>4 DEF ToVisit
  <2>2. b \in Own(h, c)
    BY <2>1 DEF Ahead
  <2>3. b \in Ahead(h, c)'
    BY <1>2, <1>3, <1>4, <2>1, <2>2
  <2> QED
    BY <2>3 DEF ToVisit
<1>5. ASSUME NEW b \in AllBlocks(h), b \in AllBlocks(h'), b \in ToVisit(h)'
      PROVE  b \in ToVisit(h)
  <2>1. PICK c \in Allocs : b \in Ahead(h, c)'
    BY <1>5 DEF ToVisit
  <2>2. b \in Own(h', c)
    BY <2>1 DEF Ahead, Own
  <2>3. b \in Own(h, c)
    BY <1>3, <1>5, <2>2 DEF InPlace, Relisted
  <2>4. b \in Ahead(h, c)
    BY <1>2, <1>3, <1>5, <2>1, <2>3
  <2> QED
    BY <2>4 DEF ToVisit
<1> QED
  BY <1>4, <1>5

LEMMA CursorKept ==
  ASSUME IInv, pc \in {"presweep", "final"}, UNCHANGED <<phase, pass>>,
         NEW a, NEW F, NEW bs, InPlace(a, F, bs, h'), destroyed \subseteq destroyed',
         AllBlocks(h') \subseteq Block
  PROVE  Cursor(h, destroyed)'
<1>1. pc' = pc /\ todo' = todo /\ at' = at /\ next' = next /\ instance' = instance
      /\ putOnFreeList' = putOnFreeList
  BY DEF phase, pass
<1>2. Cursor(h, destroyed)
  BY CollectState
<1>3. h'.passed = h.passed /\ h'.empty = h.empty
  BY DEF InPlace, Relisted
<1>4. CASE pc = "presweep"
  BY <1>1, <1>4 DEF Cursor, IInv, PhaseInv
<1>5. CASE pc = "final"
  <2>1. /\ todo # <<>> /\ Head(todo) \in Finalizing \cup {Large}
        /\ Using \subseteq h.passed \cup Range(todo) \cup {Large}
        /\ \A c \in Range(Tail(todo)) : c \in h.passed => c = Float
    BY <1>2, <1>5, FinalState DEF Cursor
  <2>2. CASE Head(todo) \in Finalizing
    <3> DEFINE d == Head(todo)
    <3>1. /\ Between(h, destroyed, d) /\ at # None /\ d \in h.passed /\ at \in Own(h, d)
          /\ next # None => next \in Own(h, d)
      BY <1>5, <2>2, FinalState
    <3>2. d \in Allocs /\ d \in Small /\ d # Large /\ d \notin Plain
      BY <2>2, Kinds
    <3> HIDE DEF d
    <3>3. at \in Own(h', d) \ h'.avail[d]
      BY <3>1, <3>2 DEF InPlace, Relisted, Between
    <3>4. putOnFreeList <=> h'.free[at] # {}
      BY <3>1 DEF InPlace, Between
    <3>5. ASSUME next # None
          PROVE  /\ Before(h'.list[d], at, next)
                 /\ \A b \in Own(h', d) :
                      Before(h'.list[d], at, b) => b = next \/ Before(h'.list[d], next, b)
      <4>1. /\ Before(h.list[d], at, next)
            /\ \A b \in Own(h, d) :
                 Before(h.list[d], at, b) => b = next \/ Before(h.list[d], next, b)
        BY <3>1, <3>5 DEF Between
      <4>2. next \notin bs /\ at \notin bs /\ next \in Own(h, d)
        BY <1>5, <2>2, <3>1, <3>5 DEF InPlace
      <4>3. \A y, z : Before(h'.list[d], y, z) <=>
              /\ Before(h.list[d], y, z) \/ (d = a /\ y \in Own(h, d) /\ z \in F)
              /\ y \notin bs /\ z \notin bs
        BY <3>2 DEF InPlace, Relisted
      <4>4. ASSUME NEW b \in Own(h', d), Before(h'.list[d], at, b)
            PROVE  b = next \/ Before(h'.list[d], next, b)
        <5>1. CASE b \in F /\ d = a
          BY <4>2, <4>3, <4>4, <5>1
        <5>2. CASE ~(b \in F /\ d = a)
          <6>1. b \in Own(h, d) /\ b \notin bs
            BY <3>2, <5>2 DEF InPlace, Relisted
          <6>2. Before(h.list[d], at, b)
            BY <4>3, <4>4, <5>2
          <6> QED
            BY <4>1, <4>2, <4>3, <6>1, <6>2
        <5> QED
          BY <5>1, <5>2
      <4> QED
        BY <4>1, <4>2, <4>3, <4>4
    <3>6. \E k \in 1..N : <<at, k>> \in destroyed'
      BY <1>5, <3>1 DEF Between
    <3>7. Between(h, destroyed, d)'
      BY <1>1, <1>3, <3>1, <3>3, <3>4, <3>5, <3>6 DEF Between, Own, Before, d
    <3> QED
      BY <1>1, <1>3, <2>1, <3>2, <3>7 DEF Cursor, Using, d
  <2>3. CASE Head(todo) = Large
    <3>1. /\ Large \in h.passed
          /\ at = None \/ at \in Own(h, Large)
          /\ next \in Block \ (AllBlocks(h) \cup h.empty)
      BY <1>5, <2>3, FinalState
    <3>2. at = None \/ at \in Own(h', Large)
      BY <3>1, Kinds DEF InPlace, Relisted
    <3>3. next \notin AllBlocks(h')
      <4>1. next \notin F
        BY DEF InPlace
      <4> QED
        BY <3>1, <4>1 DEF InPlace, Relisted, AllBlocks
    <3>4. Head(todo) \notin Plain /\ Head(todo) \notin Finalizing
      BY <2>3, Kinds
    <3> QED
      BY <1>1, <1>3, <1>5, <2>1, <2>3, <3>1, <3>2, <3>3, <3>4 DEF Cursor, Using, AllBlocks, Own
  <2> QED
    BY <2>1, <2>2, <2>3
<1> QED
  BY <1>4, <1>5

\* A new block is to be visited if its allocator has not been passed.
LEMMA NewToVisit ==
  ASSUME IInv, pc \in {"presweep", "final"}, UNCHANGED <<phase, pass>>,
         NEW a \in Small \cap Using, NEW F, NEW bs, InPlace(a, F, bs, h'),
         ~(a \in h.passed /\ ToCome(a)), Listed(h'), NEW b \in F \ bs
  PROVE  b \in AllBlocks(h') /\ (b \in ToVisit(h)' <=> a \notin h.passed)
<1>1. pc' = pc /\ todo' = todo /\ at' = at /\ next' = next
  BY DEF phase, pass
<1>2. a \in Allocs /\ b \in Own(h', a) /\ a # Large
  BY Kinds DEF InPlace, Relisted
<1>3. b \in AllBlocks(h')
  BY <1>2 DEF AllBlocks
<1>4. b \in ToVisit(h)' <=> b \in Ahead(h, a)'
  <2>1. \A c \in Allocs : b \in Ahead(h, c)' => b \in Own(h', c)
    BY DEF Ahead, Own
  <2>2. \A c \in Allocs : b \in Own(h', c) => c = a
    BY <1>2 DEF Listed
  <2> QED
    BY <1>2, <2>1, <2>2 DEF ToVisit
<1>5. CASE pc = "presweep"
  <2>1. a \notin h.passed
    BY <1>5 DEF ToCome
  <2>2. b \in Ahead(h, a)'
    BY <1>1, <1>2, <1>5 DEF Ahead, Own
  <2> QED
    BY <1>3, <1>4, <2>1, <2>2
<1>6. CASE pc = "final"
  <2>1. /\ todo # <<>> /\ Head(todo) \in Finalizing \cup {Large}
        /\ Using \subseteq h.passed \cup Range(todo) \cup {Large}
        /\ \A c \in Range(Tail(todo)) : c \in h.passed => c = Float
        /\ Head(todo) \in Finalizing => at # None /\ Head(todo) \in h.passed
    BY <1>6, FinalState, CollectState DEF Cursor
  <2>2. b # at
    BY DEF InPlace
  <2>3. Range(todo) = {Head(todo)} \cup Range(Tail(todo))
    BY <2>1, Todo
  <2>4. b \in Ahead(h, a)' <=>
          \/ a \in Range(Tail(todo))
          \/ a = Head(todo) /\ (at = None \/ (next # None /\ Before(h'.list[a], at, b)))
    BY <1>1, <1>2, <1>6, <2>1, <2>2 DEF Ahead, Own, Before
  <2>5. a \in h.passed => a \notin Range(Tail(todo)) /\ ~(a = Head(todo) /\ next # None)
    BY <1>6 DEF ToCome
  <2> QED
    BY <1>2, <1>3, <1>4, <2>1, <2>3, <2>4, <2>5
<1> QED
  BY <1>3, <1>5, <1>6

\* x has the lists, items and objects of g.
Idle(g, x) ==
  /\ x \in AllocatorState /\ x.passed = g.passed /\ x.empty = g.empty
  /\ \A c \in Allocs :
       Own(x, c) = Own(g, c) /\ \A y, z : Before(x.list[c], y, z) <=> Before(g.list[c], y, z)
  /\ \A c \in Small : x.avail[c] = g.avail[c] /\ x.sweep[c] = g.sweep[c]
  /\ \A e \in Block : x.free[e] = g.free[e]
  /\ x.quick = g.quick /\ x.budget = g.budget /\ x.obtained = g.obtained
  /\ Joined(g, {}, x)

LEMMA SweepNothing ==
  ASSUME NEW g, NEW out, NEW c, NEW m, NEW V, NEW R, NEW D, Sound(g, out, c, m, V, R, D),
         NEW x, x = Sweep(g, {})
  PROVE  Sound(x, out, c, m, V, R, D) /\ Idle(g, x)
<1>1. Shaped(g, out) /\ Tinted(g, c, m, V) /\ Sheltered(g, R, D, V)
  BY DEF Sound
<1>2. g \in AllocatorState /\ Listed(g) /\ Placed(g, out)
  BY <1>1 DEF Shaped
<1>3. {} \in SUBSET SweepOf(g)
  OBVIOUS
<1>4. \E bs : Swept(g, {}, x, bs) /\ bs = {b \in {} : SweptFree(g, {})[b] = 1..N}
  BY <1>2, <1>3, SweepPlaced
<1>5. Swept(g, {}, x, {})
  BY <1>4
<1>6. Shaped(x, out) /\ Tinted(x, c, m, V) /\ Sheltered(x, R, D \cap Objects(x), V)
  BY <1>1, <1>3, SweepSound
<1>7. /\ Objects(x) \subseteq Objects(g)
      /\ \A i \in Objects(g) : i[1] \notin {} => i \in Objects(x)
      /\ \A i \in Objects(x) : x.bits[i] = IF i[1] \in {} THEN "none" ELSE g.bits[i]
  BY <1>2, <1>3, SweepObjects
<1>8. Joined(g, {}, x) /\ D \cap Objects(x) = D
  BY <1>1, <1>7 DEF Joined, Sheltered
<1>9. GivesBack(g, x, {}) /\ x \in AllocatorState /\ x.passed = g.passed /\ x.empty = g.empty
  BY <1>5 DEF Swept, GivesBack
<1>10. \A d \in Allocs :
         /\ Own(x, d) = Own(g, d) \ {}
         /\ \A y, z : Before(x.list[d], y, z) <=>
                        Before(g.list[d], y, z) /\ y \notin {} /\ z \notin {}
  <2> DEFINE bs == {}
  <2>1. GivesBack(g, x, bs)
    BY <1>9
  <2> HIDE DEF bs
  <2>2. \A d \in Allocs :
          /\ Own(x, d) = Own(g, d) \ bs
          /\ \A y, z : Before(x.list[d], y, z) <=>
                         Before(g.list[d], y, z) /\ y \notin bs /\ z \notin bs
    BY <1>2, <2>1, GivesBackLists
  <2> QED
    BY <2>2 DEF bs
<1>11. \A d \in Allocs :
         Own(x, d) = Own(g, d) /\ \A y, z : Before(x.list[d], y, z) <=> Before(g.list[d], y, z)
  BY <1>10
<1>12. /\ \A d \in Small :
            /\ x.avail[d] = (g.avail[d] \cup {b \in {} \cap g.sweep[d] : SweptFree(g, {})[b] # {}}) \ {}
            /\ x.sweep[d] = g.sweep[d] \ {}
       /\ \A b \in Block : x.free[b] = IF b \in {} THEN {} ELSE SweptFree(g, {})[b]
       /\ x.quick = g.quick /\ x.budget = g.budget /\ x.obtained = g.obtained
  BY <1>5 DEF Swept
<1>13. \A d \in Small : x.avail[d] = g.avail[d] /\ x.sweep[d] = g.sweep[d]
  BY <1>12
<1>14. \A b \in Block : x.free[b] = g.free[b]
  <2>1. \A b \in Block : SweptFree(g, {})[b] = g.free[b]
    BY DEF SweptFree
  <2> QED
    BY <1>12, <2>1
<1> QED
  BY <1>6, <1>8, <1>9, <1>11, <1>12, <1>13, <1>14 DEF Sound, Idle

\* The blocks to be visited, when the blocks F are new on the list of a.
NowToVisit(a, F) == ToVisit(h) \cup (IF a \in h.passed THEN {} ELSE F)

\* What Provide does during a collection: it finds a block or gets the one in F.
Provided(a, F, x) ==
  /\ Relisted(h, a, F, {}, x) /\ Joined(h, {}, x)
  /\ F \subseteq Block \ (AllBlocks(h) \cup {at, next})
  /\ x.quick = h.quick
  /\ F # {} => x.avail[a] = F
  /\ \A c \in Small : x.avail[c] \ F = h.avail[c] /\ x.sweep[c] = h.sweep[c]
  /\ \A e \in Block \ F : x.free[e] = h.free[e]

LEMMA ProvideCollecting ==
  ASSUME IInv, pc \in {"presweep", "final"}, NEW a \in Small \cap Using, NEW x \in Provide(h, a)
  PROVE  \E F \in SUBSET Block :
           /\ Provided(a, F, x) /\ Budgeted(x)
           /\ Sound(x, {at}, TRUE, TRUE, NowToVisit(a, F), held, destroyed)
<1>1. /\ collecting = TRUE /\ Sound(h, {at}, TRUE, TRUE, ToVisit(h), held, destroyed)
      /\ Budgeted(h)
  BY CollectState
<1>2. h \in AllocatorState /\ ToVisit(h) \subseteq AllBlocks(h)
  BY <1>1 DEF Sound, Shaped, ToVisit, Ahead, AllBlocks
<1>3. CASE h.avail[a] # {}
  <2>1. x = h
    BY <1>3 DEF Provide
  <2>2. Relisted(h, a, {}, {}, h)
    BY DEF Relisted
  <2>3. Joined(h, {}, h)
    BY DEF Joined
  <2>4. Provided(a, {}, x)
    BY <2>1, <2>2, <2>3 DEF Provided
  <2>5. NowToVisit(a, {}) = ToVisit(h)
    BY DEF NowToVisit
  <2> QED
    BY <1>1, <2>1, <2>4, <2>5
<1>4. CASE h.avail[a] = {}
  <2> DEFINE y == Sweep(h, {})
  <2>1. x = y \/ (x \in CreateChunk(y, a) /\ y.avail[a] = {})
    BY <1>1, <1>4, ProvideCases
  <2>2. Sound(y, {at}, TRUE, TRUE, ToVisit(h), held, destroyed) /\ Idle(h, y)
    BY <1>1, SweepNothing
  <2>3. Budgeted(y)
    BY <1>1, <2>2 DEF Idle, Budgeted, Accounted
  <2> HIDE DEF y
  <2>4. Relisted(h, a, {}, {}, y)
    BY <2>2 DEF Idle, Relisted
  <2>5. CASE x = y
    <3>1. Provided(a, {}, x)
      BY <2>2, <2>4, <2>5 DEF Provided, Idle
    <3>2. NowToVisit(a, {}) = ToVisit(h)
      BY DEF NowToVisit
    <3> QED
      BY <2>2, <2>3, <2>5, <3>1, <3>2
  <2>6. CASE x \in CreateChunk(y, a) /\ y.avail[a] = {}
    <3>1. y \in AllocatorState /\ y.passed = h.passed
      BY <2>2 DEF Idle
    <3> DEFINE s == collecting /\ a \in y.passed
    <3>2. PICK b \in Spare(y) : Created(y, a, b, s, x)
      BY <2>6, <3>1, CreateFields
    <3>3. s \in BOOLEAN /\ (s <=> a \in h.passed)
      BY <1>1, <3>1
    <3> HIDE DEF s
    <3>4. AllBlocks(y) = AllBlocks(h)
      BY <2>2 DEF Idle, AllBlocks
    <3>5. b \in Block /\ b \notin AllBlocks(h) \cup y.empty /\ b # at /\ b # next
      <4>1. b \in Block /\ b \notin AllBlocks(y) \cup y.empty \cup ({at, next} \ {None})
        BY Kinds DEF Spare, InUse, AllBlocks, SmallBlocks
      <4>2. b # None
        BY <4>1, BlocksAssumption
      <4> QED
        BY <3>4, <4>1, <4>2
    <3> DEFINE W == NowToVisit(a, {b})
    <3>6. Fits(TRUE, s, b, ToVisit(h), W)
      BY <3>3 DEF Fits, NowToVisit
    <3>7. b \notin AllBlocks(y) \cup y.empty \cup ToVisit(h)
      BY <1>2, <3>4, <3>5
    <3> HIDE DEF W
    <3>8. /\ Sound(x, {at}, TRUE, TRUE, W, held, destroyed)
          /\ Relisted(y, a, {b}, {}, x) /\ Joined(y, {}, x)
      BY <2>2, <3>2, <3>5, <3>6, <3>7, CreateSound
    <3>9. Relisted(h, a, {b}, {}, x)
      BY <3>8, <2>2 DEF Relisted, Idle
    <3>10. Joined(h, {}, x)
      BY <2>2, <3>8 DEF Joined, Idle
    <3>11. /\ x.quick = h.quick /\ x.budget = h.budget /\ x.obtained = h.obtained
           /\ x.avail[a] = {b}
      BY <2>2, <2>6, <3>2 DEF Created, Idle
    <3>12. ASSUME NEW c \in Small
           PROVE  x.avail[c] \ {b} = h.avail[c] /\ x.sweep[c] = h.sweep[c]
      <4>1. b \notin h.avail[c]
        <5>1. h.avail[c] \subseteq Own(h, c)
          BY <1>1 DEF Sound, Shaped, Placed
        <5> QED
          BY <3>5, <5>1, Kinds DEF AllBlocks
      <4>2. x.avail[c] = IF c = a THEN y.avail[c] \cup {b} ELSE y.avail[c]
        BY <3>2 DEF Created
      <4>3. x.sweep[c] = y.sweep[c]
        BY <3>2 DEF Created
      <4>4. y.avail[c] = h.avail[c] /\ y.sweep[c] = h.sweep[c]
        BY <2>2 DEF Idle
      <4> QED
        BY <4>1, <4>2, <4>3, <4>4
    <3>13. \A e \in Block \ {b} : x.free[e] = h.free[e]
      BY <2>2, <3>2 DEF Created, Idle
    <3>14. Provided(a, {b}, x)
      BY <3>5, <3>9, <3>10, <3>11, <3>12, <3>13 DEF Provided
    <3>15. Budgeted(x)
      BY <1>1, <3>11 DEF Budgeted, Accounted
    <3> QED
      BY <3>5, <3>8, <3>14, <3>15 DEF W
  <2> QED
    BY <2>1, <2>5, <2>6
<1> QED
  BY <1>3, <1>4

\* The block at which the pass stands is on no list of free blocks, and has a
\* destroyed object if it belongs to a small allocator.
LEMMA PlaceIs ==
  ASSUME IInv, pc \in {"presweep", "final"}
  PROVE  /\ \A c \in Small : at \notin h.avail[c]
         /\ \/ at = None
            \/ at \in Own(h, Large)
            \/ at \in SmallBlocks(h) /\ \E k \in 1..N : <<at, k>> \in destroyed
<1>1. h \in AllocatorState /\ Listed(h) /\ \A c \in Small : h.avail[c] \subseteq Own(h, c)
  BY DEF IInv, Shaped, Placed
<1>2. \A c \in Small : h.avail[c] \subseteq Block /\ h.avail[c] \cap Own(h, Large) = {}
  BY <1>1, Kinds, OwnType DEF Listed
<1>3. CASE pc = "presweep"
  BY <1>2, <1>3, BlocksAssumption DEF IInv, PhaseInv
<1>4. CASE pc = "final" /\ Head(todo) \in Finalizing
  <2>1. /\ Between(h, destroyed, Head(todo)) /\ at # None /\ at \in Own(h, Head(todo))
        /\ Head(todo) \in Small
    BY <1>4, FinalState, Kinds
  <2>2. at \in SmallBlocks(h)
    BY <2>1 DEF SmallBlocks
  <2>3. \E k \in 1..N : <<at, k>> \in destroyed
    BY <1>4, <2>1 DEF Between
  <2>4. ASSUME NEW c \in Small, at \in h.avail[c]
        PROVE  FALSE
    <3>1. c = Head(todo)
      BY <1>1, <2>1, <2>4, Kinds DEF Listed
    <3> QED
      BY <2>1, <2>4, <3>1 DEF Between
  <2> QED
    BY <2>2, <2>3, <2>4
<1>5. CASE pc = "final" /\ Head(todo) = Large
  <2>1. at = None \/ at \in Own(h, Large)
    BY <1>5, FinalState
  <2> QED
    BY <1>2, <2>1, BlocksAssumption
<1>6. pc = "final" => Head(todo) \in Finalizing \cup {Large}
  BY FinalState
<1> QED
  BY <1>3, <1>4, <1>5, <1>6

\* CoalesceQuickList at the end of AllocSlow keeps the place of the pass.
LEMMA CoalesceInPlace ==
  ASSUME IInv, Cautious = TRUE, pc \in {"presweep", "final"}, NEW a \in Small \cap Using,
         NEW F \in SUBSET Block, NEW x, Provided(a, F, x), Shaped(x, {at}),
         NEW b \in x.avail[a], NEW y, Filled(x, a, b, y),
         NEW i \in y.quick[a], NEW q, NEW z, Popped(y, a, i, q, z), Shaped(z, {at}),
         i \in Objects(z), destroyed \subseteq Objects(z),
         NEW g, NEW bs \in SUBSET Block, Coalesced(z, {a}, Merge(z, {a}), g, bs),
         MayCreate(g, a), MayCoalesce(g)
  PROVE  /\ InPlace(a, F, bs, g) /\ g.sweep = x.sweep
         /\ F # {} => ~(a \in h.passed /\ ToCome(a))
<1> DEFINE m == Merge(z, {a})
<1>1. /\ z \in AllocatorState /\ Listed(z) /\ Placed(z, {at}) /\ {a} \in SUBSET Small
      /\ x \in AllocatorState /\ a \in Allocs
  BY Kinds DEF Shaped
<1>2. /\ GivesBack(z, g, bs) /\ Merged(z, {a}, m)
      /\ g.sweep = z.sweep /\ \A c \in Small : g.avail[c] = m.avail[c] \ bs
      /\ \A e \in Block : g.free[e] = IF e \in bs THEN {} ELSE m.free[e]
  BY DEF Coalesced
<1>4. \A j \in Objects(z) : j[1] \notin bs
  BY <1>1, CoalesceObjects
<1> HIDE DEF m
<1>5. /\ Kept(x, y) /\ Kept(y, z) /\ y.quick[a] = {b} \X x.free[b]
      /\ \A c \in Small : y.avail[c] \subseteq x.avail[c]
      /\ \A e \in Block \ {b} : y.free[e] = x.free[e]
      /\ z.avail = y.avail /\ z.free = y.free /\ z.quick[a] = y.quick[a] \ {i}
  BY DEF Filled, Popped
<1>6. /\ z.list = x.list /\ z.sweep = x.sweep /\ z.passed = x.passed /\ z.empty = x.empty
      /\ \A c \in Allocs : Own(z, c) = Own(x, c)
  BY <1>5 DEF Kept, Own
<1>7. \A c \in Allocs :
        /\ Own(g, c) = Own(z, c) \ bs
        /\ \A u, v : Before(g.list[c], u, v) <=>
                       Before(z.list[c], u, v) /\ u \notin bs /\ v \notin bs
  BY <1>1, <1>2, GivesBackLists
<1>8. /\ Relisted(h, a, F, {}, x) /\ F \subseteq Block \ (AllBlocks(h) \cup {at, next})
      /\ F # {} => x.avail[a] = F
      /\ \A c \in Small : x.avail[c] \ F = h.avail[c] /\ x.sweep[c] = h.sweep[c]
      /\ \A e \in Block \ F : x.free[e] = h.free[e]
  BY DEF Provided
<1>9. Relisted(h, a, F, bs, g)
  <2>1. g.passed = h.passed /\ g.empty = h.empty
    BY <1>2, <1>6, <1>8 DEF GivesBack, Relisted
  <2>2. \A c \in Allocs :
          /\ Own(x, c) = (Own(h, c) \cup (IF c = a THEN F ELSE {}))
          /\ \A u, v : Before(x.list[c], u, v) <=>
               Before(h.list[c], u, v) \/ (c = a /\ u \in Own(h, c) /\ v \in F)
    BY <1>8 DEF Relisted
  <2> QED
    BY <1>6, <1>7, <2>1, <2>2 DEF Relisted
<1>10. /\ \A c \in Small : at \notin h.avail[c]
       /\ \/ at = None
          \/ at \in Own(h, Large)
          \/ at \in SmallBlocks(h) /\ \E k \in 1..N : <<at, k>> \in destroyed
  BY PlaceIs
<1>11. at \notin bs
  <2>1. CASE at = None
    BY <2>1, BlocksAssumption
  <2>2. CASE at \in Own(h, Large)
    <3>1. at \in Own(z, Large)
      BY <1>6, <1>8, <2>2, Kinds DEF Relisted
    <3>2. bs \subseteq SmallBlocks(z)
      BY <1>2 DEF GivesBack
    <3> QED
      BY <1>1, <3>1, <3>2, Kinds DEF SmallBlocks, Listed
  <2>3. CASE \E k \in 1..N : <<at, k>> \in destroyed
    <3>1. PICK k \in 1..N : <<at, k>> \in destroyed
      BY <2>3
    <3>2. <<at, k>> \in Objects(z)
      BY <3>1
    <3> QED
      BY <1>4, <3>2
  <2> QED
    BY <1>10, <2>1, <2>2, <2>3
<1>12. at # b
  BY <1>8, <1>10
<1>13. at # None => z.free[at] = h.free[at] /\ m.free[at] = z.free[at] /\ at \in Block
  <2> SUFFICES ASSUME at # None
               PROVE  z.free[at] = h.free[at] /\ m.free[at] = z.free[at] /\ at \in Block
    OBVIOUS
  <2>1. at \in Block
    BY DEF IInv, TypeOK
  <2>2. z.free[at] = h.free[at]
    BY <1>5, <1>8, <1>12, <2>1
  <2>3. \A k \in 1..N : <<at, k>> \notin Back(z, {a})
    BY <1>5, <1>12 DEF Back
  <2>4. m.free[at] = z.free[at] \cup {k \in 1..N : <<at, k>> \in Back(z, {a})}
    BY <1>2, <2>1 DEF Merged
  <2> QED
    BY <2>1, <2>2, <2>3, <2>4
<1>14. at # None => g.free[at] = h.free[at]
  BY <1>2, <1>11, <1>13
<1>15. ASSUME NEW c \in Small, at \in g.avail[c]
       PROVE  at \in h.avail[c]
  <2>1. m.avail[c] = z.avail[c] \cup
          {e \in Own(z, c) : c \in {a} /\ z.free[e] = {} /\ m.free[e] # {}}
    BY <1>2 DEF Merged
  <2>2. at \in m.avail[c]
    BY <1>2, <1>15
  <2>3. at # None
    <3>1. g \in AllocatorState
      BY <1>2 DEF GivesBack
    <3> QED
      BY <1>15, <3>1, Fields, BlocksAssumption
  <2>4. at \in z.avail[c]
    BY <1>13, <2>1, <2>2, <2>3
  <2> QED
    BY <1>5, <1>8, <2>4
<1>16. pc = "final" /\ Head(todo) \in Finalizing => next \notin bs
  <2> SUFFICES ASSUME pc = "final", Head(todo) \in Finalizing
               PROVE  next \notin bs
    OBVIOUS
  <2>1. next \in Own(g, Head(todo)) \cup {None} /\ Head(todo) \in Allocs
    BY Kinds DEF MayCoalesce
  <2> QED
    BY <1>7, <2>1, BlocksAssumption
<1>17. InPlace(a, F, bs, g)
  BY <1>8, <1>9, <1>11, <1>14, <1>15, <1>16 DEF InPlace
<1>18. ASSUME F # {}, a \in h.passed, ToCome(a)
       PROVE  FALSE
  <2>1. b \in F /\ b \notin AllBlocks(h)
    BY <1>8, <1>18
  <2>2. i[1] = b
    BY <1>5
  <2>3. b \notin bs
    BY <1>4, <2>2
  <2>4. b \in Own(g, a)
    BY <1>1, <1>9, <2>1, <2>3 DEF Relisted
  <2>5. Own(g, a) \subseteq Own(h, a)
    BY <1>18 DEF MayCreate
  <2> QED
    BY <1>1, <2>1, <2>4, <2>5 DEF AllBlocks
<1> QED
  BY <1>2, <1>6, <1>17, <1>18

LEMMA CoalesceKeeps ==
  ASSUME NEW g, NEW out, NEW c, NEW m, NEW V, NEW R, NEW D, Sound(g, out, c, m, V, R, D),
         NEW A \in SUBSET Small, NEW x \in Coalesce(g, A)
  PROVE  Sound(x, out, c, m, V, R, D) /\ Joined(g, {}, x)
<1>1. Shaped(g, out) /\ Tinted(g, c, m, V) /\ Sheltered(g, R, D, V)
  BY DEF Sound
<1>2. /\ Shaped(x, out) /\ Tinted(x, c, m, V) /\ Sheltered(x, R, D, V)
      /\ Objects(x) = Objects(g) /\ \A i \in Objects(g) : x.bits[i] = g.bits[i]
  BY <1>1, CoalesceSound
<1> QED
  BY <1>2 DEF Sound, Joined

LEMMA SlowCollectStep ==
  ASSUME IInv, Cautious = TRUE, pc \in {"presweep", "final"}, NEW a \in Small, AllocSlow(a)
  PROVE  IInv'
<1>1. /\ collecting = TRUE /\ Sound(h, {at}, TRUE, TRUE, ToVisit(h), held, destroyed)
      /\ Budgeted(h) /\ \A c \in Small : h.quick[c] = {}
  BY CollectState
<1>2. a \in Small \cap Using /\ UNCHANGED <<phase, pass>>
  BY DEF AllocSlow
<1>3. PICK x \in Provide(h, a) : \E b \in x.avail[a] : \E y \in FillQuickList(x, a, b) :
        \E i \in y.quick[a] : \E g \in Coalesce(Pop(y, a, i, NewBits(y, i)), {a}) :
          /\ MayCreate(g, a) /\ MayCoalesce(g)
          /\ Become(g, held \cup {i}, destroyed \ {i})
  BY <1>1 DEF AllocSlow
<1>4. PICK b \in x.avail[a] : \E y \in FillQuickList(x, a, b) : \E i \in y.quick[a] :
        \E g \in Coalesce(Pop(y, a, i, NewBits(y, i)), {a}) :
          /\ MayCreate(g, a) /\ MayCoalesce(g)
          /\ Become(g, held \cup {i}, destroyed \ {i})
  BY <1>3
<1>5. PICK y \in FillQuickList(x, a, b) : \E i \in y.quick[a] :
        \E g \in Coalesce(Pop(y, a, i, NewBits(y, i)), {a}) :
          /\ MayCreate(g, a) /\ MayCoalesce(g)
          /\ Become(g, held \cup {i}, destroyed \ {i})
  BY <1>4
<1>6. PICK i \in y.quick[a] : \E g \in Coalesce(Pop(y, a, i, NewBits(y, i)), {a}) :
          /\ MayCreate(g, a) /\ MayCoalesce(g)
          /\ Become(g, held \cup {i}, destroyed \ {i})
  BY <1>5
<1> DEFINE q == NewBits(y, i)
           z == Pop(y, a, i, q)
<1>7. PICK g \in Coalesce(z, {a}) : /\ MayCreate(g, a) /\ MayCoalesce(g)
                                    /\ Become(g, held \cup {i}, destroyed \ {i})
  BY <1>6
<1>8. PICK F \in SUBSET Block :
        /\ Provided(a, F, x) /\ Budgeted(x)
        /\ Sound(x, {at}, TRUE, TRUE, NowToVisit(a, F), held, destroyed)
  BY <1>2, ProvideCollecting
<1> DEFINE W == NowToVisit(a, F)
<1>9. /\ Shaped(x, {at}) /\ Tinted(x, TRUE, TRUE, W) /\ Sheltered(x, held, destroyed, W)
      /\ Joined(h, {}, x) /\ \A c \in Small : x.quick[c] = {}
  BY <1>1, <1>8 DEF Sound, Provided
<1> HIDE DEF W
<1>10. /\ Filled(x, a, b, y) /\ Accounted(y)
       /\ \A d \in Small : IF d = a THEN y.budget[d] >= 0 ELSE y.budget[d] > 0
  BY <1>8, <1>9, FillFields
<1>11. /\ Shaped(y, {at}) /\ Tinted(y, TRUE, TRUE, W) /\ Sheltered(y, held, destroyed, W)
       /\ Objects(y) = Objects(x)
  BY <1>8, <1>9, FillSound
<1>12. Tint(q, i, W)
  <2>1. y.quick[a] = {b} \X x.free[b] /\ Own(y, a) = Own(x, a) /\ a \in Allocs
    BY <1>10, KeptLists, Kinds DEF Filled
  <2>2. b \in Own(y, a)
    BY <1>9, <2>1 DEF Shaped, Placed
  <2>3. i[1] \in SmallBlocks(y)
    BY <2>1, <2>2 DEF SmallBlocks
  <2>4. y.seen[i[1]] <=> i[1] \notin W
    BY <1>11, <2>3 DEF Tinted
  <2> QED
    BY <1>1, <2>4 DEF NewBits, Tint
<1>13. q \in {"none", "mark"}
  BY <1>12 DEF Tint
<1> HIDE DEF q
<1>14. Popped(y, a, i, q, z) /\ Budgeted(z)
  BY <1>10, <1>11, <1>13, PopFields
<1> HIDE DEF z
<1>15. Sound(z, {at}, TRUE, TRUE, W, held \cup {i}, destroyed \ {i}) /\ Joined(y, {i}, z)
  <2>1. Sound(y, {at}, TRUE, TRUE, W, held, destroyed)
    BY <1>11 DEF Sound
  <2> QED
    BY <1>12, <1>14, <2>1, PopSound
<1>16. PICK bs \in SUBSET Block : Coalesced(z, {a}, Merge(z, {a}), g, bs)
  BY <1>15, CoalesceFields DEF Sound, Shaped
<1>17. /\ Shaped(z, {at}) /\ Tinted(z, TRUE, TRUE, W)
       /\ Sheltered(z, held \cup {i}, destroyed \ {i}, W)
       /\ Objects(z) = Objects(h) \cup {i} /\ i \notin Objects(h) /\ i \notin destroyed
       /\ destroyed \subseteq Objects(z)
       /\ \A j \in Objects(h) : z.bits[j] = h.bits[j]
  <2>1. /\ Objects(x) = Objects(h) /\ \A j \in Objects(h) : x.bits[j] = h.bits[j]
        /\ Objects(z) = Objects(y) \cup {i} /\ i \notin Objects(y)
        /\ \A j \in Objects(y) : z.bits[j] = y.bits[j]
    BY <1>9, <1>15 DEF Joined
  <2>2. y.bits = x.bits
    BY <1>10 DEF Filled
  <2>3. destroyed \subseteq Objects(h)
    BY <1>1 DEF Sound, Sheltered
  <2> QED
    BY <1>11, <1>15, <2>1, <2>2, <2>3 DEF Sound
<1>18. /\ Shaped(g, {at}) /\ Tinted(g, TRUE, TRUE, W)
       /\ Sheltered(g, held \cup {i}, destroyed \ {i}, W)
       /\ Objects(g) = Objects(z) /\ \A j \in Objects(z) : g.bits[j] = z.bits[j]
  <2>1. {a} \in SUBSET Small
    OBVIOUS
  <2>2. Sound(g, {at}, TRUE, TRUE, W, held \cup {i}, destroyed \ {i}) /\ Joined(z, {}, g)
    BY <1>15, <2>1, CoalesceKeeps
  <2> QED
    BY <2>2 DEF Sound, Joined
<1>19. Budgeted(g) /\ \A c \in Small : g.quick[c] = {}
  <2>1. \A c \in Small : c # a => z.quick[c] = {}
    BY <1>9, <1>10, <1>14 DEF Filled, Popped
  <2>2. z \in AllocatorState
    BY <1>17 DEF Shaped
  <2>3. /\ Budgeted(z) => Budgeted(g)
        /\ \A c \in Small : g.quick[c] = IF c \in {a} THEN {} ELSE z.quick[c]
    BY <2>2, CoalesceBudget
  <2> QED
    BY <1>14, <2>1, <2>3
<1>20. /\ InPlace(a, F, bs, g) /\ g.sweep = x.sweep
       /\ F # {} => ~(a \in h.passed /\ ToCome(a))
  BY <1>2, <1>7, <1>8, <1>9, <1>10, <1>14, <1>16, <1>17, CoalesceInPlace
<1>21. h' = g /\ held' = held \cup {i} /\ destroyed' = destroyed /\ destroyed \ {i} = destroyed
  BY <1>7, <1>17, <1>18 DEF Become
<1>22. InPlace(a, F, bs, h') /\ Relisted(h, a, F, bs, h')
  BY <1>20, <1>21 DEF InPlace
<1>23. g \in AllocatorState /\ AllBlocks(g) \subseteq Block /\ Listed(h')
  <2>1. g \in AllocatorState /\ Listed(g)
    BY <1>18 DEF Shaped
  <2> QED
    BY <1>21, <2>1, OwnType DEF AllBlocks
<1>24. Cursor(h, destroyed)'
  BY <1>2, <1>21, <1>22, <1>23, CursorKept
<1>25. h'.passed = h.passed /\ h'.empty = h.empty
  BY <1>22 DEF Relisted
<1>26. SweepOf(h) \subseteq SweepOf(h')
  BY <1>8, <1>20, <1>21 DEF Provided, SweepOf
<1>27. \A e \in AllBlocks(h') : e \in W <=> e \in ToVisit(h)'
  <2> TAKE e \in AllBlocks(h')
  <2>1. ToVisit(h) \subseteq AllBlocks(h)
    BY DEF ToVisit, Ahead, AllBlocks
  <2>2. CASE e \in AllBlocks(h)
    <3>1. e \notin F
      BY <1>22, <2>2 DEF InPlace
    <3>2. e \in W <=> e \in ToVisit(h)
      BY <3>1 DEF W, NowToVisit
    <3>3. e \in ToVisit(h) <=> e \in ToVisit(h)'
      BY <1>2, <1>22, <2>2, OldToVisit
    <3> QED
      BY <3>2, <3>3
  <2>3. CASE e \notin AllBlocks(h)
    <3>1. e \in F \ bs
      BY <1>22, <2>3 DEF Relisted, AllBlocks
    <3>2. e \in W <=> a \notin h.passed
      BY <2>1, <2>3, <3>1 DEF W, NowToVisit
    <3>3. e \in ToVisit(h)' <=> a \notin h.passed
      BY <1>2, <1>20, <1>22, <1>23, <3>1, NewToVisit
    <3> QED
      BY <3>2, <3>3
  <2> QED
    BY <2>2, <2>3
<1>28. \A e \in AllBlocks(h') : e \in ToVisit(h) => e \in W
  BY DEF W, NowToVisit
<1>29. Sound(h', {at}, TRUE, TRUE, W, held', destroyed')
  BY <1>18, <1>21 DEF Sound
<1>30. \A j \in Objects(h) : j \in Objects(h') /\ h'.bits[j] = h.bits[j]
  BY <1>17, <1>18, <1>21
<1> QED
  BY <1>2, <1>19, <1>21, <1>24, <1>25, <1>26, <1>27, <1>28, <1>29, <1>30, CollectStep

\* During a collection nothing is freed.
LEMMA AbortStep ==
  ASSUME IInv, pc \in {"presweep", "final"}, UNCHANGED <<phase, pass>>,
         NEW i \in Objects(h), Become(AbortFree(h, i), held \ {i}, destroyed \cup {i})
  PROVE  IInv'
<1>1. /\ Sound(h, {at}, TRUE, TRUE, ToVisit(h), held, destroyed)
      /\ Budgeted(h) /\ \A c \in Small : h.quick[c] = {}
  BY CollectState
<1> DEFINE V == ToVisit(h)
           x == AbortFree(h, i)
<1>2. /\ Shaped(h, {at}) /\ Tinted(h, TRUE, TRUE, V) /\ Sheltered(h, held, destroyed, V)
  BY <1>1 DEF Sound
<1> HIDE DEF V
<1>3. /\ Kept(h, x) /\ x.free = h.free /\ x.avail = h.avail /\ x.quick = h.quick
      /\ x.bits = h.bits /\ Objects(x) = Objects(h)
      /\ Shaped(x, {at}) /\ Tinted(x, TRUE, TRUE, V)
      /\ Sheltered(x, held \ {i}, (destroyed \cup {i}) \cap Objects(x), V)
      /\ Budgeted(h) => Budgeted(x)
  BY <1>2, AbortSound
<1> HIDE DEF x
<1>4. /\ h' = x /\ held' = held \ {i} /\ destroyed' = (destroyed \cup {i}) \cap Objects(x)
  BY DEF Become, x
<1>5. destroyed \subseteq destroyed'
  BY <1>2, <1>3, <1>4 DEF Sheltered
<1>6. /\ \A c : Relisted(h, c, {}, {}, x)
      /\ AllBlocks(x) = AllBlocks(h) /\ SweepOf(x) = SweepOf(h)
  BY <1>3, KeptLists
<1>7. InPlace(Large, {}, {}, h')
  BY <1>3, <1>4, <1>6 DEF InPlace
<1>8. AllBlocks(h') \subseteq Block
  <2>1. x \in AllocatorState
    BY <1>3 DEF Shaped
  <2> QED
    BY <1>4, <2>1, OwnType DEF AllBlocks
<1>9. Cursor(h, destroyed)'
  BY <1>5, <1>7, <1>8, CursorKept
<1>10. \A b \in AllBlocks(h') : b \in V <=> b \in ToVisit(h)'
  BY <1>4, <1>6, <1>7, OldToVisit DEF V
<1>11. Sound(h', {at}, TRUE, TRUE, V, held', destroyed')
  BY <1>3, <1>4 DEF Sound
<1>12. h'.empty = h.empty /\ h'.passed = h.passed
  BY <1>3, <1>4 DEF Kept
<1> QED
  BY <1>1, <1>3, <1>4, <1>6, <1>9, <1>10, <1>11, <1>12, CollectStep DEF V

LEMMA FreeCollectStep ==
  ASSUME IInv, pc \in {"presweep", "final"}, FreeLarge \/ \E a \in Small : FreeSmall(a)
  PROVE  IInv'
<1>1. collecting = TRUE /\ marking = TRUE
  BY CollectState
<1>2. \A i : MustAbort(i)
  BY <1>1 DEF MustAbort
<1>3. UNCHANGED <<phase, pass>>
  BY DEF FreeLarge, FreeSmall
<1>4. PICK i \in Deletable : Become(AbortFree(h, i), held \ {i}, destroyed \cup {i})
  <2>1. CASE FreeLarge
    <3>1. PICK i \in Deletable :
            Become(IF MustAbort(i) THEN AbortFree(h, i)
                   ELSE FreeChunks(Unlink(h, {i[1]}), {i[1]}), held \ {i}, destroyed \cup {i})
      BY <2>1 DEF FreeLarge
    <3> QED
      BY <1>2, <3>1
  <2>2. CASE \E a \in Small : FreeSmall(a)
    <3>1. PICK a \in Small : FreeSmall(a)
      BY <2>2
    <3>2. PICK i \in Deletable :
            \E g \in IF MustAbort(i) THEN {AbortFree(h, i)} ELSE FreeItem(h, a, i) :
              Become(g, held \ {i}, destroyed \cup {i})
      BY <3>1 DEF FreeSmall
    <3> QED
      BY <1>2, <3>2
  <2> QED
    BY <2>1, <2>2
<1>5. i \in Objects(h)
  BY DEF Deletable
<1> QED
  BY <1>3, <1>4, <1>5, AbortStep

\* What GCLargeAlloc::Alloc changes.
LargeAdded(g, b, q, x) ==
  /\ x \in AllocatorState
  /\ \A c \in Small : x.list[c] = g.list[c]
  /\ x.list[Large] = <<b>> \o g.list[Large]
  /\ x.avail = g.avail /\ x.sweep = g.sweep /\ x.quick = g.quick
  /\ x.budget = g.budget /\ x.obtained = g.obtained
  /\ x.free = g.free /\ x.seen = g.seen /\ x.passed = g.passed /\ x.empty = g.empty
  /\ \A i \in Item : x.bits[i] = IF i = <<b, 1>> THEN q ELSE g.bits[i]
  /\ x.fin \subseteq g.fin \cup {<<b, 1>>}

LEMMA LargeFields ==
  ASSUME NEW g \in AllocatorState, NEW b \in Block, NEW q \in {"none", "mark"},
         NEW F, F \subseteq g.fin \cup {<<b, 1>>},
         NEW x, x = [g EXCEPT !.list[Large] = <<b>> \o @, !.bits[<<b, 1>>] = q, !.fin = F]
  PROVE  LargeAdded(g, b, q, x)
<1> DEFINE list == [g.list EXCEPT ![Large] = <<b>> \o @]
           bits == [g.bits EXCEPT ![<<b, 1>>] = q]
<1>1. x = [g EXCEPT !.list = list, !.bits = bits, !.fin = F]
  BY Zenon DEF AllocatorState
<1>2. /\ list \in [Allocs -> Seq(Block)] /\ list[Large] = <<b>> \o g.list[Large]
      /\ \A c \in Small : list[c] = g.list[c]
  <2>1. g.list \in [Allocs -> Seq(Block)] /\ g.list[Large] \in Seq(Block)
    BY Fields, Kinds
  <2>2. <<b>> \o g.list[Large] \in Seq(Block)
    BY <2>1
  <2> QED
    BY <2>1, <2>2, Kinds
<1>3. /\ bits \in [Item -> {"none", "mark", "queued", "free"}]
      /\ \A i \in Item : bits[i] = IF i = <<b, 1>> THEN q ELSE g.bits[i]
  BY Fields, ItemOf
<1>4. F \in SUBSET Item
  BY Fields, ItemOf
<1> HIDE DEF list, bits
<1>5. /\ x.list = list /\ x.bits = bits /\ x.fin = F
      /\ x.avail = g.avail /\ x.sweep = g.sweep /\ x.quick = g.quick
      /\ x.budget = g.budget /\ x.obtained = g.obtained
      /\ x.free = g.free /\ x.seen = g.seen /\ x.passed = g.passed /\ x.empty = g.empty
      /\ x \in AllocatorState
  BY <1>1, <1>2, <1>3, <1>4 DEF AllocatorState
<1> QED
  BY <1>2, <1>3, <1>5 DEF LargeAdded

\* A new large object is marked if it is to be visited.
Owes(q, b, V, W) == (q = "mark" /\ W = V \cup {b}) \/ (q = "none" /\ W = V)

LEMMA LargeLists ==
  ASSUME NEW g \in AllocatorState, Listed(g), NEW b \in Block, b \notin AllBlocks(g) \cup g.empty,
         NEW q, NEW x, LargeAdded(g, b, q, x)
  PROVE  /\ Own(x, Large) = Own(g, Large) \cup {b} /\ \A c \in Small : Own(x, c) = Own(g, c)
         /\ \A y, z : Before(x.list[Large], y, z) <=>
                        Before(g.list[Large], y, z) \/ (z \in Own(g, Large) /\ y = b)
         /\ SmallBlocks(x) = SmallBlocks(g) /\ AllBlocks(x) = AllBlocks(g) \cup {b}
         /\ SweepOf(x) = SweepOf(g) /\ Listed(x)
<1>1. /\ x \in AllocatorState /\ \A c \in Small : x.list[c] = g.list[c]
      /\ x.list[Large] = <<b>> \o g.list[Large] /\ x.sweep = g.sweep /\ x.empty = g.empty
  BY DEF LargeAdded
<1>2. /\ g.list[Large] \in Seq(Block) /\ IsInjective(g.list[Large]) /\ b \notin Range(g.list[Large])
  BY OwnType, Kinds DEF Listed, AllBlocks, Own
<1>3. /\ Own(x, Large) = Own(g, Large) \cup {b} /\ IsInjective(x.list[Large])
      /\ \A y, z : Before(x.list[Large], y, z) <=>
                     Before(g.list[Large], y, z) \/ (z \in Own(g, Large) /\ y = b)
  BY <1>1, <1>2, PrependOrder DEF Own
<1>4. \A c \in Small : Own(x, c) = Own(g, c)
  BY <1>1 DEF Own
<1>5. SmallBlocks(x) = SmallBlocks(g) /\ AllBlocks(x) = AllBlocks(g) \cup {b}
  BY <1>3, <1>4, Kinds DEF SmallBlocks, AllBlocks
<1>6. SweepOf(x) = SweepOf(g)
  BY <1>1 DEF SweepOf
<1>7. Listed(x)
  <2>1. \A c \in Allocs : Own(x, c) = Own(g, c) \cup (IF c = Large THEN {b} ELSE {})
    BY <1>3, <1>4, Kinds
  <2>2. \A c \in Allocs : b \notin Own(g, c)
    BY DEF AllBlocks
  <2>3. \A c, d \in Allocs : c # d => Own(x, c) \cap Own(x, d) = {}
    BY <2>1, <2>2 DEF Listed
  <2>4. \A c \in Allocs : IsInjective(x.list[c])
    BY <1>1, <1>3, Kinds DEF Listed
  <2>5. \A c \in Allocs : Own(x, c) \cap x.empty = {}
    BY <1>1, <2>1 DEF Listed
  <2> QED
    BY <2>3, <2>4, <2>5 DEF Listed
<1> QED
  BY <1>3, <1>4, <1>5, <1>6, <1>7

LEMMA LargeSound ==
  ASSUME NEW g, NEW out, NEW c, NEW m, NEW V, NEW R, NEW D, Sound(g, out, c, m, V, R, D),
         NEW b \in Block, b \notin AllBlocks(g) \cup g.empty \cup V, Large \in Using,
         NEW q, NEW x, LargeAdded(g, b, q, x), NEW W, Owes(q, b, V, W)
  PROVE  Sound(x, out, c, m, W, R \cup {<<b, 1>>}, D) /\ Joined(g, {<<b, 1>>}, x)
<1>1. /\ Shaped(g, out) /\ Tinted(g, c, m, V) /\ Sheltered(g, R, D, V)
      /\ g \in AllocatorState /\ Listed(g) /\ Placed(g, out) /\ Owned(g)
  BY DEF Sound, Shaped
<1>2. /\ x \in AllocatorState /\ x.avail = g.avail /\ x.sweep = g.sweep /\ x.quick = g.quick
      /\ x.free = g.free /\ x.seen = g.seen /\ x.empty = g.empty
      /\ \A i \in Item : x.bits[i] = IF i = <<b, 1>> THEN q ELSE g.bits[i]
      /\ x.fin \subseteq g.fin \cup {<<b, 1>>}
  BY DEF LargeAdded
<1>3. /\ Own(x, Large) = Own(g, Large) \cup {b} /\ \A d \in Small : Own(x, d) = Own(g, d)
      /\ SmallBlocks(x) = SmallBlocks(g) /\ SweepOf(x) = SweepOf(g) /\ Listed(x)
  BY <1>1, LargeLists
<1>4. b \notin SmallBlocks(g) /\ b \notin Own(g, Large) /\ b \notin SweepOf(g)
  <2>1. \A d \in Small : g.sweep[d] \subseteq Own(g, d)
    BY <1>1 DEF Placed
  <2> QED
    BY <2>1, Kinds DEF AllBlocks, SmallBlocks, SweepOf
<1>5. <<b, 1>> \in Item /\ <<b, 1>>[1] = b /\ <<b, 1>>[2] = 1
  BY ItemOf
<1>6. q \in {"none", "mark"}
  BY DEF Owes
<1>7. <<b, 1>> \notin Objects(g)
  BY <1>1, <1>4, <1>5, ObjectsOf
<1>8. Objects(x) = Objects(g) \cup {<<b, 1>>}
  <2>1. \A i \in Item : i[1] = b /\ i[2] = 1 => i = <<b, 1>>
    BY ItemOf
  <2>2. \A i \in Item : i \in Objects(x) <=> i \in Objects(g) \cup {<<b, 1>>}
    BY <1>1, <1>2, <1>3, <1>4, <1>5, <1>6, <2>1, ObjectsOf
  <2> QED
    BY <1>1, <1>2, <1>5, <2>2, ObjectsOf
<1>9. \A i \in Objects(g) : x.bits[i] = g.bits[i]
  BY <1>1, <1>2, <1>7, ObjectsOf
<1>10. Owned(x)
  <2>1. \A i \in Item : x.bits[i] \in {"mark", "queued"} => i \in Objects(x)
    BY <1>1, <1>2, <1>8 DEF Owned
  <2>2. \A e \in Block : x.seen[e] => e \in SmallBlocks(x) \cup x.empty
    BY <1>1, <1>2, <1>3 DEF Owned
  <2>3. ASSUME NEW e \in Own(x, Large)
        PROVE  x.bits[<<e, 1>>] # "free"
    <3>1. CASE e = b
      BY <1>2, <1>5, <1>6, <3>1
    <3>2. CASE e # b
      <4>1. e \in Own(g, Large) /\ <<e, 1>> \in Item /\ <<e, 1>> # <<b, 1>>
        BY <1>1, <1>3, <3>2, OwnType, Kinds, ItemOf
      <4> QED
        BY <1>1, <1>2, <4>1 DEF Owned
    <3> QED
      BY <3>1, <3>2
  <2>4. \A d \in Allocs \ Using : Own(x, d) = {}
    BY <1>1, <1>3, Kinds DEF Owned
  <2> QED
    BY <2>1, <2>2, <2>3, <2>4 DEF Owned
<1>11. Placed(x, out)
  <2>1. ASSUME NEW d \in Small, NEW e \in Own(x, d), NEW k \in 1..N
        PROVE  /\ ~(<<e, k>> \in x.quick[d] /\ k \in x.free[e])
               /\ x.bits[<<e, k>>] = "free" <=> <<e, k>> \in x.quick[d] \/ k \in x.free[e]
    <3>1. e \in Own(g, d) /\ e \in Block /\ <<e, k>> \in Item /\ e # b
      BY <1>1, <1>3, <1>4, OwnType, Kinds, ItemOf DEF SmallBlocks
    <3>2. x.bits[<<e, k>>] = g.bits[<<e, k>>]
      BY <1>2, <3>1
    <3> QED
      BY <1>1, <1>2, <3>1, <3>2 DEF Placed
  <2> QED
    BY <1>1, <1>2, <1>3, <2>1 DEF Placed
<1>12. Tinted(x, c, m, W)
  <2>1. \A e \in SmallBlocks(x) : x.seen[e] <=> c /\ e \notin W
    BY <1>1, <1>2, <1>3, <1>4 DEF Tinted, Owes
  <2>2. \A i \in Item : x.bits[i] = "mark" => i[1] \in W \cup SweepOf(x)
    BY <1>1, <1>2, <1>3, <1>5 DEF Tinted, Owes
  <2>3. W \cap SweepOf(x) = {}
    BY <1>1, <1>3, <1>4 DEF Tinted, Owes
  <2> QED
    BY <1>1, <1>2, <1>3, <1>6, <2>1, <2>2, <2>3 DEF Tinted
<1>13. Sheltered(x, R \cup {<<b, 1>>}, D, W)
  <2>1. /\ R \subseteq Objects(g) \ D /\ D \subseteq Objects(g) /\ D \cap g.fin = {}
        /\ \A i \in R : i[1] \in V \cup SweepOf(g) => g.bits[i] = "mark"
    BY <1>1 DEF Sheltered
  <2>2. R \cup {<<b, 1>>} \subseteq Objects(x) \ D
    BY <1>7, <1>8, <2>1
  <2>3. \A i \in R : i[1] # b
    <3>1. \A i \in Objects(g) : i[1] # b
      BY <1>1, <1>4, ObjectsOf
    <3> QED
      BY <2>1, <3>1
  <2>4. \A i \in R : i[1] \in W \cup SweepOf(x) => x.bits[i] = "mark"
    BY <1>3, <1>9, <2>1, <2>3 DEF Owes
  <2>5. b \in W \cup SweepOf(x) => x.bits[<<b, 1>>] = "mark"
    BY <1>2, <1>3, <1>4, <1>5 DEF Owes
  <2>6. D \subseteq Objects(x) /\ D \cap x.fin = {}
    BY <1>2, <1>7, <1>8, <2>1
  <2> QED
    BY <1>5, <2>2, <2>4, <2>5, <2>6 DEF Sheltered
<1> QED
  BY <1>2, <1>3, <1>7, <1>8, <1>9, <1>10, <1>11, <1>12, <1>13 DEF Sound, Shaped, Joined

LEMMA AllocLargeIs ==
  ASSUME IInv, AllocLarge
  PROVE  /\ Large \in Using /\ MayAllocLarge /\ UNCHANGED <<phase, pass>>
         /\ \E b \in Block :
              /\ b \notin AllBlocks(h) \cup h.empty \cup {at, next}
              /\ LargeAdded(h, b, IF collecting /\ Large \notin h.passed THEN "mark" ELSE "none", h')
              /\ held' = held \cup {<<b, 1>>} /\ destroyed' = destroyed \cap Objects(h')
<1> DEFINE q == IF collecting /\ Large \notin h.passed THEN "mark" ELSE "none"
           x(b, F) == [h EXCEPT !.list[Large] = <<b>> \o @, !.bits[<<b, 1>>] = q, !.fin = F]
<1>1. PICK b \in Spare(h), finalizable \in BOOLEAN :
        Become([h EXCEPT !.list[Large] = <<b>> \o @,
                  !.bits[<<b, 1>>] = IF collecting /\ Large \notin h.passed THEN "mark" ELSE "none",
                  !.fin = IF finalizable THEN @ \cup {<<b, 1>>} ELSE @],
               held \cup {<<b, 1>>}, destroyed)
  BY DEF AllocLarge
<1> DEFINE F == IF finalizable THEN h.fin \cup {<<b, 1>>} ELSE h.fin
<1>2. b \in Block /\ b \notin AllBlocks(h) \cup h.empty \cup {at, next}
  <2>1. b \in Block /\ b \notin SmallBlocks(h) \cup Own(h, Large) \cup h.empty \cup ({at, next} \ {None})
    BY DEF Spare, InUse
  <2>2. b # None
    BY <2>1, BlocksAssumption
  <2> QED
    BY <2>1, <2>2, Kinds DEF AllBlocks, SmallBlocks
<1>3. h \in AllocatorState
  BY DEF IInv, Shaped
<1>4. h' = x(b, F) /\ held' = held \cup {<<b, 1>>} /\ destroyed' = destroyed \cap Objects(h')
  BY <1>1, Zenon DEF Become
<1>5. q \in {"none", "mark"} /\ F \subseteq h.fin \cup {<<b, 1>>}
  OBVIOUS
<1>6. LargeAdded(h, b, q, h')
  <2> DEFINE y == x(b, F)
  <2>1. y = [h EXCEPT !.list[Large] = <<b>> \o @, !.bits[<<b, 1>>] = q, !.fin = F]
    OBVIOUS
  <2> HIDE DEF q, F, y
  <2>2. LargeAdded(h, b, q, y)
    BY <1>2, <1>3, <1>5, <2>1, LargeFields
  <2> QED
    BY <1>4, <2>2 DEF y
<1> QED
  BY <1>2, <1>4, <1>6 DEF AllocLarge

LEMMA LargeRunStep ==
  ASSUME IInv, pc = "run", AllocLarge
  PROVE  IInv'
<1>1. /\ collecting = FALSE /\ h.empty = {} /\ h.passed \subseteq {Float}
      /\ Sound(h, {None}, FALSE, marking, {}, held, destroyed) /\ Budgeted(h)
  BY RunState DEF Sound
<1>2. Large \in Using /\ UNCHANGED <<phase, pass>>
  BY AllocLargeIs
<1>3. PICK b \in Block :
        /\ b \notin AllBlocks(h) \cup h.empty
        /\ LargeAdded(h, b, "none", h')
        /\ held' = held \cup {<<b, 1>>} /\ destroyed' = destroyed \cap Objects(h')
  BY <1>1, AllocLargeIs
<1> DEFINE V == {}
           q == "none"
<1>4. Owes(q, b, V, V)
  BY DEF Owes
<1>5. /\ Sound(h, {None}, FALSE, marking, V, held, destroyed)
      /\ b \notin AllBlocks(h) \cup h.empty \cup V /\ LargeAdded(h, b, q, h')
  BY <1>1, <1>3
<1> HIDE DEF V, q
<1>6. Sound(h', {None}, FALSE, marking, V, held \cup {<<b, 1>>}, destroyed)
  BY <1>2, <1>4, <1>5, LargeSound
<1>7. /\ Shaped(h', {None}) /\ Tinted(h', FALSE, marking', {})
      /\ Sheltered(h', held', destroyed, {})
  BY <1>2, <1>3, <1>6 DEF Sound, V, phase
<1>8. destroyed' = destroyed
  BY <1>3, <1>7 DEF Sheltered
<1>9. Budgeted(h') /\ h'.empty = {} /\ h'.passed \subseteq {Float}
  BY <1>1, <1>3 DEF LargeAdded, Budgeted, Accounted
<1>10. /\ pc' = pc /\ UNCHANGED <<collecting, instance, closing, pass>> /\ marking' \in BOOLEAN
  BY <1>2 DEF phase, IInv, TypeOK
<1> QED
  BY <1>7, <1>8, <1>9, <1>10, RunStep

\* The large objects come last.
LEMMA LargeLast ==
  ASSUME IInv, Large \in Using, todo # <<>>
  PROVE  Large \in Range(todo)
<1>1. instance \in Instances /\ todo \in Remainders(instance.order)
  BY DEF IInv, TypeOK
<1> DEFINE s == instance.order
<1>2. s \in Seq(Allocs) /\ \A k \in 1..Len(s) : s[k] = Large => k = Len(s)
  BY <1>1, BlocksAssumption
<1>3. PICK k \in 1..Len(s) + 1 : todo = SubSeq(s, k, Len(s))
  BY <1>1 DEF Remainders
<1>4. PICK j \in 1..Len(s) : s[j] = Large
  BY <1>2, RangeOf DEF Using
<1> HIDE DEF s
<1>5. todo \in Seq(Allocs) /\ Len(todo) = Len(s) + 1 - k /\ Len(todo) \in Nat \ {0}
  <2>1. todo \in Seq(Allocs)
    BY Todo
  <2> QED
    BY <1>2, <1>3, <2>1
<1>6. todo[Len(todo)] = s[Len(s)]
  BY <1>2, <1>3, <1>5
<1>7. s[Len(s)] = Large
  BY <1>2, <1>4
<1> QED
  BY <1>5, <1>6, <1>7, RangeOf

\* The lists after the allocation of a large object during a collection.
LEMMA LargeToVisit ==
  ASSUME IInv, Cautious = TRUE, pc \in {"presweep", "final"}, AllocLarge,
         NEW b \in Block, b \notin AllBlocks(h) \cup h.empty \cup {at, next},
         NEW q, LargeAdded(h, b, q, h')
  PROVE  /\ b \in ToVisit(h)' <=> Large \notin h.passed
         /\ \A e \in AllBlocks(h) : e \in ToVisit(h) <=> e \in ToVisit(h)'
         /\ destroyed' = destroyed => Cursor(h, destroyed)'
<1>1. Large \in Using /\ MayAllocLarge /\ UNCHANGED <<phase, pass>>
  BY AllocLargeIs
<1>2. /\ pc' = pc /\ todo' = todo /\ at' = at /\ next' = next /\ instance' = instance
      /\ putOnFreeList' = putOnFreeList
  BY <1>1 DEF phase, pass
<1>3. h \in AllocatorState /\ Listed(h) /\ Cursor(h, destroyed)
  BY CollectState DEF Sound, Shaped
<1>4. /\ Own(h', Large) = Own(h, Large) \cup {b} /\ \A c \in Small : Own(h', c) = Own(h, c)
      /\ \A y, z : Before(h'.list[Large], y, z) <=>
                     Before(h.list[Large], y, z) \/ (z \in Own(h, Large) /\ y = b)
      /\ AllBlocks(h') = AllBlocks(h) \cup {b} /\ Listed(h')
  BY <1>3, LargeLists
<1>5. \A c \in Small : h'.list[c] = h.list[c] /\ h'.avail[c] = h.avail[c]
  BY DEF LargeAdded
<1>6. h'.free = h.free /\ h'.passed = h.passed /\ h'.empty = h.empty
  BY DEF LargeAdded
<1>7. b # at /\ b # next /\ \A c \in Allocs : b \notin Own(h, c)
  BY DEF AllBlocks
<1>8. \A e \in Own(h, Large) : e \in Ahead(h, Large) <=> e \in Ahead(h, Large)'
  <2>1. \A e : e \in Own(h, Large) => (Before(h'.list[Large], at, e) <=> Before(h.list[Large], at, e))
    BY <1>4, <1>7
  <2> QED
    BY <1>2, <1>4, <2>1 DEF Ahead, Own, Before
<1>9. \A c \in Small : \A e \in Own(h, c) : e \in Ahead(h, c) <=> e \in Ahead(h, c)'
  BY <1>2, <1>4, <1>5 DEF Ahead, Own, Before
<1>10. \A c \in Allocs : \A e \in Own(h, c) : e \in Ahead(h, c) <=> e \in Ahead(h, c)'
  BY <1>8, <1>9, Kinds
<1>11. \A e \in AllBlocks(h) : e \in ToVisit(h) <=> e \in ToVisit(h)'
  <2>1. ASSUME NEW c \in Allocs, NEW e \in AllBlocks(h), e \in Ahead(h, c)'
        PROVE  e \in Own(h, c)
    <3>1. e \in Own(h', c)
      BY <2>1 DEF Ahead, Own
    <3> QED
      BY <1>4, <1>7, <2>1, <3>1, Kinds DEF AllBlocks
  <2>2. \A c \in Allocs : \A e \in Ahead(h, c) : e \in Own(h, c)
    BY DEF Ahead
  <2> QED
    BY <1>10, <2>1, <2>2 DEF ToVisit
<1>12. b \in ToVisit(h)' <=> b \in Ahead(h, Large)'
  <2>1. \A c \in Allocs : b \in Ahead(h, c)' => b \in Own(h', c)
    BY DEF Ahead, Own
  <2>2. \A c \in Small : b \notin Own(h', c)
    BY <1>4, <1>7, Kinds
  <2> QED
    BY <2>1, <2>2, Kinds DEF ToVisit
<1>13. CASE pc = "presweep"
  <2>1. Large \notin h.passed /\ todo = <<>>
    BY <1>13, BlocksAssumption DEF IInv, PhaseInv
  <2>2. b \in Ahead(h, Large)'
    BY <1>2, <1>4, <1>13 DEF Ahead, Own
  <2>3. Cursor(h, destroyed)'
    BY <1>2, <1>13, <2>1 DEF Cursor
  <2> QED
    BY <1>11, <1>12, <2>1, <2>2, <2>3
<1>14. CASE pc = "final"
  <2>1. /\ todo # <<>> /\ Head(todo) \in Finalizing \cup {Large}
        /\ Using \subseteq h.passed \cup Range(todo) \cup {Large}
        /\ \A c \in Range(Tail(todo)) : c \in h.passed => c = Float
        /\ Head(todo) \in Finalizing =>
             Between(h, destroyed, Head(todo)) /\ Head(todo) \in Small /\ Head(todo) # Large
        /\ Head(todo) = Large =>
             /\ Large \in h.passed /\ (at = None \/ at \in Own(h, Large))
             /\ next \in Block \ (AllBlocks(h) \cup h.empty)
    BY <1>3, <1>14, FinalState, Kinds DEF Cursor
  <2>2. /\ Large \in Range(todo) /\ Range(todo) = {Head(todo)} \cup Range(Tail(todo))
        /\ Head(todo) \notin Range(Tail(todo))
    BY <1>1, <2>1, LargeLast, Todo
  <2>3. Large \in Range(Tail(todo)) <=> Large \notin h.passed
    BY <2>1, <2>2, BlocksAssumption
  <2>4. Large = Head(todo) => at # None
    BY <1>1, <1>14 DEF MayAllocLarge
  <2>5. at # None => ~Before(h'.list[Large], at, b)
    <3>1. h.list[Large] \in Seq(Block) /\ IsInjective(h.list[Large])
      BY <1>3, OwnType, Kinds DEF Listed
    <3>2. ~Before(h.list[Large], at, b)
      BY <1>7, <3>1, Ordered, Kinds DEF Own
    <3> QED
      BY <1>4, <1>7, <3>2, Kinds
  <2>6. b \in Ahead(h, Large)' <=> Large \in Range(Tail(todo))
    BY <1>2, <1>4, <1>7, <1>14, <2>1, <2>4, <2>5 DEF Ahead, Own, Before
  <2>7. ASSUME destroyed' = destroyed
        PROVE  Cursor(h, destroyed)'
    <3>1. CASE Head(todo) \in Finalizing
      <4> DEFINE d == Head(todo)
      <4>1. Between(h, destroyed, d) /\ d \in Small
        BY <2>1, <3>1
      <4> HIDE DEF d
      <4>2. h'.list[d] = h.list[d] /\ h'.avail[d] = h.avail[d] /\ Own(h', d) = Own(h, d)
        BY <1>4, <1>5, <4>1
      <4>3. at # None => /\ at \in Own(h', d) \ h'.avail[d]
                         /\ putOnFreeList <=> h'.free[at] # {}
        BY <1>6, <4>1, <4>2 DEF Between
      <4>4. next # None =>
              /\ Before(h'.list[d], at, next)
              /\ \A e \in Own(h', d) :
                   Before(h'.list[d], at, e) => e = next \/ Before(h'.list[d], next, e)
        BY <4>1, <4>2 DEF Between
      <4>5. (at # None <=> d \in h.passed) /\ (at = None => next = None)
        BY <4>1 DEF Between
      <4>6. pc = "final" => \E k \in 1..N : <<at, k>> \in destroyed
        BY <4>1 DEF Between
      <4>7. Between(h, destroyed, d)'
        BY <1>2, <1>6, <2>7, <4>3, <4>4, <4>5, <4>6 DEF Between, Own, Before, d
      <4> QED
        BY <1>2, <1>6, <2>1, <3>1, <4>7, Kinds DEF Cursor, Using, d
    <3>2. CASE Head(todo) = Large
      BY <1>2, <1>4, <1>6, <1>7, <1>14, <2>1, <3>2, Kinds DEF Cursor, Using, AllBlocks, Own
    <3> QED
      BY <2>1, <3>1, <3>2
  <2> QED
    BY <1>11, <1>12, <2>3, <2>6, <2>7
<1> QED
  BY <1>13, <1>14

LEMMA LargeCollectStep ==
  ASSUME IInv, Cautious = TRUE, pc \in {"presweep", "final"}, AllocLarge
  PROVE  IInv'
<1>1. /\ collecting = TRUE /\ marking = TRUE /\ Budgeted(h) /\ \A c \in Small : h.quick[c] = {}
      /\ Sound(h, {at}, TRUE, TRUE, ToVisit(h), held, destroyed)
  BY CollectState
<1>2. Large \in Using /\ UNCHANGED <<phase, pass>>
  BY AllocLargeIs
<1> DEFINE q == IF Large \notin h.passed THEN "mark" ELSE "none"
           V == ToVisit(h)
<1>3. PICK b \in Block :
        /\ b \notin AllBlocks(h) \cup h.empty \cup {at, next}
        /\ LargeAdded(h, b, q, h')
        /\ held' = held \cup {<<b, 1>>} /\ destroyed' = destroyed \cap Objects(h')
  BY <1>1, AllocLargeIs
<1> DEFINE W == IF Large \notin h.passed THEN V \cup {b} ELSE V
<1>4. Owes(q, b, V, W)
  BY DEF Owes
<1>5. V \subseteq AllBlocks(h)
  BY DEF ToVisit, Ahead, AllBlocks
<1>6. Sound(h, {at}, TRUE, TRUE, V, held, destroyed) /\ LargeAdded(h, b, q, h')
  BY <1>1, <1>3
<1>7. /\ b \in ToVisit(h)' <=> Large \notin h.passed
      /\ \A e \in AllBlocks(h) : e \in V <=> e \in ToVisit(h)'
      /\ destroyed' = destroyed => Cursor(h, destroyed)'
  BY <1>3, LargeToVisit
<1>8. /\ V \subseteq W /\ \A e \in AllBlocks(h) : e \in V <=> e \in W
      /\ b \in W <=> Large \notin h.passed
  BY <1>3, <1>5
<1> HIDE DEF q, V, W
<1>9. /\ Sound(h', {at}, TRUE, TRUE, W, held \cup {<<b, 1>>}, destroyed)
      /\ Joined(h, {<<b, 1>>}, h')
  BY <1>2, <1>3, <1>4, <1>5, <1>6, LargeSound
<1>10. destroyed' = destroyed
  BY <1>3, <1>9 DEF Sound, Sheltered
<1>11. /\ AllBlocks(h') = AllBlocks(h) \cup {b} /\ SweepOf(h') = SweepOf(h)
  <2>1. h \in AllocatorState /\ Listed(h)
    BY <1>1 DEF Sound, Shaped
  <2> QED
    BY <1>3, <2>1, LargeLists
<1>12. /\ Budgeted(h') /\ h'.empty = h.empty /\ h'.passed = h.passed
       /\ \A c \in Small : h'.quick[c] = {}
  BY <1>1, <1>3 DEF LargeAdded, Budgeted, Accounted
<1>13. \A i \in Objects(h) : i \in Objects(h') /\ h'.bits[i] = h.bits[i]
  BY <1>9 DEF Joined
<1>14. /\ \A e \in AllBlocks(h') : e \in ToVisit(h) => e \in W
       /\ \A e \in AllBlocks(h') : e \in W <=> e \in ToVisit(h)'
  BY <1>7, <1>8, <1>11 DEF V
<1>15. Sound(h', {at}, TRUE, TRUE, W, held', destroyed') /\ Cursor(h, destroyed)'
  BY <1>3, <1>7, <1>9, <1>10
<1>16. SweepOf(h) \subseteq SweepOf(h')
  BY <1>11
<1> QED
  BY <1>2, <1>12, <1>13, <1>14, <1>15, <1>16, CollectStep

-----------------------------------------------------------------------------
(* Blocks leave the lists.                                                 *)

\* x is g without the blocks bs, where nothing is marked, listed as a free
\* item or waiting to be swept.
Taken(g, bs, x) ==
  /\ x \in AllocatorState /\ bs \in SUBSET Block
  /\ \A a \in Allocs : x.list[a] = Without(g.list[a], bs)
  /\ \A a \in Small : /\ x.avail[a] = g.avail[a] \ bs
                      /\ \A i \in g.quick[a] : i[1] \notin bs
  /\ x.sweep = g.sweep /\ x.quick = g.quick /\ bs \cap SweepOf(g) = {}
  /\ x.budget = g.budget /\ x.obtained = g.obtained
  /\ \A e \in Block \ bs : x.free[e] = g.free[e] /\ x.seen[e] = g.seen[e]
  /\ \A e \in bs : x.seen[e] => e \in x.empty
  /\ \A i \in Item : IF i[1] \in bs THEN x.bits[i] \notin {"mark", "queued"}
                     ELSE x.bits[i] = g.bits[i]
  /\ x.fin \subseteq g.fin
  /\ g.empty \subseteq x.empty /\ x.empty \cap AllBlocks(g) \subseteq bs

LEMMA TakenLists ==
  ASSUME NEW g \in AllocatorState, Listed(g), NEW bs, NEW x, Taken(g, bs, x)
  PROVE  /\ \A a \in Allocs :
              /\ Own(x, a) = Own(g, a) \ bs
              /\ \A y, z : Before(x.list[a], y, z) <=>
                             Before(g.list[a], y, z) /\ y \notin bs /\ z \notin bs
         /\ SmallBlocks(x) = SmallBlocks(g) \ bs /\ AllBlocks(x) = AllBlocks(g) \ bs
         /\ SweepOf(x) = SweepOf(g)
         /\ Listed(x)
<1>1. /\ x \in AllocatorState /\ \A a \in Allocs : x.list[a] = Without(g.list[a], bs)
      /\ x.sweep = g.sweep /\ x.empty \cap AllBlocks(g) \subseteq bs
  BY DEF Taken
<1>2. ASSUME NEW a \in Allocs
      PROVE  /\ Own(x, a) = Own(g, a) \ bs /\ IsInjective(x.list[a])
             /\ \A y, z : Before(x.list[a], y, z) <=>
                            Before(g.list[a], y, z) /\ y \notin bs /\ z \notin bs
  <2>1. g.list[a] \in Seq(Block) /\ IsInjective(g.list[a])
    BY OwnType DEF Listed
  <2> QED
    BY <1>1, <2>1, WithoutOrder DEF Own
<1>3. SmallBlocks(x) = SmallBlocks(g) \ bs /\ AllBlocks(x) = AllBlocks(g) \ bs
  BY <1>2, Kinds DEF SmallBlocks, AllBlocks
<1>4. SweepOf(x) = SweepOf(g)
  BY <1>1 DEF SweepOf
<1>5. Listed(x)
  <2>1. \A a \in Allocs : Own(x, a) \cap x.empty = {}
    BY <1>1, <1>2 DEF AllBlocks
  <2> QED
    BY <1>2, <2>1 DEF Listed
<1> QED
  BY <1>2, <1>3, <1>4, <1>5

\* The references K are those of R that stay when the blocks bs go.
Spared(R, bs, K) == K \subseteq R /\ \A i \in K : i[1] \notin bs

\* The objects of x are those of g outside the blocks bs.
Rest(g, bs, x) ==
  /\ \A i \in Objects(g) : i[1] \notin bs => i \in Objects(x) /\ x.bits[i] = g.bits[i]
  /\ \A i \in Objects(x) : i \in Objects(g) /\ i[1] \notin bs

LEMMA TakenSound ==
  ASSUME NEW g, NEW out, NEW c, NEW m, NEW V, NEW R, NEW D, Sound(g, out, c, m, V, R, D),
         NEW bs, NEW x, Taken(g, bs, x), NEW K, Spared(R, bs, K)
  PROVE  /\ Sound(x, out, c, m, V, K, D \cap Objects(x))
         /\ Budgeted(g) => Budgeted(x)
         /\ Rest(g, bs, x)
<1>1. /\ Shaped(g, out) /\ Tinted(g, c, m, V) /\ Sheltered(g, R, D, V)
      /\ g \in AllocatorState /\ Listed(g) /\ Placed(g, out) /\ Owned(g)
  BY DEF Sound, Shaped
<1>2. /\ x \in AllocatorState /\ bs \in SUBSET Block
      /\ \A a \in Small : /\ x.avail[a] = g.avail[a] \ bs
                          /\ \A i \in g.quick[a] : i[1] \notin bs
      /\ x.sweep = g.sweep /\ x.quick = g.quick /\ bs \cap SweepOf(g) = {}
      /\ \A e \in Block \ bs : x.free[e] = g.free[e] /\ x.seen[e] = g.seen[e]
      /\ \A e \in bs : x.seen[e] => e \in x.empty
      /\ \A i \in Item : IF i[1] \in bs THEN x.bits[i] \notin {"mark", "queued"}
                         ELSE x.bits[i] = g.bits[i]
      /\ x.fin \subseteq g.fin /\ g.empty \subseteq x.empty
  BY DEF Taken
<1>3. /\ \A a \in Allocs : Own(x, a) = Own(g, a) \ bs
      /\ SmallBlocks(x) = SmallBlocks(g) \ bs /\ SweepOf(x) = SweepOf(g) /\ Listed(x)
  BY <1>1, TakenLists
<1>4. \A i \in Item : i \in Objects(x) <=> i \in Objects(g) /\ i[1] \notin bs
  BY <1>1, <1>2, <1>3, Kinds, ObjectsOf
<1>5. Objects(x) \subseteq Item /\ Objects(g) \subseteq Item
  BY <1>1, <1>2, ObjectsOf
<1>6. Owned(x)
  <2>1. \A i \in Item : x.bits[i] \in {"mark", "queued"} => i \in Objects(x)
    BY <1>1, <1>2, <1>4 DEF Owned
  <2>2. \A e \in Block : x.seen[e] => e \in SmallBlocks(x) \cup x.empty
    BY <1>1, <1>2, <1>3 DEF Owned
  <2>3. ASSUME NEW e \in Own(x, Large)
        PROVE  x.bits[<<e, 1>>] # "free"
    <3>1. e \in Own(g, Large) /\ e \notin bs /\ <<e, 1>> \in Item /\ <<e, 1>>[1] = e
      BY <1>1, <1>3, OwnType, Kinds, ItemOf
    <3> QED
      BY <1>1, <1>2, <3>1 DEF Owned
  <2>4. \A d \in Allocs \ Using : Own(x, d) = {}
    BY <1>1, <1>3 DEF Owned
  <2> QED
    BY <2>1, <2>2, <2>3, <2>4 DEF Owned
<1>7. \A d \in Small : Own(x, d) = Own(g, d) \ bs
  BY <1>3, Kinds
<1>8. Placed(x, out)
  <2>1. ASSUME NEW d \in Small, NEW e \in Own(x, d), NEW k \in 1..N
        PROVE  /\ ~(<<e, k>> \in x.quick[d] /\ k \in x.free[e])
               /\ x.bits[<<e, k>>] = "free" <=> <<e, k>> \in x.quick[d] \/ k \in x.free[e]
    <3>1. e \in Own(g, d) /\ e \in Block \ bs /\ <<e, k>> \in Item /\ <<e, k>>[1] = e
      BY <1>1, <1>7, OwnType, Kinds, ItemOf
    <3> QED
      BY <1>1, <1>2, <3>1 DEF Placed
  <2>2. ASSUME NEW d \in Small
        PROVE  /\ x.avail[d] \cap x.sweep[d] = {}
               /\ x.avail[d] \cup x.sweep[d] \subseteq Own(x, d)
               /\ x.quick[d] \subseteq (Own(x, d) \ x.sweep[d]) \X (1..N)
               /\ \A b \in x.avail[d] : x.free[b] # {}
               /\ \A b \in Own(x, d) : x.free[b] = {} \/ b \in x.avail[d] \cup x.sweep[d] \cup out
    <3>1. /\ g.avail[d] \cap g.sweep[d] = {}
          /\ g.avail[d] \cup g.sweep[d] \subseteq Own(g, d)
          /\ g.quick[d] \subseteq (Own(g, d) \ g.sweep[d]) \X (1..N)
          /\ \A b \in g.avail[d] : g.free[b] # {}
          /\ \A b \in Own(g, d) : g.free[b] = {} \/ b \in g.avail[d] \cup g.sweep[d] \cup out
      BY <1>1 DEF Placed
    <3>2. Own(g, d) \subseteq Block
      BY <1>1, OwnType, Kinds
    <3>3. x.avail[d] \cup x.sweep[d] \subseteq Own(x, d)
      BY <1>2, <1>7, <3>1 DEF SweepOf
    <3>4. x.quick[d] \subseteq (Own(x, d) \ x.sweep[d]) \X (1..N)
      BY <1>2, <1>7, <3>1
    <3> QED
      BY <1>2, <1>7, <3>1, <3>2, <3>3, <3>4
  <2> QED
    BY <2>1, <2>2 DEF Placed
<1>9. Tinted(x, c, m, V)
  <2>1. \A e \in SmallBlocks(x) : x.seen[e] <=> c /\ e \notin V
    <3>1. SmallBlocks(x) \subseteq Block \ bs
      BY <1>1, <1>3, OwnType, Kinds DEF SmallBlocks
    <3> QED
      BY <1>1, <1>2, <1>3, <3>1 DEF Tinted
  <2> QED
    BY <1>1, <1>2, <1>3, <2>1 DEF Tinted
<1>10. Sheltered(x, K, D \cap Objects(x), V)
  <2>1. /\ R \subseteq Objects(g) \ D /\ D \cap g.fin = {}
        /\ \A i \in R : i[1] \in V \cup SweepOf(g) => g.bits[i] = "mark"
    BY <1>1 DEF Sheltered
  <2>2. K \subseteq Objects(x)
    BY <1>4, <1>5, <2>1 DEF Spared
  <2>3. \A i \in K : x.bits[i] = g.bits[i] /\ i \in R
    BY <1>2, <1>5, <2>2 DEF Spared
  <2> QED
    BY <1>2, <1>3, <2>1, <2>2, <2>3 DEF Sheltered
<1>11. Budgeted(g) => Budgeted(x)
  BY DEF Taken, Budgeted, Accounted
<1>12. \A i \in Objects(g) : i[1] \notin bs => i \in Objects(x) /\ x.bits[i] = g.bits[i]
  BY <1>2, <1>4, <1>5
<1> QED
  BY <1>2, <1>3, <1>4, <1>5, <1>6, <1>8, <1>9, <1>10, <1>11, <1>12 DEF Sound, Shaped, Rest

\* A block with a large object has neither free items nor marks elsewhere.
LEMMA LargeAlone ==
  ASSUME NEW g, NEW out, NEW c, NEW m, NEW V, NEW R, NEW D, Sound(g, out, c, m, V, R, D),
         NEW b \in Own(g, Large)
  PROVE  /\ b \in Block /\ <<b, 1>> \in Objects(g) /\ \A i \in Objects(g) : i[1] = b => i = <<b, 1>>
         /\ b \notin SmallBlocks(g) /\ b \notin SweepOf(g) /\ ~g.seen[b] /\ b \notin g.empty
         /\ \A a \in Small : b \notin g.avail[a] /\ \A i \in g.quick[a] : i[1] # b
         /\ \A i \in Item : i[1] = b /\ i # <<b, 1>> => g.bits[i] \notin {"mark", "queued"}
<1>1. g \in AllocatorState /\ Listed(g) /\ Placed(g, out) /\ Owned(g)
  BY DEF Sound, Shaped
<1>2. b \in Block
  BY <1>1, OwnType, Kinds
<1>3. b \notin SmallBlocks(g) /\ b \notin g.empty
  BY <1>1, Kinds DEF Listed, SmallBlocks
<1>4. \A a \in Small : b \notin Own(g, a)
  BY <1>3 DEF SmallBlocks
<1>5. /\ \A a \in Small : b \notin g.avail[a] /\ \A i \in g.quick[a] : i[1] # b
      /\ b \notin SweepOf(g)
  BY <1>1, <1>4 DEF Placed, SweepOf
<1>6. /\ <<b, 1>> \in Item /\ <<b, 1>>[1] = b /\ <<b, 1>>[2] = 1
      /\ \A i \in Item : i[1] = b /\ i[2] = 1 => i = <<b, 1>>
  BY <1>2, ItemOf
<1>7. <<b, 1>> \in Objects(g) /\ \A i \in Objects(g) : i[1] = b => i = <<b, 1>>
  BY <1>1, <1>3, <1>6, ObjectsOf
<1> QED
  BY <1>1, <1>2, <1>3, <1>5, <1>7 DEF Owned

LEMMA FreeLargeRunStep ==
  ASSUME IInv, pc = "run", FreeLarge
  PROVE  IInv'
<1>1. /\ pc' = pc /\ UNCHANGED <<collecting, instance, closing, pass>> /\ marking' = marking
      /\ marking \in BOOLEAN
  BY DEF FreeLarge, phase, IInv, TypeOK
<1>2. PICK i \in Deletable : /\ i[1] \in Own(h, Large)
        /\ Become(IF MustAbort(i) THEN AbortFree(h, i)
                  ELSE FreeChunks(Unlink(h, {i[1]}), {i[1]}), held \ {i}, destroyed \cup {i})
  BY DEF FreeLarge
<1>3. i \in held /\ i \in Objects(h)
  BY DEF Deletable
<1>4. /\ h.empty = {} /\ h.passed \subseteq {Float} /\ Shaped(h, {None}) /\ Budgeted(h)
      /\ Tinted(h, FALSE, marking, {}) /\ Sheltered(h, held, destroyed, {})
      /\ collecting = FALSE
  BY RunState
<1>5. CASE MustAbort(i)
  <2> DEFINE x == AbortFree(h, i)
  <2>1. h' = x /\ held' = held \ {i} /\ destroyed' = (destroyed \cup {i}) \cap Objects(x)
    BY <1>2, <1>5 DEF Become
  <2> HIDE DEF x
  <2>2. /\ Shaped(x, {None}) /\ Tinted(x, FALSE, marking, {}) /\ Budgeted(x) /\ Kept(h, x)
        /\ Sheltered(x, held \ {i}, (destroyed \cup {i}) \cap Objects(x), {})
    BY <1>3, <1>4, AbortSound DEF x
  <2>3. x.empty = {} /\ x.passed \subseteq {Float}
    BY <1>4, <2>2 DEF Kept
  <2> QED
    BY <1>1, <1>4, <2>1, <2>2, <2>3, RunStep
<1>6. CASE ~MustAbort(i)
  <2> DEFINE b == i[1]
             bs == {b}
             u == Unlink(h, bs)
             x == FreeChunks(u, bs)
             V == {}
             K == held \ {i}
  <2>1. h' = x /\ held' = K /\ destroyed' = (destroyed \cup {i}) \cap Objects(x)
    BY <1>2, <1>6 DEF Become
  <2>2. h \in AllocatorState /\ b \in Own(h, Large)
    BY <1>2, <1>4 DEF Shaped
  <2> HIDE DEF V
  <2>3. Sound(h, {None}, FALSE, marking, V, held, destroyed)
    BY <1>4 DEF Sound, V
  <2> HIDE DEF b
  <2>4. /\ b \in Block /\ <<b, 1>> \in Objects(h)
        /\ \A j \in Objects(h) : j[1] = b => j = <<b, 1>>
        /\ b \notin SweepOf(h) /\ ~h.seen[b]
        /\ \A c \in Small : b \notin h.avail[c] /\ \A j \in h.quick[c] : j[1] # b
    BY <2>2, <2>3, LargeAlone
  <2> HIDE DEF bs
  <2>5. /\ u \in AllocatorState /\ u.list = [c \in Allocs |-> Without(h.list[c], bs)]
        /\ u.avail = [c \in Small |-> h.avail[c] \ bs]
        /\ u.sweep = h.sweep /\ u.quick = h.quick
        /\ u.budget = h.budget /\ u.obtained = h.obtained
        /\ u.free = h.free /\ u.bits = h.bits /\ u.fin = h.fin /\ u.seen = h.seen
        /\ u.passed = h.passed /\ u.empty = h.empty
    BY <2>2, UnlinkFields
  <2> HIDE DEF u
  <2>6. /\ x.list = u.list /\ x.avail = u.avail /\ x.sweep = u.sweep /\ x.quick = u.quick
        /\ x.budget = u.budget /\ x.obtained = u.obtained
        /\ x.free = [e \in Block |-> IF e \in bs THEN {} ELSE u.free[e]]
        /\ x.bits = [j \in Item |-> IF j[1] \in bs THEN "none" ELSE u.bits[j]]
        /\ x.fin = {j \in u.fin : j[1] \notin bs}
        /\ x.seen = [e \in Block |-> e \notin bs /\ u.seen[e]]
        /\ x.passed = u.passed /\ x.empty = u.empty
        /\ x \in AllocatorState
    BY <2>5, FreeChunksFields
  <2> HIDE DEF x
  <2>7. Taken(h, bs, x)
    <3>1. /\ \A c \in Allocs : x.list[c] = Without(h.list[c], bs)
          /\ \A c \in Small : x.avail[c] = h.avail[c] \ bs
      BY <2>5, <2>6
    <3>2. \A e \in Block \ bs : x.free[e] = h.free[e] /\ x.seen[e] = h.seen[e]
      <4>1. h.seen \in [Block -> BOOLEAN]
        BY <2>2, Fields
      <4> QED
        BY <2>5, <2>6, <4>1
    <3>3. \A j \in Item : x.bits[j] = IF j[1] \in bs THEN "none" ELSE h.bits[j]
      BY <2>5, <2>6
    <3>4. \A e \in bs : ~x.seen[e]
      BY <2>4, <2>6 DEF bs
    <3>5. x.fin \subseteq h.fin /\ x.empty = h.empty /\ x.sweep = h.sweep /\ x.quick = h.quick
          /\ x.budget = h.budget /\ x.obtained = h.obtained
      BY <2>5, <2>6
    <3>6. bs \in SUBSET Block /\ bs \cap SweepOf(h) = {} /\ \A c \in Small : \A j \in h.quick[c] : j[1] \notin bs
      BY <2>4 DEF bs
    <3> QED
      BY <1>4, <2>6, <3>1, <3>2, <3>3, <3>4, <3>5, <3>6 DEF Taken
  <2>8. i = <<b, 1>>
    BY <1>3, <2>4 DEF b
  <2>9. Spared(held, bs, K)
    <3>1. held \subseteq Objects(h)
      BY <1>4 DEF Sheltered
    <3> QED
      BY <2>4, <2>8, <3>1 DEF bs, Spared
  <2> HIDE DEF K
  <2>10. /\ Sound(x, {None}, FALSE, marking, V, K, destroyed \cap Objects(x)) /\ Budgeted(x)
         /\ Rest(h, bs, x)
    BY <1>4, <2>3, <2>7, <2>9, TakenSound
  <2>11. destroyed' = destroyed \cap Objects(x)
    <3>1. i \notin Objects(x)
      BY <2>8, <2>10 DEF bs, Rest
    <3> QED
      BY <2>1, <3>1
  <2>12. /\ Shaped(x, {None}) /\ Tinted(x, FALSE, marking, {})
         /\ Sheltered(x, K, destroyed \cap Objects(x), {})
    BY <2>10 DEF Sound, V
  <2>13. x.empty = {} /\ x.passed \subseteq {Float}
    BY <1>4, <2>5, <2>6
  <2> QED
    BY <1>1, <2>1, <2>10, <2>11, <2>12, <2>13, RunStep
<1> QED
  BY <1>5, <1>6

-----------------------------------------------------------------------------
(* The collection begins.                                                  *)

\* Steps of the collector once it has begun.
LEMMA PassStep ==
  ASSUME IInv, pc' \in {"presweep", "pass", "final"}, instance' = instance,
         collecting' = TRUE, marking' = TRUE, closing' \in BOOLEAN,
         todo' \in Remainders(instance.order), {at', next'} \subseteq Block \cup {None},
         putOnFreeList' \in BOOLEAN, doomed' \in SUBSET Item,
         todo' = <<>> => at' = None /\ next' = None,
         pc' = "presweep" => todo' = <<>> /\ doomed' = {} /\ h'.empty = {} /\ h'.passed \subseteq {Float},
         pc' = "final" => todo' # <<>> /\ Head(todo') \in Finalizing \cup {Large},
         NEW W, Sound(h', {at'}, TRUE, TRUE, W, held', destroyed'), Budgeted(h'),
         \A a \in Small : h'.quick[a] = {},
         \A b \in AllBlocks(h') : b \in W <=> b \in ToVisit(h)',
         Cursor(h, destroyed)', Found(h)'
  PROVE  IInv'
<1>1. Shaped(h', {at'}) /\ Tinted(h', TRUE, TRUE, W) /\ Sheltered(h', held', destroyed', W)
  BY DEF Sound
<1>2. h' \in AllocatorState /\ held' \in SUBSET Item /\ destroyed' \in SUBSET Item
  BY <1>1, HeldItems DEF Shaped
<1>3. instance \in Instances
  BY DEF IInv, TypeOK
<1>4. TypeOK'
  BY <1>2, <1>3 DEF TypeOK
<1>5. PhaseInv'
  BY DEF PhaseInv
<1> QED
  BY <1>1, <1>4, <1>5, Assemble

\* All blocks are to be visited; what the program refers to is marked.
LEMMA Opened ==
  ASSUME NEW g, NEW out, NEW m, NEW R, NEW D, NEW V, V = {},
         Sound(g, out, FALSE, m, V, R, D), SweepOf(g) = {},
         NEW x, Rebitted(g, x), \A i \in Item : x.bits[i] # "queued",
         NEW K \in SUBSET R, \A i \in K : x.bits[i] = "mark"
  PROVE  Sound(x, out, TRUE, TRUE, AllBlocks(x), K, D)
<1>1. /\ Shaped(g, out) /\ Tinted(g, FALSE, m, {}) /\ Sheltered(g, R, D, {})
      /\ g \in AllocatorState
  BY DEF Sound, Shaped
<1>2. /\ Shaped(x, out) /\ Objects(x) = Objects(g)
      /\ SmallBlocks(x) = SmallBlocks(g) /\ SweepOf(x) = {}
  BY <1>1, RebitSound
<1>3. x.seen = g.seen /\ x.fin \subseteq g.fin /\ x \in AllocatorState
  BY DEF Rebitted, Kept
<1>4. Tinted(x, TRUE, TRUE, AllBlocks(x))
  <2>1. \A e \in SmallBlocks(x) : ~x.seen[e] /\ e \in AllBlocks(x)
    BY <1>1, <1>2, <1>3, Kinds DEF Tinted, SmallBlocks, AllBlocks
  <2>2. ASSUME NEW i \in Item, x.bits[i] = "mark"
        PROVE  i[1] \in AllBlocks(x)
    <3>1. i \in Objects(x)
      BY <1>2, <2>2 DEF Shaped, Owned
    <3> QED
      BY <1>3, <3>1, ObjectsOf, Kinds DEF AllBlocks, SmallBlocks
  <2> QED
    BY <1>2, <2>1, <2>2 DEF Tinted
<1>5. Sheltered(x, K, D, AllBlocks(x))
  BY <1>1, <1>2, <1>3 DEF Sheltered
<1> QED
  BY <1>2, <1>4, <1>5 DEF Sound

\* EstablishSweepInvariants of all allocators.
LEMMA CoalesceAll ==
  ASSUME NEW g, NEW out, Shaped(g, out), NEW x \in Coalesce(g, Small \cap Using)
  PROVE  /\ SweepOf(x) = SweepOf(g) /\ x.empty = g.empty /\ x.passed = g.passed
         /\ \A a \in Small : x.quick[a] = {}
         /\ Budgeted(g) => Budgeted(x)
<1> DEFINE A == Small \cap Using
<1>1. g \in AllocatorState /\ Placed(g, out) /\ Owned(g) /\ A \in SUBSET Small
  BY DEF Shaped
<1>2. x \in Coalesce(g, A)
  OBVIOUS
<1> HIDE DEF A
<1>3. PICK bs \in SUBSET Block : Coalesced(g, A, Merge(g, A), x, bs)
  BY <1>1, <1>2, CoalesceFields
<1>4. x.sweep = g.sweep /\ x.empty = g.empty /\ x.passed = g.passed
  BY <1>3 DEF Coalesced, GivesBack
<1>5. /\ Budgeted(g) => Budgeted(x)
      /\ \A a \in Small : x.quick[a] = IF a \in A THEN {} ELSE g.quick[a]
  BY <1>1, <1>2, CoalesceBudget
<1>6. ASSUME NEW a \in Small
      PROVE  x.quick[a] = {}
  <2>1. a \notin A => g.quick[a] = {}
    BY <1>1, SmallFinal DEF A
  <2> QED
    BY <1>5, <2>1
<1> QED
  BY <1>4, <1>5, <1>6 DEF SweepOf

\* The beginning of a sweep: the program runs callbacks before the pass.
LEMMA PresweepStep ==
  ASSUME IInv, pc = "run", pc' = "presweep", UNCHANGED <<instance, pass>>,
         collecting' = TRUE, marking' = TRUE, closing' \in BOOLEAN,
         Sound(h', {None}, TRUE, TRUE, AllBlocks(h'), held', destroyed'), Budgeted(h'),
         h'.empty = {}, h'.passed \subseteq {Float}, \A a \in Small : h'.quick[a] = {}
  PROVE  IInv'
<1>1. at = None /\ next = None /\ todo = <<>> /\ doomed = {}
  BY RunState
<1>2. at' = None /\ next' = None /\ todo' = <<>> /\ doomed' = {} /\ putOnFreeList' = putOnFreeList
  BY <1>1 DEF pass
<1>3. /\ putOnFreeList \in BOOLEAN /\ todo \in Remainders(instance.order)
  BY DEF IInv, TypeOK
<1>4. \A b \in AllBlocks(h') : b \in AllBlocks(h') <=> b \in ToVisit(h)'
  BY <1>2 DEF AllBlocks, ToVisit, Ahead, Own
<1>5. Cursor(h, destroyed)' /\ Found(h)'
  BY <1>2 DEF Cursor, Found
<1>6. Sound(h', {at'}, TRUE, TRUE, AllBlocks(h'), held', destroyed')
  BY <1>2
<1> DEFINE W == AllBlocks(h')
<1>7. /\ Sound(h', {at'}, TRUE, TRUE, W, held', destroyed')
      /\ \A b \in AllBlocks(h') : b \in W <=> b \in ToVisit(h)'
  BY <1>4, <1>6
<1> HIDE DEF W
<1>8. /\ {at', next'} \subseteq Block \cup {None} /\ todo' \in Remainders(instance.order)
      /\ doomed' \in SUBSET Item /\ pc' # "final"
  BY <1>1, <1>2, <1>3
<1> QED
  BY <1>2, <1>3, <1>5, <1>7, <1>8, PassStep

LEMMA BeginSweepStep ==
  ASSUME IInv, BeginSweep
  PROVE  IInv'
<1>1. PICK g \in Coalesce(h, Small \cap Using) :
        Become([g EXCEPT !.bits = [i \in Item |->
                  IF i \in Objects(g) /\ (i \in held \/ @[i] = "queued") THEN "mark" ELSE @[i]]],
               held, destroyed)
  BY DEF BeginSweep
<1>2. pc = "run" /\ marking = TRUE /\ marking' = TRUE
  BY DEF BeginSweep, IInv, TypeOK
<1> DEFINE A == Small \cap Using
           V == {}
<1>3. /\ h.empty = {} /\ h.passed \subseteq {Float} /\ Budgeted(h) /\ Shaped(h, {None})
      /\ Sound(h, {None}, FALSE, TRUE, V, held, destroyed) /\ SweepOf(h) = {}
  BY <1>2, RunState DEF Sound, Tinted
<1>4. /\ SweepOf(g) = {} /\ g.empty = {} /\ g.passed \subseteq {Float}
      /\ \A a \in Small : g.quick[a] = {}
      /\ Budgeted(g)
  BY <1>3, CoalesceAll
<1>5. Sound(g, {None}, FALSE, TRUE, V, held, destroyed)
  <2>1. A \in SUBSET Small /\ g \in Coalesce(h, A)
    OBVIOUS
  <2> HIDE DEF A, V
  <2> QED
    BY <1>3, <2>1, CoalesceKeeps
<1>6. /\ Shaped(g, {None}) /\ Tinted(g, FALSE, TRUE, {}) /\ Sheltered(g, held, destroyed, {})
      /\ g \in AllocatorState /\ Owned(g)
  BY <1>5 DEF Sound, Shaped
<1> DEFINE bits == [i \in Item |->
             IF i \in Objects(g) /\ (i \in held \/ g.bits[i] = "queued") THEN "mark" ELSE g.bits[i]]
           x == [g EXCEPT !.bits = bits]
<1>7. h' = x /\ held' = held /\ destroyed' = destroyed \cap Objects(x)
  BY <1>1, Zenon DEF Become
<1>8. \A i \in Item : bits[i] = IF i \in Objects(g) /\ (i \in held \/ g.bits[i] = "queued")
                               THEN "mark" ELSE g.bits[i]
  OBVIOUS
<1>9. bits \in [Item -> {"none", "mark", "queued", "free"}]
  BY <1>6, Fields
<1> HIDE DEF bits
<1>10. /\ x \in AllocatorState /\ x.bits = bits /\ x.list = g.list /\ x.avail = g.avail
       /\ x.sweep = g.sweep /\ x.quick = g.quick /\ x.budget = g.budget
       /\ x.obtained = g.obtained /\ x.free = g.free /\ x.fin = g.fin /\ x.seen = g.seen
       /\ x.passed = g.passed /\ x.empty = g.empty
  BY <1>6, <1>9 DEF AllocatorState
<1> HIDE DEF x
<1>11. \A i \in Objects(g) : i \in Item /\ g.bits[i] # "free"
  <2>1. ASSUME NEW i \in Objects(g), i[1] \in Own(g, Large), i[2] = 1
        PROVE  g.bits[i] # "free"
    <3>1. i \in Item /\ i = <<i[1], 1>>
      BY <1>6, <2>1, ObjectsOf, ItemOf
    <3> QED
      BY <1>6, <2>1, <3>1 DEF Owned
  <2> QED
    BY <1>6, <2>1, ObjectsOf
<1>12. Rebitted(g, x)
  <2>1. \A i \in Item : x.bits[i] = "free" <=> g.bits[i] = "free"
    BY <1>8, <1>10, <1>11
  <2>2. \A i \in Item : x.bits[i] \in {"mark", "queued"} => i \in Objects(g)
    BY <1>6, <1>8, <1>10 DEF Owned
  <2> QED
    BY <1>10, <2>1, <2>2 DEF Rebitted, Kept
<1>13. \A i \in Item : x.bits[i] # "queued"
  BY <1>6, <1>8, <1>10 DEF Owned
<1>14. held \in SUBSET held /\ \A i \in held : x.bits[i] = "mark"
  BY <1>6, <1>8, <1>10, <1>11 DEF Sheltered
<1>15. Sound(x, {None}, TRUE, TRUE, AllBlocks(x), held, destroyed)
  <2>1. V = {}
    OBVIOUS
  <2> HIDE DEF V
  <2> QED
    BY <1>4, <1>5, <1>12, <1>13, <1>14, <2>1, Opened
<1>16. destroyed' = destroyed
  BY <1>7, <1>15 DEF Sound, Sheltered
<1>17. Budgeted(x) /\ x.empty = {} /\ x.passed \subseteq {Float} /\ \A a \in Small : x.quick[a] = {}
  BY <1>4, <1>10 DEF Budgeted, Accounted
<1>18. /\ UNCHANGED <<instance, pass>> /\ collecting' = TRUE /\ pc' = "presweep"
       /\ closing' \in BOOLEAN
  BY DEF BeginSweep, IInv, TypeOK
<1> QED
  BY <1>2, <1>7, <1>15, <1>16, <1>17, <1>18, PresweepStep

LEMMA ForceSweepStep ==
  ASSUME IInv, ForceSweepAtShutdown
  PROVE  IInv'
<1>20. PICK x \in ClearMarks(h) :
         \E g \in Coalesce(x, Small \cap Using) : Become(g, {}, destroyed)
  BY DEF ForceSweepAtShutdown
<1>1. PICK g \in Coalesce(x, Small \cap Using) : Become(g, {}, destroyed)
  BY <1>20
<1>2. pc = "run"
  BY DEF ForceSweepAtShutdown
<1> DEFINE A == Small \cap Using
           V == {}
<1>3. /\ h.empty = {} /\ h.passed \subseteq {Float} /\ Budgeted(h) /\ Shaped(h, {None})
      /\ Tinted(h, FALSE, marking, {}) /\ Sheltered(h, held, destroyed, {})
  BY <1>2, RunState
<1>4. PICK y \in SweepNeedsSweeping(h) :
        x = [y EXCEPT !.bits =
               [i \in Item |-> IF @[i] \in {"mark", "queued"} THEN "none" ELSE @[i]]]
  BY DEF ClearMarks
<1>5. /\ Shaped(y, {None}) /\ Tinted(y, FALSE, marking, {})
      /\ Sheltered(y, held, destroyed \cap Objects(y), {})
      /\ Budgeted(y) /\ y.empty = {} /\ y.passed \subseteq {Float}
      /\ SweepOf(y) = {} /\ \A a \in Small : y.quick[a] = {}
  BY <1>3, SweepNeedsSweepingSound
<1>6. y \in AllocatorState
  BY <1>5 DEF Shaped
<1> DEFINE bits == [i \in Item |-> IF y.bits[i] \in {"mark", "queued"} THEN "none" ELSE y.bits[i]]
<1>7. x = [y EXCEPT !.bits = bits]
  BY <1>4, Zenon
<1>8. \A i \in Item : bits[i] = IF y.bits[i] \in {"mark", "queued"} THEN "none" ELSE y.bits[i]
  OBVIOUS
<1>9. bits \in [Item -> {"none", "mark", "queued", "free"}]
  BY <1>6, Fields
<1> HIDE DEF bits
<1>10. /\ x \in AllocatorState /\ x.bits = bits /\ x.list = y.list /\ x.avail = y.avail
       /\ x.sweep = y.sweep /\ x.quick = y.quick /\ x.budget = y.budget
       /\ x.obtained = y.obtained /\ x.free = y.free /\ x.fin = y.fin /\ x.seen = y.seen
       /\ x.passed = y.passed /\ x.empty = y.empty
  BY <1>6, <1>7, <1>9 DEF AllocatorState
<1>11. Rebitted(y, x)
  <2>1. \A i \in Item : x.bits[i] = "free" <=> y.bits[i] = "free"
    BY <1>8, <1>10
  <2>2. \A i \in Item : x.bits[i] \notin {"mark", "queued"}
    BY <1>8, <1>10
  <2> QED
    BY <1>10, <2>1, <2>2 DEF Rebitted, Kept
<1>12. /\ Shaped(x, {None}) /\ Objects(x) = Objects(y)
       /\ SmallBlocks(x) = SmallBlocks(y) /\ SweepOf(x) = {}
       /\ Budgeted(x)
  BY <1>5, <1>11, RebitSound
<1> DEFINE D == destroyed \cap Objects(y)
<1>13. Sound(x, {None}, FALSE, FALSE, V, V, D)
  <2>1. Tinted(x, FALSE, FALSE, {})
    BY <1>5, <1>8, <1>10, <1>12 DEF Tinted
  <2>2. Sheltered(x, {}, D, {})
    BY <1>5, <1>10, <1>12 DEF Sheltered
  <2> QED
    BY <1>12, <2>1, <2>2 DEF Sound
<1>21. /\ SweepOf(g) = SweepOf(x) /\ g.empty = x.empty /\ g.passed = x.passed
       /\ \A a \in Small : g.quick[a] = {}
       /\ Budgeted(x) => Budgeted(g)
  BY <1>1, <1>12, CoalesceAll
<1>14. /\ SweepOf(g) = {} /\ g.empty = {} /\ g.passed \subseteq {Float}
       /\ \A a \in Small : g.quick[a] = {}
       /\ Budgeted(g)
  BY <1>5, <1>10, <1>12, <1>21
<1>15. Sound(g, {None}, FALSE, FALSE, V, V, D)
  <2>1. A \in SUBSET Small /\ g \in Coalesce(x, A)
    BY <1>1
  <2> HIDE DEF A, V, D
  <2> QED
    BY <1>13, <2>1, CoalesceKeeps
<1>16. Sound(g, {None}, TRUE, TRUE, AllBlocks(g), V, D)
  <2>1. g \in AllocatorState /\ Tinted(g, FALSE, FALSE, {}) /\ Owned(g)
    BY <1>15 DEF Sound, Shaped
  <2>2. Rebitted(g, g)
    BY <2>1 DEF Rebitted, Kept, Owned
  <2>3. \A i \in Item : g.bits[i] # "queued"
    BY <2>1 DEF Tinted
  <2>4. V = {} /\ V \in SUBSET V /\ \A i \in V : g.bits[i] = "mark"
    OBVIOUS
  <2> HIDE DEF V, D
  <2> QED
    BY <1>14, <1>15, <2>2, <2>3, <2>4, Opened
<1>17. h' = g /\ held' = {} /\ destroyed' = D
  <2>1. Objects(g) = Objects(x)
    <3> DEFINE W == {}
    <3>1. A \in SUBSET Small /\ g \in Coalesce(x, A)
      BY <1>1
    <3> HIDE DEF A, D, V
    <3>2. Joined(x, {}, g)
      BY <1>13, <3>1, CoalesceKeeps
    <3> QED
      BY <3>2 DEF Joined
  <2> QED
    BY <1>1, <1>12, <2>1 DEF Become
<1>18. /\ pc' = "presweep" /\ collecting' = TRUE /\ marking' = TRUE /\ closing' \in BOOLEAN
       /\ UNCHANGED <<instance, pass>>
  BY DEF ForceSweepAtShutdown
<1>19. Sound(h', {None}, TRUE, TRUE, AllBlocks(h'), held', destroyed')
  BY <1>16, <1>17
<1> QED
  BY <1>2, <1>14, <1>17, <1>18, <1>19, PresweepStep

LEMMA BeginFinalizeStep ==
  ASSUME IInv, BeginFinalize
  PROVE  IInv'
<1>1. /\ pc = "presweep" /\ pc' = "pass" /\ todo' = instance.order
      /\ doomed' = {i \in Objects(h) : h.bits[i] # "mark"}
      /\ h' = h /\ held' = held /\ destroyed' = destroyed /\ marking' = marking
      /\ collecting' = collecting /\ instance' = instance /\ closing' = closing
      /\ at' = at /\ next' = next /\ putOnFreeList' = putOnFreeList
  BY DEF BeginFinalize
<1>2. /\ collecting = TRUE /\ marking = TRUE /\ Budgeted(h) /\ \A a \in Small : h.quick[a] = {}
      /\ Sound(h, {at}, TRUE, TRUE, ToVisit(h), held, destroyed)
  BY <1>1, CollectState
<1>3. /\ Shaped(h, {at}) /\ Tinted(h, TRUE, TRUE, ToVisit(h)) /\ h \in AllocatorState /\ Owned(h)
  BY <1>2 DEF Sound, Shaped
<1>4. /\ todo = <<>> /\ at = None /\ next = None /\ h.passed \subseteq {Float}
  BY <1>1 DEF IInv, PhaseInv
<1>5. /\ instance \in Instances /\ closing \in BOOLEAN /\ putOnFreeList \in BOOLEAN
  BY DEF IInv, TypeOK
<1> DEFINE s == instance.order
<1>6. s \in Seq(Allocs) /\ IsInjective(s)
  BY <1>5, BlocksAssumption
<1>7. s \in Remainders(instance.order)
  <2> HIDE DEF s
  <2>1. s \in Remainders(s)
    BY <1>6, SuffixOf
  <2> QED
    BY <2>1 DEF s
<1>8. s # <<>> => /\ Range(s) = {Head(s)} \cup Range(Tail(s)) /\ Head(s) \in Allocs
  BY <1>6, HeadTail
<1>9. s = <<>> => Using = {}
  <2> HIDE DEF s
  <2>1. \A x : x \in Range(s) <=> \E j \in 1..Len(s) : s[j] = x
    BY <1>6, RangeOf
  <2>2. s = <<>> => Len(s) = 0
    BY <1>6
  <2>3. s = <<>> => Range(s) = {}
    BY <2>1, <2>2
  <2> QED
    BY <2>3 DEF Using, s
<1>10. \A b \in AllBlocks(h) : b \in ToVisit(h)
  BY <1>1, Kinds DEF AllBlocks, ToVisit, Ahead
<1>11. \A b \in AllBlocks(h') : b \in ToVisit(h)'
  <2> SUFFICES ASSUME NEW b \in AllBlocks(h)
               PROVE  b \in ToVisit(h)'
    BY <1>1
  <2>1. PICK a \in Allocs : b \in Own(h, a)
    BY DEF AllBlocks
  <2>2. a \in Using
    BY <1>3, <2>1 DEF Owned
  <2>3. s # <<>> /\ (a = Head(s) \/ a \in Range(Tail(s)))
    BY <1>8, <1>9, <2>2 DEF Using
  <2>4. b \in Ahead(h, a)'
    BY <1>1, <1>4, <2>1, <2>3 DEF Ahead, Own
  <2> QED
    BY <2>4 DEF ToVisit
<1>12. Cursor(h, destroyed)'
  <2>1. Using \subseteq Range(s)
    BY DEF Using
  <2>2. s # <<>> =>
          /\ \A a \in Range(Tail(s)) : a \in h.passed => a = Float
          /\ Head(s) \in Finalizing => Head(s) \notin h.passed
    BY <1>4, BlocksAssumption
  <2>3. Using' = Using
    BY <1>1 DEF Using
  <2>4. s # <<>> /\ Head(s) \in Finalizing => Between(h, destroyed, Head(todo))'
    BY <1>1, <1>4, <2>2 DEF Between
  <2> QED
    BY <1>1, <1>4, <2>1, <2>2, <2>3, <2>4 DEF Cursor
<1>13. Found(h)'
  <2> SUFFICES ASSUME NEW i \in Objects(h), h.bits[i] # "mark"
               PROVE  h.bits[i] = "none" /\ i[1] \in AllBlocks(h)
    BY <1>1, <1>11 DEF Found, Objects, SmallBlocks, Own, SweepOf
  <2>1. /\ i \in Item
        /\ \/ i[1] \in SmallBlocks(h) /\ h.bits[i] # "free"
           \/ i[1] \in Own(h, Large) /\ i[2] = 1
    BY <1>3, ObjectsOf
  <2>2. i[1] \in AllBlocks(h)
    BY <2>1, Kinds DEF AllBlocks, SmallBlocks
  <2>3. h.bits[i] # "queued"
    BY <1>3, <2>1 DEF Tinted
  <2>4. h.bits[i] # "free"
    <3>1. CASE i[1] \in Own(h, Large) /\ i[2] = 1
      <4>1. i = <<i[1], 1>>
        BY <2>1, <3>1, ItemOf
      <4> QED
        BY <1>3, <3>1, <4>1 DEF Owned
    <3> QED
      BY <2>1, <3>1
  <2>5. h.bits[i] \in {"none", "mark", "queued", "free"}
    BY <1>3, <2>1, Fields
  <2> QED
    BY <2>2, <2>3, <2>4, <2>5
<1> DEFINE W == ToVisit(h)
<1>14. /\ Sound(h', {at'}, TRUE, TRUE, W, held', destroyed')
       /\ \A b \in AllBlocks(h') : b \in W <=> b \in ToVisit(h)'
  BY <1>1, <1>2, <1>10, <1>11
<1> HIDE DEF W
<1>15. doomed' \in SUBSET Item
  BY <1>1, <1>3, ObjectsOf
<1>16. /\ pc' \in {"presweep", "pass", "final"} /\ collecting' = TRUE /\ marking' = TRUE
       /\ todo' \in Remainders(instance.order) /\ {at', next'} \subseteq Block \cup {None}
       /\ at' = None /\ next' = None /\ pc' # "presweep" /\ pc' # "final"
       /\ closing' \in BOOLEAN /\ putOnFreeList' \in BOOLEAN /\ instance' = instance
       /\ Budgeted(h') /\ \A a \in Small : h'.quick[a] = {}
  BY <1>1, <1>2, <1>4, <1>5, <1>7
<1> QED
  BY <1>12, <1>13, <1>14, <1>15, <1>16, PassStep

-----------------------------------------------------------------------------
(* The collection ends.                                                    *)

\* x is h without the empty blocks, and with no block visited.
Ended(x) ==
  /\ x \in AllocatorState /\ x.list = h.list /\ x.avail = h.avail /\ x.sweep = h.sweep
  /\ x.quick = h.quick /\ x.budget = h.budget /\ x.obtained = h.obtained
  /\ \A e \in Block \ h.empty : x.free[e] = h.free[e]
  /\ \A i \in Item : x.bits[i] = IF i[1] \in h.empty THEN "none" ELSE h.bits[i]
  /\ x.fin \subseteq h.fin /\ x.empty = {} /\ x.passed = h.passed \cap {Float}
  /\ \A e \in Block : x.seen[e] <=> e \in SmallBlocks(h) /\ ~(e \notin h.empty /\ h.seen[e])

Reset(g, empty, passed, seen) == [g EXCEPT !.empty = empty, !.passed = passed, !.seen = seen]

LEMMA ResetFields ==
  ASSUME NEW y \in AllocatorState, NEW empty \in SUBSET Block, NEW passed \in SUBSET Allocs,
         NEW seen \in [Block -> BOOLEAN], NEW x, x = Reset(y, empty, passed, seen)
  PROVE  /\ x \in AllocatorState /\ x.bits = y.bits /\ x.list = y.list /\ x.avail = y.avail
         /\ x.sweep = y.sweep /\ x.quick = y.quick /\ x.budget = y.budget
         /\ x.obtained = y.obtained /\ x.free = y.free /\ x.fin = y.fin /\ x.seen = seen
         /\ x.passed = passed /\ x.empty = empty
  BY DEF AllocatorState, Reset

LEMMA EndFields ==
  ASSUME h \in AllocatorState
  PROVE  Ended([FreeChunks(h, h.empty) EXCEPT !.empty = {}, !.passed = @ \cap {Float},
                  !.seen = [b \in Block |-> b \in SmallBlocks(h) /\ ~@[b]]])
<1> DEFINE x == [FreeChunks(h, h.empty) EXCEPT !.empty = {}, !.passed = @ \cap {Float},
                  !.seen = [b \in Block |-> b \in SmallBlocks(h) /\ ~@[b]]]
           bs == h.empty
           y == FreeChunks(h, bs)
           seen == [b \in Block |-> b \in SmallBlocks(h) /\ ~y.seen[b]]
           passed == y.passed \cap {Float}
           none == {}
<1>1. x = Reset(y, none, passed, seen)
  BY Zenon DEF Reset
<1> HIDE DEF bs, x
<1>2. /\ y.list = h.list /\ y.avail = h.avail
      /\ y.sweep = h.sweep /\ y.quick = h.quick
      /\ y.budget = h.budget /\ y.obtained = h.obtained
      /\ y.free = [b \in Block |-> IF b \in bs THEN {} ELSE h.free[b]]
      /\ y.bits = [i \in Item |-> IF i[1] \in bs THEN "none" ELSE h.bits[i]]
      /\ y.fin = {i \in h.fin : i[1] \notin bs}
      /\ y.seen = [b \in Block |-> b \notin bs /\ h.seen[b]]
      /\ y.passed = h.passed /\ y.empty = h.empty
      /\ y \in AllocatorState
  BY FreeChunksFields
<1> HIDE DEF y
<1>3. /\ seen \in [Block -> BOOLEAN] /\ passed \in SUBSET Allocs /\ none \in SUBSET Block
      /\ passed = h.passed \cap {Float} /\ none = {}
      /\ \A e \in Block : seen[e] <=> e \in SmallBlocks(h) /\ ~(e \notin bs /\ h.seen[e])
  BY <1>2, Fields
<1> HIDE DEF seen, passed, none
<1>4. /\ x \in AllocatorState /\ x.bits = y.bits /\ x.list = y.list /\ x.avail = y.avail
      /\ x.sweep = y.sweep /\ x.quick = y.quick /\ x.budget = y.budget
      /\ x.obtained = y.obtained /\ x.free = y.free /\ x.fin = y.fin /\ x.seen = seen
      /\ x.passed = passed /\ x.empty = none
  <2>1. y \in AllocatorState
    BY <1>2
  <2> QED
    BY <1>1, <1>3, <2>1, ResetFields
<1>5. \A i \in Item : x.bits[i] = IF i[1] \in bs THEN "none" ELSE h.bits[i]
  BY <1>2, <1>4
<1>6. \A e \in Block \ bs : x.free[e] = h.free[e]
  BY <1>2, <1>4
<1> QED
  <2>1. Ended(x)
    BY <1>2, <1>3, <1>4, <1>5, <1>6 DEF Ended, bs
  <2> QED
    BY <2>1 DEF x

LEMMA EndSound ==
  ASSUME IInv, pc = "pass", todo = <<>>, NEW x, Ended(x)
  PROVE  /\ Shaped(x, {None}) /\ Budgeted(x) /\ Tinted(x, FALSE, FALSE, {})
         /\ Sheltered(x, held, destroyed, {})
         /\ SweepOf(x) = SweepOf(h) /\ Objects(x) = Objects(h)
         /\ \A i \in Objects(x) : i[1] \notin h.empty /\ x.bits[i] = h.bits[i]
<1>1. /\ Sound(h, {at}, TRUE, TRUE, ToVisit(h), held, destroyed) /\ Budgeted(h)
  BY CollectState
<1>2. ToVisit(h) = {}
  BY DEF ToVisit, Ahead
<1>3. at = None
  BY DEF IInv, PhaseInv
<1>4. /\ Shaped(h, {None}) /\ Tinted(h, TRUE, TRUE, {}) /\ Sheltered(h, held, destroyed, {})
      /\ h \in AllocatorState /\ Listed(h) /\ Placed(h, {None}) /\ Owned(h)
  BY <1>1, <1>2, <1>3 DEF Sound, Shaped
<1>5. /\ x \in AllocatorState /\ x.list = h.list /\ x.avail = h.avail /\ x.sweep = h.sweep
      /\ x.quick = h.quick /\ x.budget = h.budget /\ x.obtained = h.obtained
      /\ \A e \in Block \ h.empty : x.free[e] = h.free[e]
      /\ \A i \in Item : x.bits[i] = IF i[1] \in h.empty THEN "none" ELSE h.bits[i]
      /\ x.fin \subseteq h.fin /\ x.empty = {}
      /\ \A e \in Block : x.seen[e] <=> e \in SmallBlocks(h) /\ ~(e \notin h.empty /\ h.seen[e])
  BY DEF Ended
<1>6. /\ \A a \in Allocs : Own(x, a) = Own(h, a)
      /\ SmallBlocks(x) = SmallBlocks(h) /\ SweepOf(x) = SweepOf(h)
  BY <1>5 DEF Own, SmallBlocks, SweepOf
<1>7. \A a \in Allocs : \A e \in Own(h, a) : e \in Block \ h.empty
  BY <1>4, OwnType DEF Listed
<1>8. \A e \in SmallBlocks(h) : e \in Block \ h.empty
  BY <1>7, Kinds DEF SmallBlocks
<1>9. \A e \in Block : ~x.seen[e]
  BY <1>4, <1>5, <1>8 DEF Tinted
<1>10. Objects(x) = Objects(h) /\ \A i \in Objects(x) : i[1] \notin h.empty /\ x.bits[i] = h.bits[i]
  <2>1. \A i \in Item : i \in Objects(x) <=> i \in Objects(h)
    BY <1>4, <1>5, <1>6, <1>8, Kinds, ObjectsOf
  <2>2. \A i \in Objects(h) : i \in Item /\ i[1] \notin h.empty
    BY <1>4, <1>7, <1>8, Kinds, ObjectsOf
  <2>3. Objects(x) = Objects(h)
    BY <1>4, <1>5, <2>1, ObjectsOf
  <2> QED
    BY <1>5, <2>2, <2>3
<1>11. Owned(x)
  <2>1. \A i \in Item : x.bits[i] \in {"mark", "queued"} => i \in Objects(x)
    BY <1>4, <1>5, <1>10 DEF Owned
  <2>2. ASSUME NEW e \in Own(x, Large)
        PROVE  x.bits[<<e, 1>>] # "free"
    <3>1. e \in Own(h, Large) /\ e \in Block \ h.empty
      BY <1>6, <1>7, <2>2, Kinds
    <3>2. <<e, 1>> \in Item /\ <<e, 1>>[1] = e
      BY <3>1, ItemOf
    <3> QED
      BY <1>4, <1>5, <3>1, <3>2 DEF Owned
  <2> QED
    BY <1>4, <1>6, <1>9, <2>1, <2>2 DEF Owned
<1>12. Listed(x)
  BY <1>4, <1>5, <1>6 DEF Listed
<1>13. \A a \in Small : Own(x, a) = Own(h, a) /\ \A e \in Own(h, a) : e \in Block \ h.empty
  BY <1>6, <1>7, Kinds
<1>14. Placed(x, {None})
  <2>1. ASSUME NEW a \in Small, NEW e \in Own(x, a), NEW k \in 1..N
        PROVE  /\ ~(<<e, k>> \in x.quick[a] /\ k \in x.free[e])
               /\ x.bits[<<e, k>>] = "free" <=> <<e, k>> \in x.quick[a] \/ k \in x.free[e]
    <3>1. e \in Own(h, a) /\ e \in Block \ h.empty
      BY <1>13
    <3>2. <<e, k>> \in Item /\ <<e, k>>[1] = e
      BY <3>1, ItemOf
    <3> QED
      BY <1>4, <1>5, <3>1, <3>2 DEF Placed
  <2>2. ASSUME NEW a \in Small
        PROVE  /\ x.avail[a] \cap x.sweep[a] = {}
               /\ x.avail[a] \cup x.sweep[a] \subseteq Own(x, a)
               /\ x.quick[a] \subseteq (Own(x, a) \ x.sweep[a]) \X (1..N)
               /\ \A b \in x.avail[a] : x.free[b] # {}
               /\ \A b \in Own(x, a) : x.free[b] = {} \/ b \in x.avail[a] \cup x.sweep[a] \cup {None}
    <3>1. /\ h.avail[a] \cap h.sweep[a] = {}
          /\ h.avail[a] \cup h.sweep[a] \subseteq Own(h, a)
          /\ h.quick[a] \subseteq (Own(h, a) \ h.sweep[a]) \X (1..N)
          /\ \A b \in h.avail[a] : h.free[b] # {}
          /\ \A b \in Own(h, a) : h.free[b] = {} \/ b \in h.avail[a] \cup h.sweep[a] \cup {None}
      BY <1>4 DEF Placed
    <3>2. /\ x.avail[a] = h.avail[a] /\ x.sweep[a] = h.sweep[a] /\ x.quick[a] = h.quick[a]
          /\ Own(x, a) = Own(h, a) /\ \A b \in Own(h, a) : x.free[b] = h.free[b]
      BY <1>5, <1>13
    <3> QED
      BY <3>1, <3>2
  <2> QED
    BY <2>1, <2>2 DEF Placed
<1>15. Tinted(x, FALSE, FALSE, {})
  <2>1. \A e \in SmallBlocks(x) : ~x.seen[e]
    BY <1>6, <1>8, <1>9
  <2>2. \A i \in Item : x.bits[i] # "queued" /\ (x.bits[i] = "mark" => i[1] \in SweepOf(x))
    BY <1>4, <1>5, <1>6 DEF Tinted
  <2> QED
    BY <2>1, <2>2 DEF Tinted
<1>16. Sheltered(x, held, destroyed, {})
  BY <1>4, <1>5, <1>6, <1>10 DEF Sheltered
<1>17. Budgeted(x)
  BY <1>1, <1>5 DEF Budgeted, Accounted
<1> QED
  BY <1>5, <1>6, <1>10, <1>11, <1>12, <1>14, <1>15, <1>16, <1>17 DEF Shaped

LEMMA EndSweepStep ==
  ASSUME IInv, EndSweep
  PROVE  /\ IInv'
         /\ \A i \in doomed \cap Objects(h') :
              ~closing /\ h'.bits[i] = "none" /\ \E a \in Small : i[1] \in h'.sweep[a]
<1> DEFINE g == [FreeChunks(h, h.empty) EXCEPT !.empty = {}, !.passed = @ \cap {Float},
                   !.seen = [b \in Block |-> b \in SmallBlocks(h) /\ ~@[b]]]
<1>1. PICK eager \in BOOLEAN : \E y \in IF eager THEN SweepNeedsSweeping(g) ELSE {g} :
        (closing => eager) /\ Become(y, held, destroyed)
  BY DEF EndSweep
<1>2. PICK x \in IF eager THEN SweepNeedsSweeping(g) ELSE {g} :
        (closing => eager) /\ Become(x, held, destroyed)
  BY <1>1
<1>3. /\ pc = "pass" /\ todo = <<>> /\ collecting' = FALSE /\ marking' = FALSE
      /\ pc' = (IF closing THEN "dead" ELSE "run") /\ doomed' = {} /\ instance' = instance
      /\ closing' = closing /\ todo' = todo /\ at' = at /\ next' = next
      /\ putOnFreeList' = putOnFreeList
  BY DEF EndSweep
<1>4. h \in AllocatorState
  BY DEF IInv, Shaped
<1>5. Ended(g)
  BY <1>4, EndFields
<1> HIDE DEF g
<1> DEFINE V == {}
           D == destroyed \cap Objects(x)
<1>6. /\ Shaped(g, {None}) /\ Budgeted(g) /\ Tinted(g, FALSE, FALSE, V)
      /\ Sheltered(g, held, destroyed, V)
      /\ SweepOf(g) = SweepOf(h) /\ Objects(g) = Objects(h)
      /\ \A i \in Objects(g) : i[1] \notin h.empty /\ g.bits[i] = h.bits[i]
      /\ g.empty = {} /\ g.passed \subseteq {Float}
  BY <1>3, <1>5, EndSound DEF Ended
<1> HIDE DEF V
<1>7. /\ Shaped(x, {None}) /\ Budgeted(x) /\ Tinted(x, FALSE, FALSE, V) /\ Sheltered(x, held, D, V)
      /\ x.empty = {} /\ x.passed \subseteq {Float}
      /\ closing => \A a \in Small : x.quick[a] = {}
  <2>1. CASE eager
    <3>1. x \in SweepNeedsSweeping(g)
      BY <1>2, <2>1
    <3>2. /\ Shaped(x, {None}) /\ Tinted(x, FALSE, FALSE, V)
          /\ Sheltered(x, held, destroyed \cap Objects(x), V)
          /\ Budgeted(x) /\ x.empty = g.empty /\ x.passed = g.passed
          /\ \A a \in Small : x.quick[a] = {}
      BY <1>6, <3>1, SweepNeedsSweepingSound
    <3> QED
      BY <1>6, <3>2
  <2>2. CASE ~eager
    <3>1. x = g /\ ~closing
      BY <1>2, <2>2
    <3>2. destroyed \cap Objects(x) = destroyed
      BY <1>6, <3>1 DEF Sheltered
    <3> QED
      BY <1>6, <3>1, <3>2
  <2> QED
    BY <2>1, <2>2
<1>8. h' = x /\ held' = held /\ destroyed' = D
  BY <1>2 DEF Become
<1> HIDE DEF D
<1>9. at = None /\ next = None
  BY <1>3 DEF IInv, PhaseInv
<1>10. /\ instance \in Instances /\ closing \in BOOLEAN /\ putOnFreeList \in BOOLEAN
       /\ todo \in Remainders(instance.order)
  BY DEF IInv, TypeOK
<1>11. x \in AllocatorState /\ held \in SUBSET Item /\ D \in SUBSET Item
  BY <1>7, HeldItems DEF Shaped
<1>12. TypeOK'
  BY <1>3, <1>8, <1>9, <1>10, <1>11 DEF TypeOK
<1>13. PhaseInv'
  BY <1>3, <1>7, <1>8, <1>9, <1>10 DEF PhaseInv
<1>14. Cursor(h, destroyed)' /\ Found(h)' /\ \A b \in AllBlocks(h') : b \in V <=> b \in ToVisit(h)'
  BY <1>3, <1>10 DEF Cursor, Found, ToVisit, Ahead, V
<1>15. IInv'
  <2>1. /\ Shaped(h', {at'}) /\ Budgeted(h') /\ Tinted(h', collecting', marking', V)
        /\ Sheltered(h', held', destroyed', V)
    BY <1>3, <1>7, <1>8, <1>9
  <2> QED
    BY <1>3, <1>12, <1>13, <1>14, <2>1, Assemble
<1>16. ASSUME NEW i \in doomed, i \in Objects(x)
       PROVE  /\ i \in Objects(g) /\ g.bits[i] = "none" /\ i[1] \in SweepOf(g)
              /\ ~eager
  <2>1. Found(h) /\ ToVisit(h) = {}
    BY <1>3 DEF IInv, ToVisit, Ahead
  <2>2. i \in Objects(g)
    <3>1. CASE eager
      <4>1. x \in SweepNeedsSweeping(g)
        BY <1>2, <3>1
      <4>2. Objects(x) \subseteq Objects(g)
        BY <1>6, <4>1, SweepNeedsSweepingSound
      <4> QED
        BY <1>16, <4>2
    <3>2. CASE ~eager
      BY <1>2, <1>16, <3>2
    <3> QED
      BY <3>1, <3>2
  <2>3. g.bits[i] = "none" /\ i[1] \in SweepOf(g)
    BY <1>3, <1>6, <2>1, <2>2 DEF Found
  <2>4. ASSUME eager
        PROVE  FALSE
    <3>1. x \in SweepNeedsSweeping(g)
      BY <1>2, <2>4
    <3>2. \A j \in Objects(g) : j[1] \in SweepOf(g) /\ g.bits[j] = "none" => j \notin Objects(x)
      BY <1>6, <3>1, SweepNeedsSweepingSound
    <3> QED
      BY <1>16, <2>2, <2>3, <3>2
  <2> QED
    BY <2>2, <2>3, <2>4
<1>17. ASSUME NEW i \in doomed, i \in Objects(h')
       PROVE  ~closing /\ h'.bits[i] = "none" /\ \E a \in Small : i[1] \in h'.sweep[a]
  BY <1>2, <1>8, <1>16, <1>17 DEF SweepOf
<1> QED
  BY <1>15, <1>17

-----------------------------------------------------------------------------
(* The pass over the allocators.                                           *)

LEMMA PassState ==
  ASSUME IInv, pc = "pass", todo # <<>>
  PROVE  /\ Head(todo) \in Allocs /\ Tail(todo) \in Remainders(instance.order)
         /\ Range(todo) = {Head(todo)} \cup Range(Tail(todo)) /\ Head(todo) \notin Range(Tail(todo))
         /\ Using \subseteq h.passed \cup Range(todo) \cup {Large}
         /\ \A c \in Range(Tail(todo)) : c \in h.passed => c = Float
         /\ Head(todo) \in Plain => at = None /\ next = None
         /\ Head(todo) \in Finalizing => Between(h, destroyed, Head(todo))
         /\ Head(todo) = Large => (at = None \/ at \in Own(h, Large)) /\ next = None
<1>1. Cursor(h, destroyed)
  BY CollectState
<1>2. /\ Head(todo) \in Allocs /\ Tail(todo) \in Remainders(instance.order)
      /\ Range(todo) = {Head(todo)} \cup Range(Tail(todo)) /\ Head(todo) \notin Range(Tail(todo))
  BY Todo
<1> QED
  BY <1>1, <1>2 DEF Cursor

\* The blocks to be visited: those of the allocators to come, and some of the
\* one at the head.
LEMMA PassToVisit ==
  ASSUME IInv, pc = "pass", todo # <<>>
  PROVE  /\ \A c \in Allocs \ {Head(todo)} : \A b \in Own(h, c) :
              b \in ToVisit(h) <=> c \in Range(Tail(todo))
         /\ \A b \in Own(h, Head(todo)) : b \in ToVisit(h) <=>
              \/ at = None
              \/ Head(todo) # Large /\ b = at
              \/ (Head(todo) = Large \/ next # None) /\ Before(h.list[Head(todo)], at, b)
<1>1. Head(todo) \in Allocs /\ Head(todo) \notin Range(Tail(todo))
  BY PassState
<1>2. Listed(h)
  BY DEF IInv, Shaped
<1>3. \A c \in Allocs : \A b \in Own(h, c) : b \in ToVisit(h) <=> b \in Ahead(h, c)
  BY <1>2 DEF ToVisit, Ahead, Listed
<1>4. \A c \in Allocs : \A b \in Own(h, c) : b \in Ahead(h, c) <=>
        \/ c \in Range(Tail(todo))
        \/ /\ c = Head(todo)
           /\ \/ at = None
              \/ c # Large /\ b = at
              \/ (c = Large \/ next # None) /\ Before(h.list[c], at, b)
  BY DEF Ahead
<1> QED
  BY <1>1, <1>3, <1>4

LEMMA FoundIn ==
  ASSUME NEW out, Shaped(h', out), NEW W,
         \A b \in AllBlocks(h') : b \in W <=> b \in ToVisit(h)',
         \A i \in doomed' :
           \/ i \in Objects(h') /\ h'.bits[i] = "none" /\ i[1] \in W \cup SweepOf(h')
           \/ i[1] \in h'.empty
           \/ pc' = "final" /\ Head(todo') = Large /\ i[1] = next'
  PROVE  Found(h)'
<1>1. h' \in AllocatorState
  BY DEF Shaped
<1>2. \A i \in Objects(h') : i[1] \in AllBlocks(h')
  BY <1>1, ObjectsOf, Kinds DEF AllBlocks, SmallBlocks
<1>3. \A i \in doomed' :
        \/ i \in Objects(h') /\ h'.bits[i] = "none" /\ i[1] \in ToVisit(h)' \cup SweepOf(h')
        \/ i[1] \in h'.empty
        \/ pc' = "final" /\ Head(todo') = Large /\ i[1] = next'
  BY <1>2
<1> QED
  BY <1>3 DEF Found, Objects, SmallBlocks, Own, SweepOf

\* The pass turns to the next allocator.
LEMMA DoneStep ==
  ASSUME IInv, pc = "pass", todo # <<>>, Done, pc' = "pass",
         UNCHANGED <<marking, collecting, instance, closing, doomed>>,
         NEW W, Sound(h', {None}, TRUE, TRUE, W, held', destroyed'), Budgeted(h'),
         \A c \in Small : h'.quick[c] = {},
         h'.passed \subseteq h.passed \cup {Head(todo)},
         h.passed \cup {Head(todo)} \subseteq h'.passed \cup {Large},
         \A c \in Allocs : \A b \in Own(h', c) : b \in W <=> c \in Range(Tail(todo)),
         \A i \in doomed :
           \/ i \in Objects(h') /\ h'.bits[i] = "none" /\ i[1] \in W \cup SweepOf(h')
           \/ i[1] \in h'.empty
  PROVE  IInv'
<1> DEFINE t == Tail(todo)
<1>1. /\ Head(todo) \in Allocs /\ t \in Remainders(instance.order)
      /\ Range(todo) = {Head(todo)} \cup Range(t) /\ Head(todo) \notin Range(t)
      /\ Using \subseteq h.passed \cup Range(todo) \cup {Large}
      /\ \A c \in Range(t) : c \in h.passed => c = Float
  BY PassState
<1>2. /\ todo' = t /\ at' = None /\ next' = None /\ putOnFreeList' = FALSE
      /\ doomed' = doomed /\ instance' = instance /\ closing' = closing
      /\ collecting' = TRUE /\ marking' = TRUE
  BY CollectState DEF Done
<1>3. /\ instance \in Instances /\ closing \in BOOLEAN /\ doomed \in SUBSET Item
  BY DEF IInv, TypeOK
<1>4. Shaped(h', {None}) /\ h' \in AllocatorState /\ Listed(h')
  BY DEF Sound, Shaped
<1> HIDE DEF t
<1>5. t # <<>> => Range(t) = {Head(t)} \cup Range(Tail(t))
  <2>1. instance.order \in Seq(Allocs) /\ IsInjective(instance.order)
    BY <1>3, BlocksAssumption
  <2>2. t \in Seq(Allocs) /\ IsInjective(t)
    BY <1>1, <2>1, SuffixOf
  <2> QED
    BY <2>2, HeadTail
<1>6. t = <<>> => Range(t) = {}
  <2>1. t \in Seq(Allocs)
    <3>1. instance.order \in Seq(Allocs) /\ IsInjective(instance.order)
      BY <1>3, BlocksAssumption
    <3> QED
      BY <1>1, <3>1, SuffixOf
  <2>2. \A y : y \in Range(t) <=> \E j \in 1..Len(t) : t[j] = y
    BY <2>1, RangeOf
  <2>3. t = <<>> => Len(t) = 0
    BY <2>1
  <2> QED
    BY <2>2, <2>3
<1>7. \A b \in AllBlocks(h') : b \in W <=> b \in ToVisit(h)'
  <2> TAKE b \in AllBlocks(h')
  <2>1. PICK c \in Allocs : b \in Own(h', c)
    BY DEF AllBlocks
  <2>2. b \in ToVisit(h)' <=> b \in Ahead(h, c)'
    <3>1. \A d \in Allocs : b \in Ahead(h, d)' => b \in Own(h', d)
      BY DEF Ahead, Own
    <3>2. \A d \in Allocs : b \in Own(h', d) => d = c
      BY <1>4, <2>1 DEF Listed
    <3> QED
      BY <2>1, <3>1, <3>2 DEF ToVisit
  <2>3. b \in Ahead(h, c)' <=> t # <<>> /\ (c \in Range(Tail(t)) \/ c = Head(t))
    BY <1>2, <2>1 DEF Ahead, Own
  <2>4. b \in W <=> c \in Range(t)
    BY <2>1 DEF t
  <2> QED
    BY <1>5, <1>6, <2>2, <2>3, <2>4
<1>8. Cursor(h, destroyed)'
  <2>1. Using' = Using
    BY <1>2 DEF Using
  <2>2. Using \subseteq h'.passed \cup Range(t) \cup {Large}
    BY <1>1
  <2>3. \A c \in Range(t) : c \in h'.passed => c = Float
    BY <1>1 DEF t
  <2>4. t # <<>> /\ Head(t) \in Finalizing => Head(t) \notin h'.passed
    BY <1>5, <2>3, BlocksAssumption
  <2>5. t # <<>> /\ Head(t) \in Finalizing => Between(h, destroyed, Head(todo))'
    BY <1>2, <2>4 DEF Between
  <2>6. t # <<>> => \A c \in Range(Tail(t)) : c \in h'.passed => c = Float
    BY <1>5, <2>3
  <2> QED
    BY <1>2, <2>1, <2>2, <2>5, <2>6 DEF Cursor
<1>9. Found(h)'
  BY <1>2, <1>4, <1>7, FoundIn
<1>10. /\ Sound(h', {at'}, TRUE, TRUE, W, held', destroyed')
       /\ {at', next'} \subseteq Block \cup {None} /\ todo' \in Remainders(instance.order)
       /\ pc' # "presweep" /\ pc' # "final" /\ pc' \in {"presweep", "pass", "final"}
       /\ putOnFreeList' \in BOOLEAN /\ closing' \in BOOLEAN /\ doomed' \in SUBSET Item
  BY <1>1, <1>2, <1>3
<1> QED
  BY <1>2, <1>7, <1>8, <1>9, <1>10, PassStep

\* What LazySweepPass changes.
LazyPassed(a, x) ==
  /\ x \in AllocatorState /\ x.list = h.list /\ x.quick = h.quick
  /\ x.budget = h.budget /\ x.obtained = h.obtained
  /\ x.free = h.free /\ x.bits = h.bits /\ x.fin = h.fin /\ x.empty = h.empty
  /\ x.passed = h.passed \cup {a}
  /\ \A c \in Small : /\ x.avail[c] = IF c = a THEN {} ELSE h.avail[c]
                      /\ x.sweep[c] = IF c = a THEN Own(h, a) ELSE h.sweep[c]
  /\ \A e \in Block : x.seen[e] <=> e \in Own(h, a) \/ h.seen[e]

LEMMA LazyFields ==
  ASSUME h \in AllocatorState, NEW a \in Small
  PROVE  LazyPassed(a, [h EXCEPT !.passed = @ \cup {a}, !.avail[a] = {}, !.sweep[a] = Own(h, a),
                          !.seen = [b \in Block |-> b \in Own(h, a) \/ @[b]]])
<1> DEFINE passed == h.passed \cup {a}
           avail == [h.avail EXCEPT ![a] = {}]
           sweep == [h.sweep EXCEPT ![a] = Own(h, a)]
           seen == [b \in Block |-> b \in Own(h, a) \/ h.seen[b]]
           x == [h EXCEPT !.passed = @ \cup {a}, !.avail[a] = {}, !.sweep[a] = Own(h, a),
                   !.seen = [b \in Block |-> b \in Own(h, a) \/ @[b]]]
<1>1. x = [h EXCEPT !.passed = passed, !.avail = avail, !.sweep = sweep, !.seen = seen]
  BY Zenon DEF AllocatorState
<1>2. /\ passed \in SUBSET Allocs /\ avail \in [Small -> SUBSET Block]
      /\ sweep \in [Small -> SUBSET Block] /\ seen \in [Block -> BOOLEAN]
  BY Fields, OwnType, Kinds
<1>3. /\ passed = h.passed \cup {a}
      /\ \A c \in Small : /\ avail[c] = IF c = a THEN {} ELSE h.avail[c]
                          /\ sweep[c] = IF c = a THEN Own(h, a) ELSE h.sweep[c]
      /\ \A e \in Block : seen[e] <=> e \in Own(h, a) \/ h.seen[e]
  BY Fields
<1> HIDE DEF passed, avail, sweep, seen, x
<1>4. /\ x \in AllocatorState /\ x.list = h.list /\ x.quick = h.quick
      /\ x.budget = h.budget /\ x.obtained = h.obtained
      /\ x.free = h.free /\ x.bits = h.bits /\ x.fin = h.fin /\ x.empty = h.empty
      /\ x.passed = passed /\ x.avail = avail /\ x.sweep = sweep /\ x.seen = seen
  BY <1>1, <1>2 DEF AllocatorState
<1>5. LazyPassed(a, x)
  BY <1>3, <1>4 DEF LazyPassed
<1> QED
  BY <1>5 DEF x

LEMMA LazySound ==
  ASSUME NEW a \in Small, NEW c, NEW V, NEW R, NEW D,
         Sound(h, {None}, c, c, V, R, D), c = TRUE, Own(h, a) \subseteq V,
         \A d \in Small : h.quick[d] = {}, NEW x, LazyPassed(a, x)
  PROVE  Sound(x, {None}, c, c, V \ Own(h, a), R, D) /\ Joined(h, {}, x)
<1>1. /\ Shaped(h, {None}) /\ Tinted(h, TRUE, TRUE, V) /\ Sheltered(h, R, D, V)
      /\ h \in AllocatorState /\ Listed(h) /\ Placed(h, {None}) /\ Owned(h)
  BY DEF Sound, Shaped
<1>2. /\ x \in AllocatorState /\ x.list = h.list /\ x.quick = h.quick
      /\ x.free = h.free /\ x.bits = h.bits /\ x.fin = h.fin /\ x.empty = h.empty
      /\ \A d \in Small : /\ x.avail[d] = IF d = a THEN {} ELSE h.avail[d]
                          /\ x.sweep[d] = IF d = a THEN Own(h, a) ELSE h.sweep[d]
      /\ \A e \in Block : x.seen[e] <=> e \in Own(h, a) \/ h.seen[e]
  BY DEF LazyPassed
<1>3. (\A d \in Allocs : Own(x, d) = Own(h, d)) /\ SmallBlocks(x) = SmallBlocks(h)
  BY <1>2 DEF Own, SmallBlocks
<1>4. Listed(x)
  BY <1>1, <1>2, <1>3 DEF Listed
<1>5. SweepOf(x) = SweepOf(h) \cup Own(h, a)
  <2>1. h.sweep[a] \subseteq Own(h, a)
    BY <1>1 DEF Placed
  <2> QED
    BY <1>2, <2>1 DEF SweepOf
<1>6. Objects(x) = Objects(h)
  <2>1. \A i \in Item : i \in Objects(x) <=> i \in Objects(h)
    BY <1>1, <1>2, <1>3, Kinds, ObjectsOf
  <2> QED
    BY <1>1, <1>2, <2>1, ObjectsOf
<1>7. SmallBlocks(h) \subseteq Block /\ Own(h, a) \subseteq SmallBlocks(h)
  BY <1>1, OwnType, Kinds DEF SmallBlocks
<1>8. Owned(x)
  BY <1>1, <1>2, <1>3, <1>6, <1>7, Kinds DEF Owned
<1>9. Placed(x, {None})
  <2>1. \A d \in Small : Own(x, d) = Own(h, d)
    BY <1>3, Kinds
  <2>2. ASSUME NEW d \in Small
        PROVE  /\ x.avail[d] \cap x.sweep[d] = {}
               /\ x.avail[d] \cup x.sweep[d] \subseteq Own(x, d)
               /\ x.quick[d] \subseteq (Own(x, d) \ x.sweep[d]) \X (1..N)
               /\ \A b \in x.avail[d] : x.free[b] # {}
               /\ \A b \in Own(x, d) : x.free[b] = {} \/ b \in x.avail[d] \cup x.sweep[d] \cup {None}
    BY <1>1, <1>2, <2>1 DEF Placed
  <2> QED
    BY <1>1, <1>2, <2>1, <2>2 DEF Placed
<1>10. Tinted(x, TRUE, TRUE, V \ Own(h, a))
  BY <1>1, <1>2, <1>3, <1>5, <1>7 DEF Tinted
<1>11. Sheltered(x, R, D, V \ Own(h, a))
  BY <1>1, <1>2, <1>5, <1>6 DEF Sheltered
<1> QED
  BY <1>2, <1>4, <1>6, <1>8, <1>9, <1>10, <1>11 DEF Sound, Shaped, Joined

LEMMA LazyStep ==
  ASSUME IInv, NEW a \in Plain, LazySweepPass(a)
  PROVE  IInv'
<1> DEFINE x == [h EXCEPT !.passed = @ \cup {a}, !.avail[a] = {}, !.sweep[a] = Own(h, a),
                   !.seen = [b \in Block |-> b \in Own(h, a) \/ @[b]]]
           V == ToVisit(h)
           W == V \ Own(h, a)
<1>1. /\ pc = "pass" /\ todo # <<>> /\ a = Head(todo) /\ Done /\ pc' = "pass"
      /\ UNCHANGED <<marking, collecting, instance, closing, doomed>>
  BY DEF LazySweepPass, Passing, phase
<1>2. h' = x /\ held' = held /\ destroyed' = destroyed \cap Objects(x)
  BY DEF LazySweepPass, Become
<1>3. /\ collecting = TRUE /\ Sound(h, {at}, TRUE, TRUE, V, held, destroyed) /\ Budgeted(h)
      /\ \A c \in Small : h.quick[c] = {}
  BY <1>1, CollectState
<1>4. at = None /\ a \in Small /\ a \in Allocs
  BY <1>1, PassState, Kinds
<1>5. /\ \A c \in Allocs \ {a} : \A b \in Own(h, c) : b \in V <=> c \in Range(Tail(todo))
      /\ \A b \in Own(h, a) : b \in V
      /\ a \notin Range(Tail(todo))
  BY <1>1, <1>4, PassToVisit, PassState
<1>6. h \in AllocatorState
  BY DEF IInv, Shaped
<1>7. LazyPassed(a, x)
  BY <1>4, <1>6, LazyFields
<1> HIDE DEF x, V
<1>8. Sound(x, {None}, TRUE, TRUE, W, held, destroyed) /\ Joined(h, {}, x)
  <2> DEFINE c == TRUE
  <2>1. Sound(h, {None}, c, c, V, held, destroyed) /\ c = TRUE /\ Own(h, a) \subseteq V
    BY <1>3, <1>4, <1>5
  <2> HIDE DEF c
  <2>2. Sound(x, {None}, c, c, V \ Own(h, a), held, destroyed) /\ Joined(h, {}, x)
    BY <1>3, <1>4, <1>7, <2>1, LazySound
  <2> QED
    BY <2>1, <2>2
<1> HIDE DEF W
<1>9. destroyed' = destroyed
  BY <1>2, <1>8 DEF Sound, Sheltered
<1>10. /\ Budgeted(x) /\ \A c \in Small : x.quick[c] = {}
       /\ x.passed = h.passed \cup {a} /\ x.empty = h.empty
       /\ \A c \in Allocs : Own(x, c) = Own(h, c)
  BY <1>3, <1>7 DEF LazyPassed, Budgeted, Accounted, Own
<1>11. ASSUME NEW c \in Allocs, NEW b \in Own(x, c)
       PROVE  b \in W <=> c \in Range(Tail(todo))
  <2>1. b \in Own(h, c)
    BY <1>10
  <2>2. c # a => b \notin Own(h, a)
    BY <1>4, <2>1 DEF IInv, Shaped, Listed
  <2> QED
    BY <1>5, <2>1, <2>2 DEF W
<1>12. ASSUME NEW i \in doomed
       PROVE  \/ i \in Objects(x) /\ x.bits[i] = "none" /\ i[1] \in W \cup SweepOf(x)
              \/ i[1] \in x.empty
  <2>1. \/ i \in Objects(h) /\ h.bits[i] = "none" /\ i[1] \in V \cup SweepOf(h)
        \/ i[1] \in h.empty
    BY <1>1 DEF IInv, Found, V
  <2>2. SweepOf(h) \cup Own(h, a) \subseteq SweepOf(x)
    <3>1. h.sweep[a] \subseteq Own(h, a)
      BY <1>4 DEF IInv, Shaped, Placed
    <3>2. \A c \in Small : x.sweep[c] = IF c = a THEN Own(h, a) ELSE h.sweep[c]
      BY <1>7 DEF LazyPassed
    <3> QED
      BY <1>4, <3>1, <3>2 DEF SweepOf
  <2> QED
    BY <1>8, <1>10, <2>1, <2>2 DEF Joined, W
<1>13. /\ Sound(h', {None}, TRUE, TRUE, W, held', destroyed') /\ Budgeted(h')
       /\ \A c \in Small : h'.quick[c] = {}
       /\ h'.passed \subseteq h.passed \cup {Head(todo)}
       /\ h.passed \cup {Head(todo)} \subseteq h'.passed \cup {Large}
       /\ \A c \in Allocs : \A b \in Own(h', c) : b \in W <=> c \in Range(Tail(todo))
  BY <1>1, <1>2, <1>8, <1>9, <1>10, <1>11
<1>14. \A i \in doomed :
         \/ i \in Objects(h') /\ h'.bits[i] = "none" /\ i[1] \in W \cup SweepOf(h')
         \/ i[1] \in h'.empty
  BY <1>2, <1>12
<1> QED
  BY <1>1, <1>13, <1>14, DoneStep

\* The allocators x, when the pass goes to block b of allocator a, or has done
\* with a if b is None; W are the blocks to be visited.
Turn(x, a, b, W) ==
  /\ Budgeted(x) /\ \A c \in Small : x.quick[c] = {}
  /\ x.passed = h.passed \cup {a}
  /\ \A c \in Allocs \ {a} : \A e \in Own(x, c) : e \in W <=> c \in Range(Tail(todo))
  /\ b = None => \A e \in Own(x, a) : e \notin W
  /\ b # None => /\ b \in Own(x, a)
                 /\ \A e \in Own(x, a) : e \in W <=> e = b \/ Before(x.list[a], b, e)
  /\ \A i \in doomed : \/ i \in Objects(x) /\ x.bits[i] = "none" /\ i[1] \in W \cup SweepOf(x)
                       \/ i[1] \in x.empty

\* What the head of the loop changes: block b leaves the free list.
Unlisted(g, a, b, x) ==
  /\ x \in AllocatorState /\ x.list = g.list /\ x.quick = g.quick /\ x.sweep = g.sweep
  /\ x.budget = g.budget /\ x.obtained = g.obtained
  /\ x.free = g.free /\ x.bits = g.bits /\ x.fin = g.fin /\ x.empty = g.empty
  /\ x.passed = g.passed /\ x.seen = g.seen
  /\ \A c \in Small : x.avail[c] = IF c = a THEN g.avail[a] \ {b} ELSE g.avail[c]

LEMMA UnlistFields ==
  ASSUME NEW g \in AllocatorState, NEW a \in Small, NEW b
  PROVE  Unlisted(g, a, b, [g EXCEPT !.avail[a] = @ \ {b}])
<1> DEFINE avail == [g.avail EXCEPT ![a] = @ \ {b}]
           x == [g EXCEPT !.avail[a] = @ \ {b}]
<1>1. x = [g EXCEPT !.avail = avail]
  BY Zenon DEF AllocatorState
<1>2. /\ avail \in [Small -> SUBSET Block]
      /\ \A c \in Small : avail[c] = IF c = a THEN g.avail[a] \ {b} ELSE g.avail[c]
  BY Fields
<1> HIDE DEF avail, x
<1>3. /\ x \in AllocatorState /\ x.list = g.list /\ x.quick = g.quick /\ x.sweep = g.sweep
      /\ x.budget = g.budget /\ x.obtained = g.obtained
      /\ x.free = g.free /\ x.bits = g.bits /\ x.fin = g.fin /\ x.empty = g.empty
      /\ x.passed = g.passed /\ x.seen = g.seen /\ x.avail = avail
  BY <1>1, <1>2 DEF AllocatorState
<1>4. Unlisted(g, a, b, x)
  BY <1>2, <1>3 DEF Unlisted
<1> QED
  BY <1>4 DEF x

LEMMA UnlistSound ==
  ASSUME NEW g, NEW out, NEW c, NEW m, NEW V, NEW R, NEW D, Sound(g, out, c, m, V, R, D),
         NEW a \in Small, NEW b, out = {}, NEW x, Unlisted(g, a, b, x)
  PROVE  Sound(x, {b}, c, m, V, R, D) /\ Objects(x) = Objects(g) /\ SweepOf(x) = SweepOf(g)
<1>1. /\ Shaped(g, {}) /\ Tinted(g, c, m, V) /\ Sheltered(g, R, D, V)
      /\ g \in AllocatorState /\ Listed(g) /\ Placed(g, {}) /\ Owned(g)
  BY DEF Sound, Shaped
<1>2. /\ x \in AllocatorState /\ x.list = g.list /\ x.quick = g.quick /\ x.sweep = g.sweep
      /\ x.free = g.free /\ x.bits = g.bits /\ x.fin = g.fin /\ x.empty = g.empty
      /\ x.seen = g.seen
      /\ \A d \in Small : x.avail[d] = IF d = a THEN g.avail[a] \ {b} ELSE g.avail[d]
  BY DEF Unlisted
<1>3. (\A d \in Allocs : Own(x, d) = Own(g, d)) /\ SmallBlocks(x) = SmallBlocks(g)
  BY <1>2 DEF Own, SmallBlocks
<1>4. Listed(x) /\ SweepOf(x) = SweepOf(g)
  BY <1>1, <1>2, <1>3 DEF Listed, SweepOf
<1>5. Objects(x) = Objects(g)
  <2>1. \A i \in Item : i \in Objects(x) <=> i \in Objects(g)
    BY <1>1, <1>2, <1>3, Kinds, ObjectsOf
  <2> QED
    BY <1>1, <1>2, <2>1, ObjectsOf
<1>6. Owned(x)
  BY <1>1, <1>2, <1>3, <1>5, Kinds DEF Owned
<1>7. Placed(x, {b})
  <2>1. \A d \in Small : Own(x, d) = Own(g, d)
    BY <1>3, Kinds
  <2>2. ASSUME NEW d \in Small
        PROVE  /\ x.avail[d] \cap x.sweep[d] = {}
               /\ x.avail[d] \cup x.sweep[d] \subseteq Own(x, d)
               /\ x.quick[d] \subseteq (Own(x, d) \ x.sweep[d]) \X (1..N)
               /\ \A e \in x.avail[d] : x.free[e] # {}
               /\ \A e \in Own(x, d) : x.free[e] = {} \/ e \in x.avail[d] \cup x.sweep[d] \cup {b}
    <3>1. /\ g.avail[d] \cap g.sweep[d] = {}
          /\ g.avail[d] \cup g.sweep[d] \subseteq Own(g, d)
          /\ g.quick[d] \subseteq (Own(g, d) \ g.sweep[d]) \X (1..N)
          /\ \A e \in g.avail[d] : g.free[e] # {}
          /\ \A e \in Own(g, d) : g.free[e] = {} \/ e \in g.avail[d] \cup g.sweep[d]
      BY <1>1 DEF Placed
    <3>2. x.avail[d] = IF d = a THEN g.avail[d] \ {b} ELSE g.avail[d]
      BY <1>2
    <3> QED
      BY <1>2, <2>1, <3>1, <3>2
  <2> QED
    BY <1>1, <1>2, <2>1, <2>2 DEF Placed
<1>8. Tinted(x, c, m, V)
  BY <1>1, <1>2, <1>3, <1>4 DEF Tinted
<1>9. Sheltered(x, R, D, V)
  BY <1>1, <1>2, <1>4, <1>5 DEF Sheltered
<1> QED
  BY <1>2, <1>4, <1>5, <1>6, <1>7, <1>8, <1>9 DEF Sound, Shaped

\* No block is out when the pass has left one and is not at the next.
LEMMA MoreOut ==
  ASSUME NEW g, NEW c, NEW m, NEW V, NEW R, NEW D, NEW out, out = {},
         Sound(g, out, c, m, V, R, D), NEW b
  PROVE  Sound(g, {b}, c, m, V, R, D)
<1>1. Placed(g, {})
  BY DEF Sound, Shaped
<1>2. Placed(g, {b})
  BY <1>1 DEF Placed
<1> QED
  BY <1>2 DEF Sound, Shaped

LEMMA VisitStep ==
  ASSUME IInv, pc = "pass", todo # <<>>, pc' = "pass",
         UNCHANGED <<marking, collecting, instance, closing, doomed>>,
         NEW a \in Finalizing, a = Head(todo), NEW x, NEW b, Visit(x, a, b),
         NEW D, D = destroyed \cap Objects(x), NEW out, out = {},
         NEW W, Sound(x, out, TRUE, TRUE, W, held, D), Turn(x, a, b, W)
  PROVE  IInv'
<1>1. /\ a \in Small /\ a \in Allocs /\ a # Large /\ a \notin Plain /\ a \notin Range(Tail(todo))
      /\ Using \subseteq h.passed \cup Range(todo) \cup {Large}
      /\ \A c \in Range(Tail(todo)) : c \in h.passed => c = Float
      /\ a # Float
  BY PassState, Kinds, BlocksAssumption
<1>2. collecting' = TRUE /\ marking' = TRUE /\ doomed' = doomed /\ instance' = instance
      /\ closing' = closing
  BY CollectState
<1>3. /\ Budgeted(x) /\ \A c \in Small : x.quick[c] = {}
      /\ x.passed = h.passed \cup {a}
      /\ \A c \in Allocs \ {a} : \A e \in Own(x, c) : e \in W <=> c \in Range(Tail(todo))
      /\ \A i \in doomed : \/ i \in Objects(x) /\ x.bits[i] = "none" /\ i[1] \in W \cup SweepOf(x)
                           \/ i[1] \in x.empty
  BY DEF Turn
<1>4. x \in AllocatorState /\ Listed(x) /\ Placed(x, {})
  BY DEF Sound, Shaped
<1>5. CASE b = None
  <2>1. h' = x /\ held' = held /\ destroyed' = D /\ Done
    BY <1>5 DEF Visit, Become
  <2>2. Sound(h', {None}, TRUE, TRUE, W, held', destroyed')
    <3> DEFINE t == TRUE
    <3>1. Sound(x, out, t, t, W, held, D)
      OBVIOUS
    <3> HIDE DEF t
    <3>2. Sound(x, {None}, t, t, W, held, D)
      BY <3>1, MoreOut
    <3> QED
      BY <2>1, <3>2 DEF t
  <2>3. \A c \in Allocs : \A e \in Own(h', c) : e \in W <=> c \in Range(Tail(todo))
    BY <1>1, <1>3, <1>5, <2>1 DEF Turn
  <2>4. /\ Budgeted(h') /\ \A c \in Small : h'.quick[c] = {}
        /\ h'.passed \subseteq h.passed \cup {Head(todo)}
        /\ h.passed \cup {Head(todo)} \subseteq h'.passed \cup {Large}
        /\ \A i \in doomed :
             \/ i \in Objects(h') /\ h'.bits[i] = "none" /\ i[1] \in W \cup SweepOf(h')
             \/ i[1] \in h'.empty
    BY <1>3, <2>1
  <2> QED
    BY <2>1, <2>2, <2>3, <2>4, DoneStep
<1>6. CASE b # None
  <2> DEFINE y == [x EXCEPT !.avail[a] = @ \ {b}]
  <2>1. /\ h' = y /\ held' = held /\ destroyed' = destroyed \cap Objects(y)
        /\ at' = b /\ next' = After(x.list[a], b) /\ putOnFreeList' = (b \in x.avail[a])
        /\ todo' = todo
    BY <1>6 DEF Visit, Become
  <2>2. Unlisted(x, a, b, y)
    BY <1>1, <1>4, UnlistFields
  <2> HIDE DEF y
  <2>3. Sound(y, {b}, TRUE, TRUE, W, held, D) /\ Objects(y) = Objects(x) /\ SweepOf(y) = SweepOf(x)
    <3> DEFINE t == TRUE
    <3>1. Sound(x, out, t, t, W, held, D)
      OBVIOUS
    <3> HIDE DEF t
    <3>2. Sound(y, {b}, t, t, W, held, D) /\ Objects(y) = Objects(x) /\ SweepOf(y) = SweepOf(x)
      BY <1>1, <2>2, <3>1, UnlistSound
    <3> QED
      BY <3>2 DEF t
  <2>4. /\ y.list = x.list /\ y.quick = x.quick /\ y.budget = x.budget /\ y.obtained = x.obtained
        /\ y.free = x.free /\ y.bits = x.bits /\ y.empty = x.empty /\ y.passed = x.passed
        /\ y.avail[a] = x.avail[a] \ {b}
        /\ \A c \in Allocs : Own(y, c) = Own(x, c)
    BY <1>1, <2>2 DEF Unlisted, Own
  <2>5. /\ b \in Own(x, a)
        /\ \A e \in Own(x, a) : e \in W <=> e = b \/ Before(x.list[a], b, e)
    BY <1>6 DEF Turn
  <2>6. b \in Block /\ x.list[a] \in Seq(Block) /\ IsInjective(x.list[a])
    BY <1>1, <1>4, <2>5, OwnType DEF Listed
  <2>7. \/ next' = None /\ \A e : ~Before(x.list[a], b, e)
        \/ /\ next' \in Own(x, a) /\ Before(x.list[a], b, next')
           /\ \A e : Before(x.list[a], b, e) => e = next' \/ Before(x.list[a], next', e)
    <3>1. \/ After(x.list[a], b) = None /\ \A e : ~Before(x.list[a], b, e)
          \/ /\ After(x.list[a], b) \in Own(x, a) /\ Before(x.list[a], b, After(x.list[a], b))
             /\ \A e : Before(x.list[a], b, e) =>
                  e = After(x.list[a], b) \/ Before(x.list[a], After(x.list[a], b), e)
      BY <2>5, <2>6, AfterOrder DEF Own
    <3> QED
      BY <2>1, <3>1
  <2>8. next' \in Block \cup {None}
    <3>1. Own(x, a) \subseteq Block
      BY <1>1, <1>4, OwnType
    <3> QED
      BY <2>7, <3>1
  <2>9. \A e \in AllBlocks(h') : e \in W <=> e \in ToVisit(h)'
    <3> TAKE e \in AllBlocks(h')
    <3>1. PICK c \in Allocs : e \in Own(y, c)
      BY <2>1 DEF AllBlocks
    <3>2. e \in Own(x, c) /\ Listed(y)
      BY <2>3, <2>4, <3>1 DEF Sound, Shaped
    <3>3. e \in ToVisit(h)' <=> e \in Ahead(h, c)'
      <4>1. \A d \in Allocs : e \in Ahead(h, d)' => e \in Own(h', d)
        BY DEF Ahead, Own
      <4>2. \A d \in Allocs : e \in Own(h', d) => d = c
        BY <2>1, <3>1, <3>2 DEF Listed
      <4> QED
        BY <3>1, <4>1, <4>2 DEF ToVisit
    <3>4. CASE c = a
      <4>1. e \in Ahead(h, c)' <=> e = b \/ (next' # None /\ Before(x.list[a], b, e))
        BY <1>1, <1>6, <2>1, <2>4, <3>1, <3>4 DEF Ahead, Own, Before
      <4>2. e \in W <=> e = b \/ Before(x.list[a], b, e)
        BY <2>5, <3>2, <3>4
      <4>3. CASE next' = None
        <5>1. Own(x, a) \subseteq Block
          BY <1>1, <1>4, OwnType
        <5>2. ~Before(x.list[a], b, e)
          BY <2>7, <4>3, <5>1, BlocksAssumption
        <5> QED
          BY <3>3, <4>1, <4>2, <5>2
      <4>4. CASE next' # None
        BY <3>3, <4>1, <4>2, <4>4
      <4> QED
        BY <4>3, <4>4
    <3>5. CASE c # a
      <4>1. e \in Ahead(h, c)' <=> c \in Range(Tail(todo))
        BY <1>1, <2>1, <3>1, <3>5 DEF Ahead, Own
      <4> QED
        BY <1>3, <3>2, <3>3, <3>5, <4>1
    <3> QED
      BY <3>4, <3>5
  <2>10. /\ D = destroyed' /\ Shaped(y, {b})
    BY <2>1, <2>3 DEF Sound
  <2>11. Found(h)'
    <3>1. \A i \in doomed' :
            \/ i \in Objects(h') /\ h'.bits[i] = "none" /\ i[1] \in W \cup SweepOf(h')
            \/ i[1] \in h'.empty
      BY <1>2, <1>3, <2>1, <2>3, <2>4
    <3> QED
      BY <2>1, <2>9, <2>10, <3>1, FoundIn
  <2>12. Between(h, destroyed, a)'
    <3>1. b \in W /\ b \notin SweepOf(x)
      BY <2>5 DEF Sound, Tinted
    <3>2. b \in x.avail[a] <=> x.free[b] # {}
      BY <1>1, <1>4, <2>5, <3>1 DEF Placed, SweepOf
    <3>3. at' \in Own(y, a) \ y.avail[a]
      BY <1>1, <2>1, <2>4, <2>5
    <3>6. putOnFreeList' <=> y.free[b] # {}
      BY <2>1, <2>4, <3>2
    <3>4. next' # None =>
            /\ Before(y.list[a], b, next')
            /\ \A e \in Own(y, a) :
                 Before(y.list[a], b, e) => e = next' \/ Before(y.list[a], next', e)
      BY <2>4, <2>7
    <3>5. a \in y.passed
      BY <1>3, <2>4
    <3> QED
      BY <1>6, <2>1, <3>3, <3>4, <3>5, <3>6 DEF Between, Own, Before
  <2>13. Cursor(h, destroyed)'
    <3>1. Using' = Using
      BY <1>2 DEF Using
    <3>2. Using \subseteq y.passed \cup Range(todo) \cup {Large}
      BY <1>1, <1>3, <2>4
    <3>3. \A c \in Range(Tail(todo)) : c \in y.passed => c = Float
      BY <1>1, <1>3, <2>4
    <3>4. Between(h, destroyed, Head(todo))'
      BY <2>1, <2>12
    <3> QED
      BY <1>1, <2>1, <3>1, <3>2, <3>3, <3>4 DEF Cursor
  <2>14. /\ instance \in Instances /\ closing \in BOOLEAN /\ doomed \in SUBSET Item
         /\ todo \in Remainders(instance.order)
    BY DEF IInv, TypeOK
  <2>15. Sound(h', {at'}, TRUE, TRUE, W, held', destroyed')
    BY <2>1, <2>3, <2>10
  <2>16. Budgeted(h') /\ \A c \in Small : h'.quick[c] = {}
    BY <1>3, <2>1, <2>4 DEF Budgeted, Accounted
  <2>17. /\ {at', next'} \subseteq Block \cup {None} /\ todo' \in Remainders(instance.order)
         /\ pc' # "presweep" /\ pc' # "final" /\ pc' \in {"presweep", "pass", "final"}
         /\ putOnFreeList' \in BOOLEAN /\ closing' \in BOOLEAN /\ doomed' \in SUBSET Item
         /\ todo' # <<>>
    BY <1>2, <2>1, <2>6, <2>8, <2>14
  <2> QED
    BY <1>2, <2>9, <2>11, <2>13, <2>15, <2>16, <2>17, PassStep
<1> QED
  BY <1>5, <1>6

\* The allocators g, except for what is passed.
Repassed(g, P, x) ==
  /\ x \in AllocatorState /\ x.list = g.list /\ x.avail = g.avail /\ x.sweep = g.sweep
  /\ x.quick = g.quick /\ x.budget = g.budget /\ x.obtained = g.obtained
  /\ x.free = g.free /\ x.bits = g.bits /\ x.fin = g.fin /\ x.seen = g.seen
  /\ x.empty = g.empty /\ x.passed = P

LEMMA RepassFields ==
  ASSUME NEW g \in AllocatorState, NEW P \in SUBSET Allocs
  PROVE  Repassed(g, P, [g EXCEPT !.passed = P])
<1>1. [g EXCEPT !.passed = P] \in AllocatorState
  BY DEF AllocatorState
<1> QED
  BY <1>1 DEF Repassed, AllocatorState

LEMMA RepassSound ==
  ASSUME NEW g, NEW out, NEW c, NEW m, NEW V, NEW R, NEW D, Sound(g, out, c, m, V, R, D),
         NEW P, NEW x, Repassed(g, P, x)
  PROVE  /\ Sound(x, out, c, m, V, R, D)
         /\ Budgeted(g) => Budgeted(x)
         /\ Objects(x) = Objects(g) /\ SweepOf(x) = SweepOf(g)
<1>1. /\ g \in AllocatorState /\ Listed(g) /\ Placed(g, out) /\ Owned(g)
      /\ Tinted(g, c, m, V) /\ Sheltered(g, R, D, V)
  BY DEF Sound, Shaped
<1>2. /\ x \in AllocatorState /\ x.list = g.list /\ x.avail = g.avail /\ x.sweep = g.sweep
      /\ x.quick = g.quick /\ x.budget = g.budget /\ x.obtained = g.obtained
      /\ x.free = g.free /\ x.bits = g.bits /\ x.fin = g.fin /\ x.seen = g.seen
      /\ x.empty = g.empty
  BY DEF Repassed
<1>3. /\ \A a : Own(x, a) = Own(g, a)
      /\ SmallBlocks(x) = SmallBlocks(g) /\ SweepOf(x) = SweepOf(g) /\ Objects(x) = Objects(g)
  BY <1>2 DEF Own, SmallBlocks, SweepOf, Objects
<1>4. Listed(x)
  BY <1>1, <1>2, <1>3 DEF Listed
<1>5. Placed(x, out)
  BY <1>1, <1>2, <1>3 DEF Placed
<1>6. Owned(x)
  BY <1>1, <1>2, <1>3 DEF Owned
<1>7. Tinted(x, c, m, V)
  BY <1>1, <1>2, <1>3 DEF Tinted
<1>8. Sheltered(x, R, D, V)
  BY <1>1, <1>2, <1>3 DEF Sheltered
<1>9. Budgeted(g) => Budgeted(x)
  BY <1>2 DEF Budgeted, Accounted
<1> QED
  BY <1>2, <1>3, <1>4, <1>5, <1>6, <1>7, <1>8, <1>9 DEF Sound, Shaped

\* No block is out at the place before the first one.
LEMMA NoneOut ==
  ASSUME NEW g, NEW c, NEW m, NEW V, NEW R, NEW D, Sound(g, {None}, c, m, V, R, D),
         NEW out, out = {}
  PROVE  Sound(g, out, c, m, V, R, D)
<1>1. g \in AllocatorState /\ Placed(g, {None})
  BY DEF Sound, Shaped
<1>2. \A a \in Small : None \notin Own(g, a)
  BY <1>1, OwnType, Kinds, BlocksAssumption
<1>3. Placed(g, out)
  BY <1>1, <1>2 DEF Placed
<1> QED
  BY <1>3 DEF Sound, Shaped

LEMMA BeginPassStep ==
  ASSUME IInv, NEW a \in Finalizing, BeginFinalizationPass(a)
  PROVE  IInv'
<1> DEFINE P == h.passed \cup {a}
<1> DEFINE x == [h EXCEPT !.passed = P]
<1> DEFINE b == After(h.list[a], None)
<1> DEFINE V == ToVisit(h)
<1>1. /\ pc = "pass" /\ todo # <<>> /\ a = Head(todo) /\ a \notin h.passed /\ pc' = "pass"
      /\ UNCHANGED <<marking, collecting, instance, closing, doomed>>
  BY DEF BeginFinalizationPass, Passing, phase
<1>2. Visit(x, a, b)
  BY Fields DEF BeginFinalizationPass
<1>3. a \in Small /\ a \in Allocs /\ a # Large
  BY Kinds
<1>4. h \in AllocatorState /\ collecting = TRUE /\ marking = TRUE /\ P \in SUBSET Allocs
  BY <1>1, <1>3, CollectState, Fields DEF IInv, Shaped
<1>5. Repassed(h, P, x)
  BY <1>4, RepassFields
<1>6. at = None /\ next = None
  BY <1>1, PassState DEF Between
<1>7. Sound(h, {None}, TRUE, TRUE, V, held, destroyed) /\ Budgeted(h)
  BY <1>4, <1>6 DEF IInv, Sound
<1>8. \A c \in Small : h.quick[c] = {}
  BY <1>1 DEF IInv, PhaseInv
<1>9. /\ \A c \in Allocs \ {a} : \A e \in Own(h, c) : e \in V <=> c \in Range(Tail(todo))
      /\ \A e \in Own(h, a) : e \in V
  BY <1>1, <1>3, <1>6, PassToVisit
<1>10. \/ b = None /\ Own(h, a) = {}
       \/ /\ b \in Own(h, a)
          /\ \A y \in Own(h, a) : y = b \/ Before(h.list[a], b, y)
  <2>1. h.list[a] \in Seq(Block) /\ IsInjective(h.list[a])
    BY <1>3, <1>7, OwnType DEF Sound, Shaped, Listed
  <2> QED
    BY <2>1, AfterNone DEF Own
<1> HIDE DEF P, x, b, V
<1>11. Sound(x, {None}, TRUE, TRUE, V, held, destroyed) /\ Budgeted(x)
       /\ Objects(x) = Objects(h) /\ SweepOf(x) = SweepOf(h)
  <2> DEFINE t == TRUE
  <2> DEFINE o == {None}
  <2>1. Sound(h, o, t, t, V, held, destroyed)
    BY <1>7
  <2> HIDE DEF t, o
  <2>2. Sound(x, o, t, t, V, held, destroyed) /\ Budgeted(x)
        /\ Objects(x) = Objects(h) /\ SweepOf(x) = SweepOf(h)
    BY <1>5, <1>7, <2>1, RepassSound
  <2> QED
    BY <2>2 DEF t, o
<1>12. /\ x.list = h.list /\ x.quick = h.quick /\ x.bits = h.bits /\ x.empty = h.empty
       /\ x.passed = h.passed \cup {a} /\ \A c : Own(x, c) = Own(h, c)
  BY <1>5 DEF Repassed, Own, P
<1>13. Turn(x, a, b, V)
  <2>1. \A i \in doomed : \/ i \in Objects(x) /\ x.bits[i] = "none" /\ i[1] \in V \cup SweepOf(x)
                          \/ i[1] \in x.empty
    BY <1>1, <1>11, <1>12 DEF IInv, Found, V
  <2>2. b # None => /\ b \in Own(x, a)
                    /\ \A e \in Own(x, a) : e \in V <=> e = b \/ Before(x.list[a], b, e)
    BY <1>9, <1>10, <1>12
  <2>3. b = None => \A e \in Own(x, a) : e \notin V
    <3>1. b = None => Own(h, a) = {}
      BY <1>3, <1>4, <1>10, OwnType, BlocksAssumption
    <3> QED
      BY <1>12, <3>1
  <2> QED
    BY <1>8, <1>9, <1>11, <1>12, <2>1, <2>2, <2>3 DEF Turn
<1> DEFINE D == destroyed \cap Objects(x)
<1> DEFINE out == {}
<1>14. D = destroyed
  BY <1>11 DEF Sound, Sheltered
<1>15. D = destroyed \cap Objects(x) /\ out = {}
  OBVIOUS
<1> HIDE DEF D, out
<1>16. Sound(x, out, TRUE, TRUE, V, held, D)
  <2> DEFINE t == TRUE
  <2>1. Sound(x, {None}, t, t, V, held, D)
    BY <1>11, <1>14
  <2> HIDE DEF t
  <2>2. Sound(x, out, t, t, V, held, D)
    BY <1>15, <2>1, NoneOut
  <2> QED
    BY <2>2 DEF t
<1> QED
  BY <1>1, <1>2, <1>13, <1>15, <1>16, VisitStep

(***************************************************************************)
(* The pass leaves a block.                                                *)
(***************************************************************************)

\* x is g after the pass has left block b of a: if b is in L, it is to be swept,
\* and otherwise it is without marks and on the free list if it has free items.
Left(g, a, b, L, x) ==
  /\ x \in AllocatorState /\ x.list = g.list /\ x.quick = g.quick
  /\ x.budget = g.budget /\ x.obtained = g.obtained
  /\ x.free = g.free /\ x.fin = g.fin /\ x.empty = g.empty /\ x.passed = g.passed
  /\ \A e \in Block : x.seen[e] <=> e = b \/ g.seen[e]
  /\ \A c \in Small :
       /\ x.avail[c] = g.avail[c] \cup {e \in {b} : c = a /\ b \notin L /\ g.free[e] # {}}
       /\ x.sweep[c] = g.sweep[c] \cup {e \in {b} : c = a /\ b \in L}
  /\ \A i \in Item : x.bits[i] = IF b \notin L /\ i[1] = b /\ g.bits[i] = "mark"
                                 THEN "none" ELSE g.bits[i]

\* What the pass keeps when it leaves block b.
StillThere(g, b, L, x) ==
  /\ Objects(x) = Objects(g)
  /\ SweepOf(x) = SweepOf(g) \cup {e \in {b} : b \in L}
  /\ Budgeted(g) => Budgeted(x)

\* The pass is in block b of a and leaves W to be visited.
Leaves(g, a, b, bs, V, W, out) ==
  /\ b \in Own(g, a) /\ b \in V /\ b \notin g.avail[a] /\ bs = {b}
  /\ \A d \in Small : g.quick[d] = {}
  /\ W = V \ bs /\ out = {}

LEMMA LeftSound ==
  ASSUME NEW g, NEW c, c = TRUE, NEW bs, NEW V, NEW R, NEW D, Sound(g, bs, c, c, V, R, D),
         NEW a \in Small, NEW b, NEW W, NEW out, Leaves(g, a, b, bs, V, W, out),
         NEW L, NEW x, Left(g, a, b, L, x)
  PROVE  Sound(x, out, c, c, W, R, D) /\ StillThere(g, b, L, x)
<1>0. /\ b \in Own(g, a) /\ b \in V /\ b \notin g.avail[a] /\ bs = {b}
      /\ \A d \in Small : g.quick[d] = {}
      /\ W = V \ {b} /\ out = {}
  BY DEF Leaves
<1> USE <1>0
<1>1. /\ g \in AllocatorState /\ Listed(g) /\ Placed(g, {b}) /\ Owned(g)
      /\ Tinted(g, c, c, V) /\ Sheltered(g, R, D, V)
  BY <1>0 DEF Sound, Shaped
<1>2. /\ x \in AllocatorState /\ x.list = g.list /\ x.quick = g.quick
      /\ x.budget = g.budget /\ x.obtained = g.obtained
      /\ x.free = g.free /\ x.fin = g.fin /\ x.empty = g.empty
      /\ \A e \in Block : x.seen[e] <=> e = b \/ g.seen[e]
      /\ \A d \in Small :
           /\ x.avail[d] = g.avail[d] \cup {e \in {b} : d = a /\ b \notin L /\ g.free[e] # {}}
           /\ x.sweep[d] = g.sweep[d] \cup {e \in {b} : d = a /\ b \in L}
      /\ \A i \in Item : x.bits[i] = IF b \notin L /\ i[1] = b /\ g.bits[i] = "mark"
                                     THEN "none" ELSE g.bits[i]
  BY DEF Left
<1>3. (\A d : Own(x, d) = Own(g, d)) /\ SmallBlocks(x) = SmallBlocks(g)
  BY <1>2 DEF Own, SmallBlocks
<1>4. \A i \in Item : /\ x.bits[i] = "free" <=> g.bits[i] = "free"
                      /\ x.bits[i] \in {"mark", "queued"} => x.bits[i] = g.bits[i]
  BY <1>2
<1>5. Objects(x) = Objects(g)
  BY <1>3, <1>4 DEF Objects
<1>6. SweepOf(x) = SweepOf(g) \cup {e \in {b} : b \in L}
  BY <1>2 DEF SweepOf
<1>7. b \in Block /\ b \in SmallBlocks(g) /\ b \notin SweepOf(g)
  <2>1. b \in Block
    BY <1>1, Kinds, OwnType
  <2> QED
    BY <1>1, <2>1 DEF Tinted, SmallBlocks
<1>8. Listed(x)
  BY <1>1, <1>2, <1>3 DEF Listed
<1>9. Placed(x, out)
  <2>1. ASSUME NEW d \in Small
        PROVE  /\ x.avail[d] \cap x.sweep[d] = {}
               /\ x.avail[d] \cup x.sweep[d] \subseteq Own(x, d)
               /\ x.quick[d] \subseteq (Own(x, d) \ x.sweep[d]) \X (1..N)
               /\ \A e \in x.avail[d] : x.free[e] # {}
    <3>1. /\ g.avail[d] \cap g.sweep[d] = {}
          /\ g.avail[d] \cup g.sweep[d] \subseteq Own(g, d)
          /\ \A e \in g.avail[d] : g.free[e] # {}
      BY <1>1 DEF Placed
    <3>2. b \notin g.sweep[d]
      BY <1>7 DEF SweepOf
    <3>3. x.quick[d] = {}
      BY <1>2
    <3> QED
      BY <1>2, <1>3, <3>1, <3>2, <3>3
  <2>2. ASSUME NEW d \in Small, NEW e \in Own(x, d)
        PROVE  x.free[e] = {} \/ e \in x.avail[d] \cup x.sweep[d] \cup out
    <3>1. g.free[e] = {} \/ e \in g.avail[d] \cup g.sweep[d] \cup {b}
      BY <1>1, <1>3 DEF Placed
    <3>2. e = b => d = a
      BY <1>1, <1>3, Kinds DEF Listed
    <3> QED
      BY <1>2, <3>1, <3>2
  <2>3. ASSUME NEW d \in Small, NEW e \in Own(x, d), NEW i \in 1..N
        PROVE  /\ ~(<<e, i>> \in x.quick[d] /\ i \in x.free[e])
               /\ x.bits[<<e, i>>] = "free" <=> <<e, i>> \in x.quick[d] \/ i \in x.free[e]
    <3>1. /\ ~(<<e, i>> \in g.quick[d] /\ i \in g.free[e])
          /\ g.bits[<<e, i>>] = "free" <=> <<e, i>> \in g.quick[d] \/ i \in g.free[e]
      BY <1>1, <1>3 DEF Placed
    <3>2. <<e, i>> \in Item
      BY <1>2, Kinds, OwnType, ItemOf
    <3> QED
      BY <1>2, <1>4, <3>1, <3>2
  <2> QED
    BY <2>1, <2>2, <2>3 DEF Placed
<1>10. Owned(x)
  <2>1. \A i \in Item : x.bits[i] \in {"mark", "queued"} => i \in Objects(x)
    BY <1>1, <1>4, <1>5 DEF Owned
  <2>2. \A e \in Block : x.seen[e] => e \in SmallBlocks(x) \cup x.empty
    BY <1>1, <1>2, <1>3, <1>7 DEF Owned
  <2>3. \A e \in Own(x, Large) : x.bits[<<e, 1>>] # "free"
    BY <1>1, <1>3, <1>4, Kinds, OwnType, ItemOf DEF Owned
  <2>4. \A d \in Allocs \ Using : Own(x, d) = {}
    BY <1>1, <1>3 DEF Owned
  <2> QED
    BY <2>1, <2>2, <2>3, <2>4 DEF Owned
<1>11. Tinted(x, c, c, W)
  <2>1. \A e \in SmallBlocks(x) : x.seen[e] <=> c /\ e \notin W
    <3>1. SmallBlocks(x) \subseteq Block
      BY <1>2, Kinds, OwnType DEF SmallBlocks
    <3> QED
      BY <1>1, <1>2, <1>3, <3>1 DEF Tinted
  <2>2. \A i \in Item : x.bits[i] = "mark" => i[1] \in W \cup SweepOf(x)
    BY <1>1, <1>2, <1>6 DEF Tinted
  <2>3. \A i \in Item : x.bits[i] = "queued" => c /\ ~c
    BY <1>1, <1>4 DEF Tinted
  <2>4. W \cap SweepOf(x) = {}
    BY <1>1, <1>6 DEF Tinted
  <2> QED
    BY <2>1, <2>2, <2>3, <2>4 DEF Tinted
<1>12. Sheltered(x, R, D, W)
  <2>1. \A i \in R : i[1] \in W \cup SweepOf(x) => x.bits[i] = "mark"
    <3> TAKE i \in R
    <3>1. i \in Item /\ (i[1] \in V \cup SweepOf(g) => g.bits[i] = "mark")
      BY <1>1, ObjectsOf DEF Sheltered
    <3> QED
      BY <1>2, <1>6, <1>7, <3>1
  <2> QED
    BY <1>1, <1>2, <1>5, <2>1 DEF Sheltered
<1>13. Budgeted(g) => Budgeted(x)
  BY <1>2 DEF Budgeted, Accounted
<1> QED
  BY <1>2, <1>5, <1>6, <1>8, <1>9, <1>10, <1>11, <1>12, <1>13 DEF Sound, Shaped, StillThere

\* A block that is on no list may as well not be out, nor to be visited.
LEMMA GoneSound ==
  ASSUME NEW x, NEW c, NEW m, NEW V, NEW R, NEW D, NEW bs, Sound(x, bs, c, m, V, R, D),
         bs \cap AllBlocks(x) = {}, NEW out, NEW W, W = V \ bs
  PROVE  Sound(x, out, c, m, W, R, D)
<1>1. /\ x \in AllocatorState /\ Listed(x) /\ Placed(x, bs) /\ Owned(x)
      /\ Tinted(x, c, m, V) /\ Sheltered(x, R, D, V)
  BY DEF Sound, Shaped
<1>2. SmallBlocks(x) \subseteq AllBlocks(x) /\ \A a \in Small : Own(x, a) \subseteq AllBlocks(x)
  BY Kinds DEF SmallBlocks, AllBlocks
<1>3. Placed(x, out)
  <2>1. \A a \in Small : \A b \in Own(x, a) : b \notin bs
    BY <1>2
  <2> QED
    BY <1>1, <2>1 DEF Placed
<1>4. \A i \in Objects(x) : i[1] \in AllBlocks(x)
  BY <1>1, <1>2, ObjectsOf, Kinds DEF AllBlocks
<1>5. Tinted(x, c, m, W)
  <2>1. \A i \in Item : x.bits[i] = "mark" => i[1] \in W \cup SweepOf(x)
    BY <1>1, <1>4 DEF Tinted, Owned
  <2>2. \A b \in SmallBlocks(x) : x.seen[b] <=> c /\ b \notin W
    BY <1>1, <1>2 DEF Tinted
  <2> QED
    BY <1>1, <2>1, <2>2 DEF Tinted
<1>6. Sheltered(x, R, D, W)
  BY <1>1 DEF Sheltered
<1> QED
  BY <1>1, <1>3, <1>5, <1>6 DEF Sound, Shaped

\* The marks of block b, and whether all its objects have one.
Marked(g, b) == {i \in 1..N : g.bits[<<b, i>>] = "mark"}
Full(g, b) == Cardinality(Marked(g, b)) = N - Cardinality(g.free[b])

\* x is g after the pass has taken block b, which has no mark, off the lists.
Removed(g, b, x) ==
  /\ x \in AllocatorState
  /\ \A c \in Allocs : x.list[c] = Without(g.list[c], {b})
  /\ \A c \in Small : x.avail[c] = g.avail[c] \ {b}
  /\ x.sweep = g.sweep /\ x.quick = g.quick
  /\ x.budget = g.budget /\ x.obtained = g.obtained
  /\ x.free = g.free /\ x.bits = g.bits /\ x.fin = g.fin /\ x.passed = g.passed
  /\ \A e \in Block : e # b => x.seen[e] = g.seen[e]
  /\ x.empty = g.empty \cup {b}

LEMMA RemovedFields ==
  ASSUME NEW g \in AllocatorState, NEW b \in Block, NEW v \in BOOLEAN
  PROVE  Removed(g, b, [Unlink([g EXCEPT !.seen[b] = v], {b}) EXCEPT !.empty = @ \cup {b}])
<1> DEFINE y == [g EXCEPT !.seen[b] = v]
<1> DEFINE z == Unlink(y, {b})
<1> DEFINE x == [z EXCEPT !.empty = @ \cup {b}]
<1>1. /\ y \in AllocatorState /\ y.list = g.list /\ y.avail = g.avail /\ y.sweep = g.sweep
      /\ y.quick = g.quick /\ y.budget = g.budget /\ y.obtained = g.obtained
      /\ y.free = g.free /\ y.bits = g.bits /\ y.fin = g.fin /\ y.passed = g.passed
      /\ y.empty = g.empty /\ \A e \in Block : e # b => y.seen[e] = g.seen[e]
  BY DEF AllocatorState
<1> HIDE DEF y
<1>2. /\ z.list = [a \in Allocs |-> Without(y.list[a], {b})]
      /\ z.avail = [a \in Small |-> y.avail[a] \ {b}]
      /\ z.sweep = y.sweep /\ z.quick = y.quick
      /\ z.budget = y.budget /\ z.obtained = y.obtained
      /\ z.free = y.free /\ z.bits = y.bits /\ z.fin = y.fin /\ z.seen = y.seen
      /\ z.passed = y.passed /\ z.empty = y.empty
      /\ z \in AllocatorState
  BY <1>1, UnlinkFields
<1> HIDE DEF z
<1>3. /\ x \in AllocatorState /\ x.list = z.list /\ x.avail = z.avail /\ x.sweep = z.sweep
      /\ x.quick = z.quick /\ x.budget = z.budget /\ x.obtained = z.obtained
      /\ x.free = z.free /\ x.bits = z.bits /\ x.fin = z.fin /\ x.passed = z.passed
      /\ x.seen = z.seen /\ x.empty = z.empty \cup {b}
  BY <1>2 DEF AllocatorState
<1> HIDE DEF x
<1>4. Removed(g, b, x)
  BY <1>1, <1>2, <1>3 DEF Removed
<1> QED
  BY <1>4 DEF x, y, z

LEMMA OutcomeIs ==
  ASSUME NEW g \in AllocatorState, NEW a \in Small, NEW b \in Block,
         putOnFreeList <=> g.free[b] # {}, NEW x, x = Outcome(g, a, b)
  PROVE  \/ Marked(g, b) = {} /\ Removed(g, b, x)
         \/ \E L : (b \notin L => Full(g, b)) /\ Left(g, a, b, L, x)
<1> DEFINE y == [g EXCEPT !.seen[b] = TRUE]
<1>1. /\ y \in AllocatorState /\ y.list = g.list /\ y.avail = g.avail /\ y.sweep = g.sweep
      /\ y.quick = g.quick /\ y.budget = g.budget /\ y.obtained = g.obtained
      /\ y.free = g.free /\ y.bits = g.bits /\ y.fin = g.fin /\ y.passed = g.passed
      /\ y.empty = g.empty /\ \A e \in Block : y.seen[e] <=> e = b \/ g.seen[e]
  BY DEF AllocatorState
<1> DEFINE cleared == [i \in Item |-> IF i[1] = b /\ y.bits[i] = "mark" THEN "none" ELSE y.bits[i]]
<1> DEFINE z == [y EXCEPT !.bits = cleared]
<1> DEFINE w == [z EXCEPT !.avail[a] = @ \cup {b}]
<1> DEFINE s == [y EXCEPT !.sweep[a] = @ \cup {b}]
<1>2. \/ Marked(g, b) = {} /\ x = [Unlink(y, {b}) EXCEPT !.empty = @ \cup {b}]
      \/ Full(g, b) /\ x = IF putOnFreeList THEN w ELSE z
      \/ x = s
  BY Zenon DEF Outcome, Marked, Full
<1>3. CASE Marked(g, b) = {} /\ x = [Unlink(y, {b}) EXCEPT !.empty = @ \cup {b}]
  <2>1. Removed(g, b, [Unlink(y, {b}) EXCEPT !.empty = @ \cup {b}])
    BY RemovedFields
  <2> QED
    BY <1>3, <2>1
<1> HIDE DEF y
<1>4. CASE Full(g, b) /\ x = IF putOnFreeList THEN w ELSE z
  <2>1. cleared \in [Item -> {"none", "mark", "queued", "free"}]
    BY <1>1, Fields
  <2>2. \A i \in Item : cleared[i] = IF i[1] = b /\ g.bits[i] = "mark" THEN "none" ELSE g.bits[i]
    BY <1>1
  <2> HIDE DEF cleared
  <2>3. /\ z \in AllocatorState /\ z.list = g.list /\ z.avail = g.avail /\ z.sweep = g.sweep
        /\ z.quick = g.quick /\ z.budget = g.budget /\ z.obtained = g.obtained
        /\ z.free = g.free /\ z.bits = cleared /\ z.fin = g.fin /\ z.passed = g.passed
        /\ z.empty = g.empty /\ z.seen = y.seen
    BY <1>1, <2>1 DEF AllocatorState
  <2> HIDE DEF z
  <2>4. /\ w \in AllocatorState /\ w.list = g.list /\ w.sweep = g.sweep
        /\ w.quick = g.quick /\ w.budget = g.budget /\ w.obtained = g.obtained
        /\ w.free = g.free /\ w.bits = cleared /\ w.fin = g.fin /\ w.passed = g.passed
        /\ w.empty = g.empty /\ w.seen = y.seen
        /\ \A c \in Small : w.avail[c] = IF c = a THEN g.avail[c] \cup {b} ELSE g.avail[c]
    BY <2>3 DEF AllocatorState
  <2> HIDE DEF w
  <2> DEFINE L == {}
  <2>5. b \notin L
    OBVIOUS
  <2> HIDE DEF L
  <2>6. CASE putOnFreeList
    <3>1. g.free[b] # {} /\ x = w
      BY <1>4, <2>6
    <3>2. \A c \in Small :
            /\ x.avail[c] = g.avail[c] \cup {e \in {b} : c = a /\ b \notin L /\ g.free[e] # {}}
            /\ x.sweep[c] = g.sweep[c] \cup {e \in {b} : c = a /\ b \in L}
      BY <2>4, <2>5, <3>1
    <3>3. Left(g, a, b, L, x)
      BY <1>1, <2>2, <2>4, <2>5, <3>1, <3>2 DEF Left
    <3> QED
      BY <1>4, <2>5, <3>3
  <2>7. CASE ~putOnFreeList
    <3>1. g.free[b] = {} /\ x = z
      BY <1>4, <2>7
    <3>2. \A c \in Small :
            /\ x.avail[c] = g.avail[c] \cup {e \in {b} : c = a /\ b \notin L /\ g.free[e] # {}}
            /\ x.sweep[c] = g.sweep[c] \cup {e \in {b} : c = a /\ b \in L}
      BY <2>3, <2>5, <3>1
    <3>3. Left(g, a, b, L, x)
      BY <1>1, <2>2, <2>3, <2>5, <3>1, <3>2 DEF Left
    <3> QED
      BY <1>4, <2>5, <3>3
  <2> QED
    BY <2>6, <2>7
<1>5. CASE x = s
  <2>1. /\ s \in AllocatorState /\ s.list = g.list /\ s.avail = g.avail
        /\ s.quick = g.quick /\ s.budget = g.budget /\ s.obtained = g.obtained
        /\ s.free = g.free /\ s.bits = g.bits /\ s.fin = g.fin /\ s.passed = g.passed
        /\ s.empty = g.empty /\ s.seen = y.seen
        /\ \A c \in Small : s.sweep[c] = IF c = a THEN g.sweep[c] \cup {b} ELSE g.sweep[c]
    BY <1>1 DEF AllocatorState
  <2> HIDE DEF s
  <2> DEFINE L == {b}
  <2>2. b \in L
    OBVIOUS
  <2> HIDE DEF L
  <2>3. \A c \in Small :
          /\ x.avail[c] = g.avail[c] \cup {e \in {b} : c = a /\ b \notin L /\ g.free[e] # {}}
          /\ x.sweep[c] = g.sweep[c] \cup {e \in {b} : c = a /\ b \in L}
    BY <1>5, <2>1, <2>2
  <2>4. Left(g, a, b, L, x)
    BY <1>1, <1>5, <2>1, <2>2, <2>3 DEF Left
  <2> QED
    BY <2>2, <2>4
<1> QED
  BY <1>2, <1>3, <1>4, <1>5

\* In a block whose objects are all marked, every item is free or marked.
LEMMA FullMarked ==
  ASSUME NEW g \in AllocatorState, NEW b \in Block, Full(g, b),
         Marked(g, b) \cap g.free[b] = {}, NEW k \in 1..N
  PROVE  k \in Marked(g, b) \/ k \in g.free[b]
<1> DEFINE M == Marked(g, b)
<1> DEFINE F == g.free[b]
<1>1. N \in Nat /\ IsFiniteSet(1..N) /\ Cardinality(1..N) = N
  <2>1. N \in Nat
    BY BlocksAssumption
  <2> QED
    BY <2>1, UpTo
<1>2. M \subseteq 1..N /\ F \subseteq 1..N
  BY Fields DEF Marked
<1>3. /\ IsFiniteSet(M) /\ IsFiniteSet(F) /\ Cardinality(M) \in Nat /\ Cardinality(F) \in Nat
  BY <1>1, <1>2, FS_Subset, FS_CardinalityType
<1>4. M \cap F = {} /\ Cardinality(M) = N - Cardinality(F)
  BY DEF Full
<1> HIDE DEF M, F
<1>5. IsFiniteSet(M \cup F) /\ Cardinality(M \cup F) = N
  <2>1. Cardinality(M \cap F) = 0
    BY <1>4, FS_EmptySet
  <2>2. /\ IsFiniteSet(M \cup F)
        /\ Cardinality(M \cup F) = Cardinality(M) + Cardinality(F) - Cardinality(M \cap F)
    BY <1>3, FS_Union
  <2> QED
    BY <1>1, <1>3, <1>4, <2>1, <2>2
<1>6. M \cup F = 1..N
  <2>1. M \cup F \subseteq 1..N
    BY <1>2
  <2> QED
    BY <1>1, <1>5, <2>1, FS_Subset
<1> QED
  BY <1>6 DEF M, F

\* The place of the pass when it is in a block of a.
LEMMA InBlock ==
  ASSUME IInv, pc = "pass", todo # <<>>, NEW a \in Finalizing, a = Head(todo), a \in h.passed
  PROVE  /\ at \in Block /\ at # None /\ at \in Own(h, a) /\ at \notin h.avail[a]
         /\ at \in ToVisit(h) /\ at \notin SweepOf(h)
         /\ putOnFreeList <=> h.free[at] # {}
         /\ h.passed = h.passed \cup {a}
         /\ \/ next = None /\ \A e \in Own(h, a) : e \in ToVisit(h) <=> e = at
            \/ /\ next # None /\ next \in Own(h, a) /\ next # at
               /\ \A e \in Own(h, a) : e \in ToVisit(h) <=>
                    e = at \/ e = next \/ Before(h.list[a], next, e)
               /\ ~Before(h.list[a], next, at)
<1>1. a \in Small /\ a \in Allocs /\ a # Large
  BY Kinds
<1>2. h \in AllocatorState /\ Listed(h) /\ Tinted(h, collecting, marking, ToVisit(h))
  BY DEF IInv, Shaped
<1>3. Between(h, destroyed, a)
  BY PassState
<1>4. /\ at # None /\ at \in Own(h, a) /\ at \notin h.avail[a]
      /\ putOnFreeList <=> h.free[at] # {}
      /\ next # None => /\ Before(h.list[a], at, next)
                        /\ \A e \in Own(h, a) : Before(h.list[a], at, e) =>
                             e = next \/ Before(h.list[a], next, e)
  BY <1>3 DEF Between
<1>5. \A e \in Own(h, a) : e \in ToVisit(h) <=> e = at \/ (next # None /\ Before(h.list[a], at, e))
  BY <1>1, <1>4, PassToVisit
<1>6. Own(h, a) \subseteq Block /\ h.list[a] \in Seq(Block) /\ IsInjective(h.list[a])
  BY <1>1, <1>2, OwnType DEF Listed
<1>7. at \in ToVisit(h) /\ at \notin SweepOf(h)
  BY <1>2, <1>4, <1>5 DEF Tinted
<1>8. CASE next = None
  BY <1>4, <1>5, <1>6, <1>7, <1>8
<1>9. CASE next # None
  <2>1. /\ next \in Own(h, a) /\ next # at /\ ~Before(h.list[a], next, at)
        /\ \A e : Before(h.list[a], next, e) => Before(h.list[a], at, e)
    BY <1>4, <1>6, <1>9, Ordered DEF Own
  <2> QED
    BY <1>4, <1>5, <1>6, <1>7, <1>9, <2>1
<1> QED
  BY <1>8, <1>9

LEMMA LeaveBlockStep ==
  ASSUME IInv, NEW a \in Finalizing, LeaveBlock(a)
  PROVE  IInv'
<1> DEFINE V == ToVisit(h)
<1> DEFINE b == at
<1> DEFINE x == Outcome(h, a, b)
<1> DEFINE W == V \ {b}
<1> DEFINE out == {}
<1> DEFINE D == destroyed \cap Objects(x)
<1>1. /\ pc = "pass" /\ todo # <<>> /\ a = Head(todo) /\ a \in h.passed /\ pc' = "pass"
      /\ UNCHANGED <<marking, collecting, instance, closing, doomed>>
      /\ Visit(x, a, next)
  BY DEF LeaveBlock, Passing, phase
<1>2. a \in Small /\ a \in Allocs /\ a # Large
  BY Kinds
<1>3. h \in AllocatorState /\ collecting = TRUE /\ marking = TRUE /\ Listed(h) /\ Owned(h)
  BY <1>1, CollectState DEF IInv, Shaped
<1>4. Sound(h, {b}, TRUE, TRUE, V, held, destroyed) /\ Budgeted(h)
  BY <1>3 DEF IInv, Sound
<1>5. \A c \in Small : h.quick[c] = {}
  BY <1>1 DEF IInv, PhaseInv
<1>6. \A c \in Allocs \ {a} : \A e \in Own(h, c) : e \in V <=> c \in Range(Tail(todo))
  BY <1>1, PassToVisit
<1>7. /\ b \in Block /\ b # None /\ b \in Own(h, a) /\ b \notin h.avail[a]
      /\ b \in V /\ b \notin SweepOf(h)
      /\ putOnFreeList <=> h.free[b] # {}
      /\ h.passed = h.passed \cup {a}
      /\ \/ next = None /\ \A e \in Own(h, a) : e \in V <=> e = b
         \/ /\ next # None /\ next \in Own(h, a) /\ next # b
            /\ \A e \in Own(h, a) : e \in V <=> e = b \/ e = next \/ Before(h.list[a], next, e)
            /\ ~Before(h.list[a], next, b)
  BY <1>1, InBlock
<1>8. \A c \in Allocs \ {a} : b \notin Own(h, c)
  BY <1>2, <1>3, <1>7 DEF Listed
<1>9. \A i \in doomed : \/ i \in Objects(h) /\ h.bits[i] = "none" /\ i[1] \in V \cup SweepOf(h)
                        \/ i[1] \in h.empty
  BY <1>1 DEF IInv, Found
<1>10. Objects(h) \subseteq Item /\ \A i \in Objects(h) : i[1] = b => h.bits[i] # "free"
  <2>1. b \in SmallBlocks(h) /\ b \notin Own(h, Large)
    BY <1>2, <1>7, <1>8, Kinds DEF SmallBlocks
  <2> QED
    BY <1>3, <2>1, ObjectsOf
<1>11. out = {} /\ W = V \ {b} /\ D = destroyed \cap Objects(x)
  OBVIOUS
<1>12. x = Outcome(h, a, b)
  OBVIOUS
<1> HIDE DEF V, b, x, W, out, D
<1>13. \/ Marked(h, b) = {} /\ Removed(h, b, x)
       \/ \E L : (b \notin L => Full(h, b)) /\ Left(h, a, b, L, x)
  BY <1>2, <1>3, <1>7, <1>12, OutcomeIs
<1>14. ASSUME Marked(h, b) = {}, Removed(h, b, x)
       PROVE  Sound(x, out, TRUE, TRUE, W, held, D) /\ Turn(x, a, next, W)
  <2> DEFINE bs == {b}
  <2>1. Tinted(h, TRUE, TRUE, V) /\ Sheltered(h, held, destroyed, V)
    BY <1>4 DEF Sound
  <2>2. \A i \in Item : i[1] = b => h.bits[i] \notin {"mark", "queued"}
    <3> TAKE i \in Item
    <3>1. i[1] = b => h.bits[i] # "mark"
      BY <1>14, ItemOf DEF Marked
    <3> QED
      BY <2>1, <3>1 DEF Tinted
  <2>3. /\ x \in AllocatorState
        /\ \A c \in Allocs : x.list[c] = Without(h.list[c], bs)
        /\ \A c \in Small : x.avail[c] = h.avail[c] \ bs
        /\ x.sweep = h.sweep /\ x.quick = h.quick
        /\ x.budget = h.budget /\ x.obtained = h.obtained
        /\ x.free = h.free /\ x.bits = h.bits /\ x.fin = h.fin /\ x.passed = h.passed
        /\ \A e \in Block : e # b => x.seen[e] = h.seen[e]
        /\ x.empty = h.empty \cup {b}
    BY <1>14 DEF Removed
  <2>4. h.empty \cap AllBlocks(h) = {}
    BY <1>3 DEF Listed, AllBlocks
  <2>5. Taken(h, bs, x)
    <3>1. bs \in SUBSET Block /\ bs \cap SweepOf(h) = {}
      BY <1>7
    <3>2. \A c \in Small : \A i \in h.quick[c] : i[1] \notin bs
      BY <1>5
    <3>3. \A i \in Item : IF i[1] \in bs THEN x.bits[i] \notin {"mark", "queued"}
                          ELSE x.bits[i] = h.bits[i]
      BY <2>2, <2>3
    <3>4. h.empty \subseteq x.empty /\ x.empty \cap AllBlocks(h) \subseteq bs
          /\ (\A e \in bs : e \in x.empty)
          /\ \A e \in Block \ bs : x.free[e] = h.free[e] /\ x.seen[e] = h.seen[e]
      BY <2>3, <2>4
    <3> QED
      BY <2>3, <3>1, <3>2, <3>3, <3>4 DEF Taken
  <2>6. Spared(held, bs, held)
    <3>1. \A i \in held : i[1] # b
      <4> TAKE i \in held
      <4>1. i \in Item /\ (i[1] \in V => h.bits[i] = "mark")
        BY <1>10, <2>1 DEF Sheltered
      <4> QED
        BY <1>7, <2>2, <4>1
    <3> QED
      BY <3>1 DEF Spared
  <2>7. b \in bs /\ \A e : e \in bs <=> e = b
    OBVIOUS
  <2>8. W = V \ bs
    BY <1>11
  <2>9. Sound(h, bs, TRUE, TRUE, V, held, destroyed)
    BY <1>4
  <2> HIDE DEF bs
  <2>10. /\ \A c \in Allocs :
              /\ Own(x, c) = Own(h, c) \ bs
              /\ \A y, z : Before(x.list[c], y, z) <=>
                             Before(h.list[c], y, z) /\ y \notin bs /\ z \notin bs
         /\ AllBlocks(x) = AllBlocks(h) \ bs /\ SweepOf(x) = SweepOf(h)
    BY <1>3, <2>5, TakenLists
  <2>11. Sound(x, bs, TRUE, TRUE, V, held, D) /\ Budgeted(x) /\ Rest(h, bs, x)
    <3> DEFINE t == TRUE
    <3>1. Sound(h, bs, t, t, V, held, destroyed)
      BY <2>9
    <3> HIDE DEF t
    <3>2. /\ Sound(x, bs, t, t, V, held, destroyed \cap Objects(x))
          /\ Budgeted(h) => Budgeted(x)
          /\ Rest(h, bs, x)
      BY <2>5, <2>6, <3>1, TakenSound
    <3> QED
      BY <1>4, <1>11, <3>2 DEF t
  <2>12. Sound(x, out, TRUE, TRUE, W, held, D)
    <3> DEFINE t == TRUE
    <3>1. Sound(x, bs, t, t, V, held, D)
      BY <2>11
    <3> HIDE DEF t
    <3>2. bs \cap AllBlocks(x) = {}
      BY <2>10
    <3>3. Sound(x, out, t, t, W, held, D)
      BY <2>8, <3>1, <3>2, GoneSound
    <3> QED
      BY <3>3 DEF t
  <2>13. \A c \in Allocs \ {a} : \A e \in Own(x, c) : e \in W <=> c \in Range(Tail(todo))
    BY <1>6, <2>8, <2>10
  <2>14. next = None => \A e \in Own(x, a) : e \notin W
    BY <1>2, <1>7, <2>7, <2>8, <2>10
  <2>15. next # None => /\ next \in Own(x, a)
                        /\ \A e \in Own(x, a) : e \in W <=> e = next \/ Before(x.list[a], next, e)
    BY <1>2, <1>7, <2>7, <2>8, <2>10
  <2>16. \A i \in doomed : \/ i \in Objects(x) /\ x.bits[i] = "none" /\ i[1] \in W \cup SweepOf(x)
                           \/ i[1] \in x.empty
    BY <1>9, <2>3, <2>7, <2>8, <2>10, <2>11 DEF Rest
  <2>17. /\ \A c \in Small : x.quick[c] = {}
         /\ x.passed = h.passed \cup {a}
    BY <1>5, <1>7, <2>3
  <2> QED
    BY <2>11, <2>12, <2>13, <2>14, <2>15, <2>16, <2>17 DEF Turn
<1>15. ASSUME NEW L, b \notin L => Full(h, b), Left(h, a, b, L, x)
       PROVE  Sound(x, out, TRUE, TRUE, W, held, D) /\ Turn(x, a, next, W)
  <2>1. /\ Sound(x, out, TRUE, TRUE, W, held, destroyed)
        /\ Objects(x) = Objects(h)
        /\ SweepOf(x) = SweepOf(h) \cup {e \in {b} : b \in L}
        /\ Budgeted(x)
    <3> DEFINE t == TRUE
    <3> DEFINE bs == {b}
    <3>1. Sound(h, bs, t, t, V, held, destroyed) /\ t = TRUE
      BY <1>4
    <3>2. bs = {b} /\ W = V \ bs
      BY <1>11
    <3> HIDE DEF t, bs
    <3>3. Leaves(h, a, b, bs, V, W, out)
      BY <1>5, <1>7, <1>11, <3>2 DEF Leaves
    <3>4. Sound(x, out, t, t, W, held, destroyed) /\ StillThere(h, b, L, x)
      BY <1>2, <1>15, <3>1, <3>3, LeftSound
    <3> QED
      BY <1>4, <3>1, <3>4 DEF StillThere
  <2>2. D = destroyed
    BY <1>11, <2>1 DEF Sound, Sheltered
  <2>3. /\ x.list = h.list /\ x.quick = h.quick /\ x.empty = h.empty /\ x.passed = h.passed
        /\ \A i \in Item : x.bits[i] = IF b \notin L /\ i[1] = b /\ h.bits[i] = "mark"
                                       THEN "none" ELSE h.bits[i]
    BY <1>15 DEF Left
  <2>4. \A c : Own(x, c) = Own(h, c)
    BY <2>3 DEF Own
  <2>5. b \notin L => \A i \in Objects(h) : i[1] = b => h.bits[i] = "mark"
    <3>1. SUFFICES ASSUME b \notin L, NEW i \in Objects(h), i[1] = b
                   PROVE  h.bits[i] = "mark"
      OBVIOUS
    <3>2. i \in Item /\ i[2] \in 1..N /\ i = <<b, i[2]>> /\ h.bits[i] # "free"
      BY <1>10, <3>1, ItemOf
    <3>3. \A k \in 1..N : k \in h.free[b] => h.bits[<<b, k>>] = "free"
      <4>1. Placed(h, {b})
        BY <1>4 DEF Sound, Shaped
      <4> QED
        BY <1>2, <1>7, <4>1 DEF Placed
    <3>4. Marked(h, b) \cap h.free[b] = {}
      BY <3>3 DEF Marked
    <3>5. i[2] \in Marked(h, b) \/ i[2] \in h.free[b]
      BY <1>3, <1>7, <1>15, <3>1, <3>2, <3>4, FullMarked
    <3> QED
      BY <3>2, <3>3, <3>5 DEF Marked
  <2>6. \A i \in doomed : \/ i \in Objects(x) /\ x.bits[i] = "none" /\ i[1] \in W \cup SweepOf(x)
                          \/ i[1] \in x.empty
    <3> TAKE i \in doomed
    <3>1. \/ i \in Objects(h) /\ h.bits[i] = "none" /\ i[1] \in V \cup SweepOf(h)
          \/ i[1] \in h.empty
      BY <1>9
    <3>2. CASE i[1] \in h.empty
      BY <2>3, <3>2
    <3>3. CASE i \in Objects(h) /\ h.bits[i] = "none" /\ i[1] \in V \cup SweepOf(h)
      <4>1. i \in Item /\ (i[1] = b => b \in L)
        BY <1>10, <2>5, <3>3
      <4> QED
        BY <1>11, <2>1, <2>3, <3>3, <4>1
    <3> QED
      BY <3>1, <3>2, <3>3
  <2>7. \A c \in Allocs \ {a} : \A e \in Own(x, c) : e \in W <=> c \in Range(Tail(todo))
    BY <1>6, <1>8, <1>11, <2>4
  <2>8. next = None => \A e \in Own(x, a) : e \notin W
    BY <1>7, <1>11, <2>4
  <2>9. next # None => /\ next \in Own(x, a)
                       /\ \A e \in Own(x, a) : e \in W <=> e = next \/ Before(x.list[a], next, e)
    BY <1>7, <1>11, <2>3, <2>4
  <2>10. /\ \A c \in Small : x.quick[c] = {}
         /\ x.passed = h.passed \cup {a}
    BY <1>5, <1>7, <2>3
  <2> QED
    BY <2>1, <2>2, <2>6, <2>7, <2>8, <2>9, <2>10 DEF Turn
<1>16. Sound(x, out, TRUE, TRUE, W, held, D) /\ Turn(x, a, next, W)
  BY <1>13, <1>14, <1>15
<1> QED
  BY <1>1, <1>11, <1>16, VisitStep

(***************************************************************************)
(* Destructors.                                                            *)
(***************************************************************************)

\* x is g after the finalizable bit of object i is cleared.
Claimed(g, i, x) ==
  /\ x \in AllocatorState /\ x.list = g.list /\ x.avail = g.avail /\ x.sweep = g.sweep
  /\ x.quick = g.quick /\ x.budget = g.budget /\ x.obtained = g.obtained
  /\ x.free = g.free /\ x.bits = g.bits /\ x.seen = g.seen
  /\ x.passed = g.passed /\ x.empty = g.empty /\ x.fin = g.fin \ {i}

LEMMA ClaimFields ==
  ASSUME NEW g \in AllocatorState, NEW i
  PROVE  Claimed(g, i, [g EXCEPT !.fin = @ \ {i}])
<1>1. [g EXCEPT !.fin = @ \ {i}] \in AllocatorState
  BY DEF AllocatorState
<1> QED
  BY <1>1 DEF Claimed, AllocatorState

LEMMA ClaimSound ==
  ASSUME NEW g, NEW out, NEW c, NEW m, NEW V, NEW R, NEW D, Sound(g, out, c, m, V, R, D),
         NEW i, i \in Objects(g), i \notin R, NEW x, Claimed(g, i, x)
  PROVE  /\ Sound(x, out, c, m, V, R, D \cup {i})
         /\ Budgeted(g) => Budgeted(x)
         /\ Joined(g, {}, x)
<1>1. /\ g \in AllocatorState /\ Listed(g) /\ Placed(g, out) /\ Owned(g)
      /\ Tinted(g, c, m, V) /\ Sheltered(g, R, D, V)
  BY DEF Sound, Shaped
<1>2. /\ x \in AllocatorState /\ x.list = g.list /\ x.avail = g.avail /\ x.sweep = g.sweep
      /\ x.quick = g.quick /\ x.budget = g.budget /\ x.obtained = g.obtained
      /\ x.free = g.free /\ x.bits = g.bits /\ x.seen = g.seen
      /\ x.passed = g.passed /\ x.empty = g.empty /\ x.fin = g.fin \ {i}
  BY DEF Claimed
<1>3. /\ \A a : Own(x, a) = Own(g, a)
      /\ SmallBlocks(x) = SmallBlocks(g) /\ SweepOf(x) = SweepOf(g) /\ Objects(x) = Objects(g)
  BY <1>2 DEF Own, SmallBlocks, SweepOf, Objects
<1>4. Listed(x)
  BY <1>1, <1>2, <1>3 DEF Listed
<1>5. Placed(x, out)
  BY <1>1, <1>2, <1>3 DEF Placed
<1>6. Owned(x)
  BY <1>1, <1>2, <1>3 DEF Owned
<1>7. Tinted(x, c, m, V)
  BY <1>1, <1>2, <1>3 DEF Tinted
<1>8. Sheltered(x, R, D \cup {i}, V)
  BY <1>1, <1>2, <1>3 DEF Sheltered
<1>9. Budgeted(g) => Budgeted(x)
  BY <1>2 DEF Budgeted, Accounted
<1>10. Joined(g, {}, x)
  BY <1>2, <1>3 DEF Joined
<1> QED
  BY <1>2, <1>4, <1>5, <1>6, <1>7, <1>8, <1>9, <1>10 DEF Sound, Shaped

LEMMA FinalizeItemStep ==
  ASSUME IInv, NEW a \in Finalizing, FinalizeItem(a)
  PROVE  IInv'
<1> DEFINE V == ToVisit(h)
<1>1. /\ pc = "pass" /\ todo # <<>> /\ a = Head(todo) /\ a \in h.passed /\ pc' = "final"
      /\ UNCHANGED <<marking, collecting, instance, closing>> /\ UNCHANGED pass
  BY DEF FinalizeItem, Passing
<1>2. PICK k \in Dying : Become([h EXCEPT !.fin = @ \ {<<at, k>>}], held, destroyed \cup {<<at, k>>})
  BY DEF FinalizeItem
<1> DEFINE i == <<at, k>>
<1>3. a \in Small /\ a \in Allocs /\ a # Large
  BY Kinds
<1>4. h \in AllocatorState /\ collecting = TRUE /\ marking = TRUE
  BY <1>1, CollectState DEF IInv, Shaped
<1>5. Sound(h, {at}, TRUE, TRUE, V, held, destroyed) /\ Budgeted(h)
  BY <1>4 DEF IInv, Sound
<1>6. \A c \in Small : h.quick[c] = {}
  BY <1>1 DEF IInv, PhaseInv
<1>7. at \in Block /\ at \in Own(h, a) /\ at \in V
  BY <1>1, InBlock
<1>8. UNCHANGED <<todo, at, next, putOnFreeList, doomed>>
  BY <1>1 DEF pass
<1>9. k \in 1..N /\ h.bits[i] = "none" /\ i \in Item /\ i[1] = at
  BY <1>2, <1>7, ItemOf DEF Dying
<1>10. Claimed(h, i, h')
  BY <1>2, <1>4, ClaimFields DEF Become
<1>11. held' = held /\ destroyed' = (destroyed \cup {i}) \cap Objects(h')
  BY <1>2 DEF Become
<1> HIDE DEF i, V
<1>12. i \in Objects(h) /\ i \notin held
  <2>1. Sheltered(h, held, destroyed, V)
    BY <1>5 DEF Sound
  <2>2. at \in SmallBlocks(h)
    BY <1>3, <1>7 DEF SmallBlocks
  <2>3. i \in Objects(h)
    BY <1>4, <1>9, <2>2, ObjectsOf
  <2> QED
    BY <1>7, <1>9, <2>1, <2>3 DEF Sheltered
<1>13. /\ Sound(h', {at}, TRUE, TRUE, V, held, destroyed \cup {i}) /\ Budgeted(h')
       /\ Joined(h, {}, h')
  <2> DEFINE t == TRUE
  <2> DEFINE o == {at}
  <2>1. Sound(h, o, t, t, V, held, destroyed)
    BY <1>5
  <2> HIDE DEF t, o
  <2>2. /\ Sound(h', o, t, t, V, held, destroyed \cup {i})
        /\ Budgeted(h) => Budgeted(h')
        /\ Joined(h, {}, h')
    BY <1>10, <1>12, <2>1, ClaimSound
  <2> QED
    BY <1>5, <2>2 DEF t, o
<1>14. /\ h'.list = h.list /\ h'.avail = h.avail /\ h'.sweep = h.sweep /\ h'.quick = h.quick
       /\ h'.free = h.free /\ h'.bits = h.bits /\ h'.passed = h.passed /\ h'.empty = h.empty
  BY <1>10 DEF Claimed
<1>15. /\ \A c : Own(h', c) = Own(h, c)
       /\ SweepOf(h') = SweepOf(h) /\ Objects(h') = Objects(h)
  BY <1>13, <1>14 DEF Own, SweepOf, Joined
<1>16. destroyed' = destroyed \cup {i}
  BY <1>11, <1>12, <1>13 DEF Sound, Sheltered
<1>17. \A b \in AllBlocks(h') : b \in V <=> b \in ToVisit(h)'
  <2>1. \A c \in Allocs : \A b : b \in Ahead(h, c)' <=> b \in Ahead(h, c)
    BY <1>1, <1>8, <1>14, <1>15 DEF Ahead
  <2> QED
    BY <2>1 DEF ToVisit, V
<1>18. Found(h)'
  <2>1. \A j \in doomed' :
          \/ j \in Objects(h') /\ h'.bits[j] = "none" /\ j[1] \in V \cup SweepOf(h')
          \/ j[1] \in h'.empty
    BY <1>1, <1>8, <1>14, <1>15 DEF IInv, Found, V
  <2>2. Shaped(h', {at})
    BY <1>13 DEF Sound
  <2> QED
    BY <1>17, <2>1, <2>2, FoundIn
<1>19. Cursor(h, destroyed)'
  <2>1. Between(h, destroyed, a)'
    <3>1. Between(h, destroyed, a)
      BY <1>1, PassState
    <3>2. <<at, k>> \in destroyed'
      BY <1>16 DEF i
    <3> QED
      BY <1>8, <1>9, <1>14, <1>15, <3>1, <3>2 DEF Between
  <2>2. Using' = Using
    BY <1>1 DEF Using
  <2>3. /\ Using \subseteq h.passed \cup Range(todo) \cup {Large}
        /\ \A c \in Range(Tail(todo)) : c \in h.passed => c = Float
    BY <1>1, PassState
  <2> QED
    BY <1>1, <1>3, <1>8, <1>14, <2>1, <2>2, <2>3, Kinds DEF Cursor
<1>20. Sound(h', {at'}, TRUE, TRUE, V, held', destroyed')
  BY <1>8, <1>11, <1>13, <1>16
<1>21. /\ instance' = instance /\ collecting' = TRUE /\ marking' = TRUE /\ closing' \in BOOLEAN
       /\ todo' \in Remainders(instance.order) /\ {at', next'} \subseteq Block \cup {None}
       /\ putOnFreeList' \in BOOLEAN /\ doomed' \in SUBSET Item
       /\ pc' \in {"presweep", "pass", "final"} /\ pc' # "presweep" /\ todo' # <<>>
       /\ Head(todo') \in Finalizing \cup {Large}
       /\ \A c \in Small : h'.quick[c] = {}
  BY <1>1, <1>4, <1>6, <1>8, <1>14 DEF IInv, TypeOK
<1> QED
  BY <1>13, <1>17, <1>18, <1>19, <1>20, <1>21, PassStep

(***************************************************************************)
(* The pass over the large objects.                                        *)
(***************************************************************************)

\* Only blocks of small allocators can be out.
LEMMA OutSmall ==
  ASSUME NEW g, NEW c, NEW m, NEW V, NEW R, NEW D, NEW bs, Sound(g, bs, c, m, V, R, D),
         bs \cap SmallBlocks(g) = {}, NEW out
  PROVE  Sound(g, out, c, m, V, R, D)
<1>1. Placed(g, bs) /\ \A a \in Small : \A b \in Own(g, a) : b \notin bs
  BY DEF Sound, Shaped, SmallBlocks
<1>2. Placed(g, out)
  BY <1>1 DEF Placed
<1> QED
  BY <1>2 DEF Sound, Shaped

\* The place of the pass on the list of large objects, and the block after it.
LEMMA AtLarge ==
  ASSUME IInv, pc = "pass", todo # <<>>, Head(todo) = Large, NEW b, b = After(h.list[Large], at)
  PROVE  /\ next = None /\ at \notin SmallBlocks(h)
         /\ at = None \/ (at \in Own(h, Large) /\ at \notin ToVisit(h))
         /\ \A e \in Own(h, Large) : e \in ToVisit(h) <=> at = None \/ Before(h.list[Large], at, e)
         /\ \/ b = None /\ \A e \in Own(h, Large) : e \notin ToVisit(h)
            \/ /\ b \in Block /\ b # None /\ b \in Own(h, Large) /\ b # at
               /\ \A e \in Own(h, Large) : e \in ToVisit(h) <=> e = b \/ Before(h.list[Large], b, e)
               /\ ~Before(h.list[Large], b, b)
<1>1. h \in AllocatorState /\ Listed(h)
  BY DEF IInv, Shaped
<1>2. h.list[Large] \in Seq(Block) /\ IsInjective(h.list[Large]) /\ Own(h, Large) \subseteq Block
  BY <1>1, Kinds, OwnType DEF Listed
<1>3. (at = None \/ at \in Own(h, Large)) /\ next = None
  BY PassState
<1>4. \A e \in Own(h, Large) : e \in ToVisit(h) <=> at = None \/ Before(h.list[Large], at, e)
  <2>1. \A e \in Own(h, Large) : e \in ToVisit(h) <=>
          \/ at = None
          \/ Large # Large /\ e = at
          \/ (Large = Large \/ next # None) /\ Before(h.list[Large], at, e)
    BY PassToVisit
  <2> QED
    BY <2>1
<1>5. at \notin SmallBlocks(h)
  <2>1. SmallBlocks(h) \subseteq Block /\ \A c \in Small : Own(h, c) \cap Own(h, Large) = {}
    BY <1>1, Kinds, OwnType DEF SmallBlocks, Listed
  <2> QED
    BY <1>3, <2>1, BlocksAssumption DEF SmallBlocks
<1>6. CASE at = None
  <2>1. \/ b = None /\ Own(h, Large) = {}
        \/ /\ b \in Own(h, Large)
           /\ \A y \in Own(h, Large) : y = b \/ Before(h.list[Large], b, y)
    BY <1>2, <1>6, AfterNone DEF Own
  <2>2. ~Before(h.list[Large], b, b)
    BY <1>2, Ordered
  <2> QED
    BY <1>2, <1>3, <1>4, <1>5, <1>6, <2>1, <2>2, BlocksAssumption
<1>7. CASE at \in Own(h, Large)
  <2>1. \/ b = None /\ \A y : ~Before(h.list[Large], at, y)
        \/ /\ b \in Own(h, Large) /\ Before(h.list[Large], at, b)
           /\ \A y : Before(h.list[Large], at, y) => y = b \/ Before(h.list[Large], b, y)
    BY <1>2, <1>7, AfterOrder DEF Own
  <2>2. ~Before(h.list[Large], b, b) /\ ~Before(h.list[Large], at, at)
    BY <1>2, Ordered
  <2>3. at # None
    BY <1>2, <1>7, BlocksAssumption
  <2>4. at \notin ToVisit(h)
    BY <1>4, <1>7, <2>2, <2>3
  <2>5. Before(h.list[Large], at, b) =>
          \A y : Before(h.list[Large], b, y) => Before(h.list[Large], at, y)
    BY <1>2, Ordered
  <2>6. CASE b = None /\ \A y : ~Before(h.list[Large], at, y)
    BY <1>3, <1>4, <1>5, <1>7, <2>3, <2>4, <2>6
  <2>7. CASE /\ b \in Own(h, Large) /\ Before(h.list[Large], at, b)
             /\ \A y : Before(h.list[Large], at, y) => y = b \/ Before(h.list[Large], b, y)
    <3>1. \A e \in Own(h, Large) : e \in ToVisit(h) <=> e = b \/ Before(h.list[Large], b, e)
      BY <1>4, <2>3, <2>5, <2>7
    <3>2. b # None /\ b # at /\ b \in Block
      BY <1>2, <2>2, <2>7, BlocksAssumption
    <3> QED
      BY <1>3, <1>4, <1>5, <1>7, <2>2, <2>3, <2>4, <2>7, <3>1, <3>2
  <2> QED
    BY <2>1, <2>6, <2>7
<1> QED
  BY <1>3, <1>6, <1>7

\* x is g after the pass has unlinked the large block b.
Cut(g, b, E, x) ==
  /\ x \in AllocatorState
  /\ \A c \in Allocs : x.list[c] = Without(g.list[c], {b})
  /\ \A c \in Small : x.avail[c] = g.avail[c] \ {b}
  /\ x.sweep = g.sweep /\ x.quick = g.quick
  /\ x.budget = g.budget /\ x.obtained = g.obtained
  /\ x.free = g.free /\ x.bits = g.bits /\ x.fin = g.fin /\ x.seen = g.seen
  /\ x.passed = g.passed \cup {Large} /\ x.empty = g.empty \cup E

LEMMA CutFields ==
  ASSUME NEW g \in AllocatorState, NEW b \in Block, NEW E \in SUBSET Block
  PROVE  /\ Cut(g, b, E, [Unlink([g EXCEPT !.passed = @ \cup {Large}], {b}) EXCEPT
                             !.empty = @ \cup E])
         /\ E = {} => Cut(g, b, E, Unlink([g EXCEPT !.passed = @ \cup {Large}], {b}))
<1> DEFINE y == [g EXCEPT !.passed = @ \cup {Large}]
<1> DEFINE u == Unlink(y, {b})
<1> DEFINE x == [u EXCEPT !.empty = @ \cup E]
<1>1. /\ y \in AllocatorState /\ y.list = g.list /\ y.avail = g.avail /\ y.sweep = g.sweep
      /\ y.quick = g.quick /\ y.budget = g.budget /\ y.obtained = g.obtained
      /\ y.free = g.free /\ y.bits = g.bits /\ y.fin = g.fin /\ y.passed = g.passed \cup {Large}
      /\ y.empty = g.empty /\ y.seen = g.seen
  BY Kinds DEF AllocatorState
<1> HIDE DEF y
<1>2. /\ u.list = [a \in Allocs |-> Without(y.list[a], {b})]
      /\ u.avail = [a \in Small |-> y.avail[a] \ {b}]
      /\ u.sweep = y.sweep /\ u.quick = y.quick
      /\ u.budget = y.budget /\ u.obtained = y.obtained
      /\ u.free = y.free /\ u.bits = y.bits /\ u.fin = y.fin /\ u.seen = y.seen
      /\ u.passed = y.passed /\ u.empty = y.empty
      /\ u \in AllocatorState
  BY <1>1, UnlinkFields
<1> HIDE DEF u
<1>3. /\ x \in AllocatorState /\ x.list = u.list /\ x.avail = u.avail /\ x.sweep = u.sweep
      /\ x.quick = u.quick /\ x.budget = u.budget /\ x.obtained = u.obtained
      /\ x.free = u.free /\ x.bits = u.bits /\ x.fin = u.fin /\ x.passed = u.passed
      /\ x.seen = u.seen /\ x.empty = u.empty \cup E
  BY <1>2 DEF AllocatorState
<1> HIDE DEF x
<1>4. Cut(g, b, E, x)
  BY <1>1, <1>2, <1>3 DEF Cut
<1>5. E = {} => Cut(g, b, E, u)
  <2>1. E = {} => u.empty = g.empty \cup E
    BY <1>1, <1>2
  <2> QED
    BY <1>1, <1>2, <2>1 DEF Cut
<1> QED
  BY <1>4, <1>5 DEF x, y, u

\* Where the pass goes from a large block b that it has unlinked.
Onward(b, E) ==
  /\ UNCHANGED <<marking, collecting, instance, closing, doomed, at, todo, putOnFreeList>>
  /\ \/ E = {b} /\ pc' = "pass" /\ next' = next
     \/ E = {} /\ pc' = "final" /\ next' = b

LEMMA CutStep ==
  ASSUME IInv, pc = "pass", todo # <<>>, Head(todo) = Large,
         NEW b, b = After(h.list[Large], at), b # None, h.bits[<<b, 1>>] # "mark",
         NEW E, Onward(b, E), Cut(h, b, E, h'),
         held' = held, destroyed' = destroyed \cap Objects(h')
  PROVE  IInv'
<1> DEFINE V == ToVisit(h)
<1> DEFINE bs == {b}
<1> DEFINE out == {at}
<1>1. /\ UNCHANGED <<marking, collecting, instance, closing, doomed, at, todo, putOnFreeList>>
      /\ \/ E = {b} /\ pc' = "pass" /\ next' = next
         \/ E = {} /\ pc' = "final" /\ next' = b
  BY DEF Onward
<1>2. h \in AllocatorState /\ collecting = TRUE /\ marking = TRUE /\ Listed(h) /\ Owned(h)
  BY CollectState DEF IInv, Shaped
<1>3. Sound(h, out, TRUE, TRUE, V, held, destroyed) /\ Budgeted(h)
  BY <1>2 DEF IInv, Sound
<1>4. Tinted(h, TRUE, TRUE, V) /\ Sheltered(h, held, destroyed, V)
  BY <1>3 DEF Sound
<1>5. /\ next = None /\ at \notin SmallBlocks(h)
      /\ at = None \/ (at \in Own(h, Large) /\ at \notin V)
      /\ \A e \in Own(h, Large) : e \in V <=> at = None \/ Before(h.list[Large], at, e)
      /\ b \in Block /\ b \in Own(h, Large) /\ b # at /\ b \in V
  BY AtLarge
<1>6. \A c \in Small : h.quick[c] = {}
  BY DEF IInv, PhaseInv
<1>7. \A c \in Allocs \ {Large} : \A e \in Own(h, c) : e \in V <=> c \in Range(Tail(todo))
  BY PassToVisit
<1>8. /\ \A i \in Objects(h) : i[1] = b => i = <<b, 1>>
      /\ b \notin SmallBlocks(h) /\ b \notin SweepOf(h) /\ ~h.seen[b] /\ b \notin h.empty
      /\ \A i \in Item : i[1] = b /\ i # <<b, 1>> => h.bits[i] \notin {"mark", "queued"}
  <2> DEFINE t == TRUE
  <2>1. Sound(h, out, t, t, V, held, destroyed)
    BY <1>3
  <2> HIDE DEF t, out, V
  <2> QED
    BY <1>5, <2>1, LargeAlone
<1>9. /\ h' \in AllocatorState
      /\ \A c \in Allocs : h'.list[c] = Without(h.list[c], bs)
      /\ \A c \in Small : h'.avail[c] = h.avail[c] \ bs
      /\ h'.sweep = h.sweep /\ h'.quick = h.quick
      /\ h'.budget = h.budget /\ h'.obtained = h.obtained
      /\ h'.free = h.free /\ h'.bits = h.bits /\ h'.fin = h.fin /\ h'.seen = h.seen
      /\ h'.passed = h.passed \cup {Large} /\ h'.empty = h.empty \cup E
  BY DEF Cut
<1>10. E \subseteq bs /\ (\A e : e \in bs <=> e = b) /\ bs \in SUBSET Block /\ bs \cap SweepOf(h) = {}
  BY <1>1, <1>5, <1>8
<1> HIDE DEF bs, V, out
<1>11. \A i \in Item : i[1] = b => h.bits[i] \notin {"mark", "queued"}
  BY <1>4, <1>8 DEF Tinted
<1>12. Taken(h, bs, h')
  <2>1. h.empty \cap AllBlocks(h) = {}
    BY <1>2 DEF Listed, AllBlocks
  <2>2. \A c \in Small : \A i \in h.quick[c] : i[1] \notin bs
    BY <1>6
  <2>3. \A i \in Item : IF i[1] \in bs THEN h'.bits[i] \notin {"mark", "queued"}
                        ELSE h'.bits[i] = h.bits[i]
    BY <1>9, <1>10, <1>11
  <2>4. h.empty \subseteq h'.empty /\ h'.empty \cap AllBlocks(h) \subseteq bs
    BY <1>9, <1>10, <2>1
  <2>5. \A e \in bs : h'.seen[e] => e \in h'.empty
    BY <1>8, <1>9, <1>10
  <2> QED
    BY <1>9, <1>10, <2>2, <2>3, <2>4, <2>5 DEF Taken
<1>13. Spared(held, bs, held)
  <2>1. ASSUME NEW i \in held
        PROVE  i[1] # b
    <3>1. i \in Item /\ (i[1] \in V => h.bits[i] = "mark")
      BY <1>2, <1>4, ObjectsOf DEF Sheltered
    <3> QED
      BY <1>5, <1>11, <3>1
  <2> QED
    BY <1>10, <2>1 DEF Spared
<1>14. /\ \A c \in Allocs :
            /\ Own(h', c) = Own(h, c) \ bs
            /\ \A y, z : Before(h'.list[c], y, z) <=>
                           Before(h.list[c], y, z) /\ y \notin bs /\ z \notin bs
       /\ AllBlocks(h') = AllBlocks(h) \ bs /\ SweepOf(h') = SweepOf(h)
  BY <1>2, <1>12, TakenLists
<1>15. Sound(h', out, TRUE, TRUE, V, held', destroyed') /\ Budgeted(h') /\ Rest(h, bs, h')
  <2> DEFINE t == TRUE
  <2>1. Sound(h, out, t, t, V, held, destroyed)
    BY <1>3
  <2> HIDE DEF t
  <2>2. /\ Sound(h', out, t, t, V, held, destroyed \cap Objects(h'))
        /\ Budgeted(h) => Budgeted(h')
        /\ Rest(h, bs, h')
    BY <1>12, <1>13, <2>1, TakenSound
  <2> QED
    BY <1>3, <2>2 DEF t
<1>16. \A e \in AllBlocks(h') : e \in V <=> e \in ToVisit(h)'
  <2> TAKE e \in AllBlocks(h')
  <2>1. PICK c \in Allocs : e \in Own(h', c)
    BY DEF AllBlocks
  <2>2. e \in Own(h, c) /\ e # b /\ Listed(h')
    BY <1>10, <1>14, <1>15, <2>1 DEF Sound, Shaped
  <2>3. e \in ToVisit(h)' <=> e \in Ahead(h, c)'
    <3>1. \A d \in Allocs : e \in Ahead(h, d)' => e \in Own(h', d)
      BY DEF Ahead, Own
    <3>2. \A d \in Allocs : e \in Own(h', d) => d = c
      BY <2>1, <2>2 DEF Listed
    <3> QED
      BY <2>1, <3>1, <3>2 DEF ToVisit
  <2>4. CASE c = Large
    <3>1. e \in Ahead(h, c)' <=> at = None \/ Before(h'.list[Large], at, e)
      <4>1. Large \notin Range(Tail(todo))
        BY PassState
      <4> QED
        BY <1>1, <2>1, <2>4, <4>1 DEF Ahead, Own
    <3>2. at # None => (Before(h'.list[Large], at, e) <=> Before(h.list[Large], at, e))
      BY <1>5, <1>10, <1>14, <2>2, Kinds
    <3> QED
      BY <1>5, <2>2, <2>3, <2>4, <3>1, <3>2
  <2>5. CASE c # Large
    <3>1. e \in Ahead(h, c)' <=> c \in Range(Tail(todo))
      BY <1>1, <2>1, <2>5 DEF Ahead, Own
    <3> QED
      BY <1>7, <2>2, <2>3, <2>5, <3>1
  <2> QED
    BY <2>4, <2>5
<1>17. Found(h)'
  <2>1. ASSUME NEW i \in doomed'
        PROVE  \/ i \in Objects(h') /\ h'.bits[i] = "none" /\ i[1] \in V \cup SweepOf(h')
               \/ i[1] \in h'.empty
               \/ pc' = "final" /\ Head(todo') = Large /\ i[1] = next'
    <3>1. \/ i \in Objects(h) /\ h.bits[i] = "none" /\ i[1] \in V \cup SweepOf(h)
          \/ i[1] \in h.empty
      BY <1>1 DEF IInv, Found, V
    <3>2. CASE i[1] \in h.empty
      BY <1>9, <3>2
    <3>3. CASE i[1] = b
      BY <1>1, <1>9, <3>3
    <3>4. CASE i \in Objects(h) /\ h.bits[i] = "none" /\ i[1] \in V \cup SweepOf(h) /\ i[1] # b
      BY <1>9, <1>10, <1>14, <1>15, <3>4 DEF Rest
    <3> QED
      BY <3>1, <3>2, <3>3, <3>4
  <2>2. Shaped(h', out)
    BY <1>15 DEF Sound
  <2> QED
    BY <1>16, <2>1, <2>2, FoundIn
<1>18. Cursor(h, destroyed)'
  <2>1. Using' = Using
    BY <1>1 DEF Using
  <2>2. /\ Using \subseteq h.passed \cup Range(todo) \cup {Large}
        /\ \A c \in Range(Tail(todo)) : c \in h.passed => c = Float
        /\ Large \notin Range(Tail(todo))
    BY PassState
  <2>3. at' = None \/ at' \in Own(h', Large)
    BY <1>1, <1>5, <1>10, <1>14, Kinds
  <2>4. IF pc' = "final" THEN next' \in Block \ (AllBlocks(h') \cup h'.empty) ELSE next' = None
    BY <1>1, <1>5, <1>8, <1>9, <1>10, <1>14
  <2>5. Large \in h'.passed /\ \A c \in Range(Tail(todo)) : c \in h'.passed => c = Float
    BY <1>9, <2>2
  <2>6. Using \subseteq h'.passed \cup Range(todo) \cup {Large}
    BY <1>9, <2>2
  <2> QED
    BY <1>1, <2>1, <2>3, <2>4, <2>5, <2>6, Kinds DEF Cursor
<1>19. /\ instance' = instance /\ collecting' = TRUE /\ marking' = TRUE /\ closing' \in BOOLEAN
       /\ todo' \in Remainders(instance.order) /\ {at', next'} \subseteq Block \cup {None}
       /\ putOnFreeList' \in BOOLEAN /\ doomed' \in SUBSET Item
       /\ pc' \in {"presweep", "pass", "final"} /\ pc' # "presweep" /\ todo' # <<>>
       /\ Head(todo') \in Finalizing \cup {Large}
       /\ \A c \in Small : h'.quick[c] = {}
  <2>1. /\ todo \in Remainders(instance.order) /\ {at, next} \subseteq Block \cup {None}
        /\ putOnFreeList \in BOOLEAN /\ doomed \in SUBSET Item /\ closing \in BOOLEAN
    BY DEF IInv, TypeOK
  <2> QED
    BY <1>1, <1>2, <1>5, <1>6, <1>9, <2>1
<1>20. Sound(h', {at'}, TRUE, TRUE, V, held', destroyed')
  BY <1>1, <1>15 DEF out
<1> QED
  BY <1>15, <1>16, <1>17, <1>18, <1>19, <1>20, PassStep

\* x is g after the pass has cleared the mark of the large block b.
Unmarked(g, b, x) ==
  /\ x \in AllocatorState /\ x.list = g.list /\ x.avail = g.avail /\ x.sweep = g.sweep
  /\ x.quick = g.quick /\ x.budget = g.budget /\ x.obtained = g.obtained
  /\ x.free = g.free /\ x.fin = g.fin /\ x.seen = g.seen /\ x.empty = g.empty
  /\ x.passed = g.passed \cup {Large}
  /\ \A i \in Item : x.bits[i] = IF i = <<b, 1>> THEN "none" ELSE g.bits[i]

LEMMA UnmarkFields ==
  ASSUME NEW g \in AllocatorState, NEW b \in Block
  PROVE  Unmarked(g, b, [g EXCEPT !.passed = @ \cup {Large}, !.bits[<<b, 1>>] = "none"])
<1> DEFINE x == [g EXCEPT !.passed = @ \cup {Large}, !.bits[<<b, 1>>] = "none"]
<1> DEFINE P == g.passed \cup {Large}
<1> DEFINE B == [g.bits EXCEPT ![<<b, 1>>] = "none"]
<1>1. P \in SUBSET Allocs
  BY Kinds, Fields
<1>2. /\ B \in [Item -> {"none", "mark", "queued", "free"}]
      /\ \A i \in Item : B[i] = IF i = <<b, 1>> THEN "none" ELSE g.bits[i]
  BY Fields
<1>3. x = [g EXCEPT !.passed = P, !.bits = B]
  BY DEF AllocatorState
<1> HIDE DEF P, B, x
<1>4. /\ x \in AllocatorState /\ x.list = g.list /\ x.avail = g.avail /\ x.sweep = g.sweep
      /\ x.quick = g.quick /\ x.budget = g.budget /\ x.obtained = g.obtained
      /\ x.free = g.free /\ x.fin = g.fin /\ x.seen = g.seen /\ x.empty = g.empty
      /\ x.passed = P /\ x.bits = B
  BY <1>1, <1>2, <1>3 DEF AllocatorState
<1>5. Unmarked(g, b, x)
  BY <1>2, <1>4 DEF Unmarked, P
<1> QED
  BY <1>5 DEF x

\* W is what is left to visit of V once block b is done.
Less(V, b, W) == b \in V /\ W = V \ {b}

\* The step from g to x loses no object and keeps the budgets.
Outlives(g, x) ==
  /\ Budgeted(g) => Budgeted(x)
  /\ \A i \in Objects(g) : i \in Objects(x)

LEMMA UnmarkSound ==
  ASSUME NEW g, NEW out, NEW c, NEW m, NEW V, NEW R, NEW D, Sound(g, out, c, m, V, R, D),
         NEW b, b \in Own(g, Large), NEW x, Unmarked(g, b, x), NEW W, Less(V, b, W)
  PROVE  Sound(x, out, c, m, W, R, D) /\ Outlives(g, x)
<1>0. b \in V /\ W = V \ {b}
  BY DEF Less
<1> USE <1>0
<1>1. /\ g \in AllocatorState /\ Listed(g) /\ Placed(g, out) /\ Owned(g)
      /\ Tinted(g, c, m, V) /\ Sheltered(g, R, D, V)
  BY DEF Sound, Shaped
<1>2. /\ x \in AllocatorState /\ x.list = g.list /\ x.avail = g.avail /\ x.sweep = g.sweep
      /\ x.quick = g.quick /\ x.budget = g.budget /\ x.obtained = g.obtained
      /\ x.free = g.free /\ x.fin = g.fin /\ x.seen = g.seen /\ x.empty = g.empty
      /\ \A i \in Item : x.bits[i] = IF i = <<b, 1>> THEN "none" ELSE g.bits[i]
  BY DEF Unmarked
<1>3. /\ b \in Block /\ <<b, 1>> \in Objects(g) /\ \A i \in Objects(g) : i[1] = b => i = <<b, 1>>
      /\ b \notin SmallBlocks(g) /\ b \notin SweepOf(g)
  BY LargeAlone
<1>4. /\ \A a : Own(x, a) = Own(g, a)
      /\ SmallBlocks(x) = SmallBlocks(g) /\ SweepOf(x) = SweepOf(g)
  BY <1>2 DEF Own, SmallBlocks, SweepOf
<1>5. \A i \in Item : i[1] # b => x.bits[i] = g.bits[i]
  BY <1>2
<1>6. \A i \in Item : i \in Objects(x) <=> i \in Objects(g)
  <2> TAKE i \in Item
  <2>1. i[1] \in SmallBlocks(g) => x.bits[i] = g.bits[i]
    BY <1>3, <1>5
  <2> QED
    BY <1>1, <1>2, <1>4, <2>1, ObjectsOf
<1>7. Objects(x) = Objects(g)
  BY <1>1, <1>2, <1>6, ObjectsOf
<1>8. Listed(x)
  BY <1>1, <1>2, <1>4 DEF Listed
<1>9. Placed(x, out)
  <2>1. ASSUME NEW a \in Small, NEW e \in Own(x, a), NEW k \in 1..N
        PROVE  /\ ~(<<e, k>> \in x.quick[a] /\ k \in x.free[e])
               /\ x.bits[<<e, k>>] = "free" <=> <<e, k>> \in x.quick[a] \/ k \in x.free[e]
    <3>1. /\ ~(<<e, k>> \in g.quick[a] /\ k \in g.free[e])
          /\ g.bits[<<e, k>>] = "free" <=> <<e, k>> \in g.quick[a] \/ k \in g.free[e]
      BY <1>1, <1>4 DEF Placed
    <3>2. e \in Block /\ e # b
      BY <1>2, <1>3, <1>4, Kinds, OwnType DEF SmallBlocks
    <3>3. x.bits[<<e, k>>] = g.bits[<<e, k>>]
      BY <1>5, <3>2, ItemOf
    <3> QED
      BY <1>2, <3>1, <3>3
  <2>2. \A a \in Small :
          /\ x.avail[a] \cap x.sweep[a] = {}
          /\ x.avail[a] \cup x.sweep[a] \subseteq Own(x, a)
          /\ x.quick[a] \subseteq (Own(x, a) \ x.sweep[a]) \X (1..N)
          /\ \A e \in x.avail[a] : x.free[e] # {}
          /\ \A e \in Own(x, a) : x.free[e] = {} \/ e \in x.avail[a] \cup x.sweep[a] \cup out
    BY <1>1, <1>2, <1>4 DEF Placed
  <2> QED
    BY <2>1, <2>2 DEF Placed
<1>10. Owned(x)
  <2>1. \A i \in Item : x.bits[i] \in {"mark", "queued"} => i \in Objects(x)
    BY <1>1, <1>2, <1>6 DEF Owned
  <2>2. \A e \in Own(x, Large) : x.bits[<<e, 1>>] # "free"
    <3> TAKE e \in Own(x, Large)
    <3>1. e \in Own(g, Large) /\ <<e, 1>> \in Item
      BY <1>1, <1>4, Kinds, OwnType, ItemOf
    <3> QED
      BY <1>1, <1>2, <3>1 DEF Owned
  <2> QED
    BY <1>1, <1>2, <1>4, <2>1, <2>2 DEF Owned
<1>11. Tinted(x, c, m, W)
  <2>1. \A e \in SmallBlocks(x) : x.seen[e] <=> c /\ e \notin W
    BY <1>1, <1>2, <1>3, <1>4 DEF Tinted
  <2>2. \A i \in Item : x.bits[i] = "mark" => i[1] \in W \cup SweepOf(x)
    <3> TAKE i \in Item
    <3>1. x.bits[i] = "mark" => g.bits[i] = "mark" /\ i # <<b, 1>>
      BY <1>2
    <3>2. g.bits[i] = "mark" => i \in Objects(g) /\ i[1] \in V \cup SweepOf(g)
      BY <1>1 DEF Owned, Tinted
    <3> QED
      BY <1>3, <1>4, <3>1, <3>2
  <2>3. \A i \in Item : x.bits[i] = "queued" => m /\ ~c
    BY <1>1, <1>2 DEF Tinted
  <2>4. (m /\ ~c => SweepOf(x) = {}) /\ W \cap SweepOf(x) = {}
    BY <1>1, <1>4 DEF Tinted
  <2> QED
    BY <2>1, <2>2, <2>3, <2>4 DEF Tinted
<1>12. Sheltered(x, R, D, W)
  <2>1. \A i \in R : i[1] \in W \cup SweepOf(x) => x.bits[i] = "mark"
    <3> TAKE i \in R
    <3>1. i \in Item /\ (i[1] \in V \cup SweepOf(g) => g.bits[i] = "mark")
      BY <1>1, ObjectsOf DEF Sheltered
    <3> QED
      BY <1>3, <1>4, <1>5, <3>1
  <2> QED
    BY <1>1, <1>2, <1>7, <2>1 DEF Sheltered
<1>13. Budgeted(g) => Budgeted(x)
  BY <1>2 DEF Budgeted, Accounted
<1> QED
  BY <1>2, <1>7, <1>8, <1>9, <1>10, <1>11, <1>12, <1>13 DEF Sound, Shaped, Outlives

LEMMA UnmarkStep ==
  ASSUME IInv, pc = "pass", todo # <<>>, Head(todo) = Large,
         NEW b, b = After(h.list[Large], at), b # None, h.bits[<<b, 1>>] = "mark",
         Unmarked(h, b, h'), held' = held, destroyed' = destroyed \cap Objects(h'),
         at' = b, UNCHANGED <<marking, collecting, instance, closing, doomed>>,
         UNCHANGED <<pc, next, todo, putOnFreeList>>
  PROVE  IInv'
<1> DEFINE V == ToVisit(h)
<1> DEFINE bs == {b}
<1> DEFINE out == {at}
<1> DEFINE W == V \ bs
<1>2. h \in AllocatorState /\ collecting = TRUE /\ marking = TRUE /\ Listed(h) /\ Owned(h)
  BY CollectState DEF IInv, Shaped
<1>3. Sound(h, out, TRUE, TRUE, V, held, destroyed) /\ Budgeted(h)
  BY <1>2 DEF IInv, Sound
<1>5. /\ next = None /\ at \notin SmallBlocks(h)
      /\ b \in Block /\ b \in Own(h, Large) /\ b \in V
      /\ \A e \in Own(h, Large) : e \in V <=> e = b \/ Before(h.list[Large], b, e)
      /\ ~Before(h.list[Large], b, b)
  BY AtLarge
<1>6. \A c \in Small : h.quick[c] = {}
  BY DEF IInv, PhaseInv
<1>7. \A c \in Allocs \ {Large} : \A e \in Own(h, c) : e \in V <=> c \in Range(Tail(todo))
  BY PassToVisit
<1>8. /\ \A i \in Objects(h) : i[1] = b => i = <<b, 1>>
      /\ b \notin SmallBlocks(h) /\ b \notin SweepOf(h)
  <2> DEFINE t == TRUE
  <2>1. Sound(h, out, t, t, V, held, destroyed)
    BY <1>3
  <2> HIDE DEF t, out, V
  <2> QED
    BY <1>5, <2>1, LargeAlone
<1>9. /\ h'.list = h.list /\ h'.sweep = h.sweep /\ h'.quick = h.quick /\ h'.empty = h.empty
      /\ h'.passed = h.passed \cup {Large}
      /\ \A i \in Item : h'.bits[i] = IF i = <<b, 1>> THEN "none" ELSE h.bits[i]
  BY DEF Unmarked
<1>10. (\A e : e \in bs <=> e = b) /\ bs = {b} /\ W = V \ bs
  OBVIOUS
<1> HIDE DEF bs, V, out, W
<1>11. (\A c : Own(h', c) = Own(h, c)) /\ SweepOf(h') = SweepOf(h) /\ SmallBlocks(h') = SmallBlocks(h)
  BY <1>9 DEF Own, SweepOf, SmallBlocks
<1>12. /\ Sound(h', out, TRUE, TRUE, W, held, destroyed) /\ Budgeted(h')
       /\ \A i \in Objects(h) : i \in Objects(h')
  <2> DEFINE t == TRUE
  <2>1. Sound(h, out, t, t, V, held, destroyed)
    BY <1>3
  <2> HIDE DEF t
  <2>2. Less(V, b, W)
    BY <1>5, <1>10 DEF Less
  <2>3. Sound(h', out, t, t, W, held, destroyed) /\ Outlives(h, h')
    BY <1>5, <2>1, <2>2, UnmarkSound
  <2> QED
    BY <1>3, <2>3 DEF t, Outlives
<1>13. destroyed' = destroyed
  BY <1>12 DEF Sound, Sheltered
<1>14. Sound(h', {at'}, TRUE, TRUE, W, held', destroyed')
  <2> DEFINE t == TRUE
  <2>1. Sound(h', out, t, t, W, held, destroyed)
    BY <1>12
  <2>2. out \cap SmallBlocks(h') = {}
    BY <1>5, <1>11 DEF out
  <2> HIDE DEF t
  <2>3. Sound(h', {at'}, t, t, W, held, destroyed)
    BY <2>1, <2>2, OutSmall
  <2> QED
    BY <1>13, <2>3 DEF t
<1>16. \A e \in AllBlocks(h') : e \in W <=> e \in ToVisit(h)'
  <2> TAKE e \in AllBlocks(h')
  <2>1. PICK c \in Allocs : e \in Own(h', c)
    BY DEF AllBlocks
  <2>2. e \in Own(h, c) /\ Listed(h')
    BY <1>11, <1>12, <2>1 DEF Sound, Shaped
  <2>3. e \in ToVisit(h)' <=> e \in Ahead(h, c)'
    <3>1. \A d \in Allocs : e \in Ahead(h, d)' => e \in Own(h', d)
      BY DEF Ahead, Own
    <3>2. \A d \in Allocs : e \in Own(h', d) => d = c
      BY <2>1, <2>2 DEF Listed
    <3> QED
      BY <2>1, <3>1, <3>2 DEF ToVisit
  <2>4. CASE c = Large
    <3>1. e \in Ahead(h, c)' <=> Before(h.list[Large], b, e)
      <4>1. Large \notin Range(Tail(todo))
        BY PassState
      <4> QED
        BY <1>5, <1>9, <2>1, <2>4, <4>1, BlocksAssumption DEF Ahead, Own
    <3> QED
      BY <1>5, <1>10, <2>2, <2>3, <2>4, <3>1
  <2>5. CASE c # Large
    <3>1. e \in Ahead(h, c)' <=> c \in Range(Tail(todo))
      BY <2>1, <2>5 DEF Ahead, Own
    <3>2. e # b
      BY <1>2, <1>5, <2>2, <2>5, Kinds DEF Listed
    <3> QED
      BY <1>7, <1>10, <2>2, <2>3, <2>5, <3>1, <3>2
  <2> QED
    BY <2>4, <2>5
<1>17. Found(h)'
  <2>1. ASSUME NEW i \in doomed'
        PROVE  \/ i \in Objects(h') /\ h'.bits[i] = "none" /\ i[1] \in W \cup SweepOf(h')
               \/ i[1] \in h'.empty
    <3>1. \/ i \in Objects(h) /\ h.bits[i] = "none" /\ i[1] \in V \cup SweepOf(h)
          \/ i[1] \in h.empty
      BY DEF IInv, Found, V
    <3>2. CASE i[1] \in h.empty
      BY <1>9, <3>2
    <3>3. CASE i \in Objects(h) /\ h.bits[i] = "none" /\ i[1] \in V \cup SweepOf(h)
      <4>1. i \in Item /\ i[1] # b
        BY <1>2, <1>8, <3>3, ObjectsOf
      <4>2. h'.bits[i] = "none"
        BY <1>9, <3>3, <4>1
      <4> QED
        BY <1>10, <1>11, <1>12, <3>3, <4>1, <4>2
    <3> QED
      BY <3>1, <3>2, <3>3
  <2>2. Shaped(h', out)
    BY <1>12 DEF Sound
  <2> QED
    BY <1>16, <2>1, <2>2, FoundIn
<1>18. Cursor(h, destroyed)'
  <2>1. Using' = Using
    BY DEF Using
  <2>2. /\ Using \subseteq h.passed \cup Range(todo) \cup {Large}
        /\ \A c \in Range(Tail(todo)) : c \in h.passed => c = Float
        /\ Large \notin Range(Tail(todo))
    BY PassState
  <2>3. at' \in Own(h', Large)
    BY <1>5, <1>11
  <2>4. Large \in h'.passed /\ \A c \in Range(Tail(todo)) : c \in h'.passed => c = Float
    BY <1>9, <2>2
  <2>5. Using \subseteq h'.passed \cup Range(todo) \cup {Large}
    BY <1>9, <2>2
  <2> QED
    BY <1>5, <2>1, <2>3, <2>4, <2>5, Kinds DEF Cursor
<1>19. /\ instance' = instance /\ collecting' = TRUE /\ marking' = TRUE /\ closing' \in BOOLEAN
       /\ todo' \in Remainders(instance.order) /\ {at', next'} \subseteq Block \cup {None}
       /\ putOnFreeList' \in BOOLEAN /\ doomed' \in SUBSET Item
       /\ pc' \in {"presweep", "pass", "final"} /\ pc' # "presweep" /\ todo' # <<>>
       /\ Head(todo') \in Finalizing \cup {Large}
       /\ \A c \in Small : h'.quick[c] = {}
  <2>1. /\ todo \in Remainders(instance.order)
        /\ putOnFreeList \in BOOLEAN /\ doomed \in SUBSET Item /\ closing \in BOOLEAN
    BY DEF IInv, TypeOK
  <2> QED
    BY <1>2, <1>5, <1>6, <1>9, <2>1
<1> QED
  BY <1>12, <1>14, <1>16, <1>17, <1>18, <1>19, PassStep

LEMMA EndLargeStep ==
  ASSUME IInv, pc = "pass", todo # <<>>, Head(todo) = Large, After(h.list[Large], at) = None,
         Repassed(h, h.passed \ {Large}, h'), held' = held, destroyed' = destroyed \cap Objects(h'),
         Done, pc' = "pass", UNCHANGED <<marking, collecting, instance, closing, doomed>>
  PROVE  IInv'
<1> DEFINE V == ToVisit(h)
<1> DEFINE out == {at}
<1> DEFINE P == h.passed \ {Large}
<1> DEFINE b == After(h.list[Large], at)
<1>1. b = After(h.list[Large], at) /\ b = None /\ Repassed(h, P, h')
  OBVIOUS
<1>2. collecting = TRUE /\ marking = TRUE
  BY CollectState
<1>3. Sound(h, out, TRUE, TRUE, V, held, destroyed) /\ Budgeted(h)
  BY <1>2 DEF IInv, Sound
<1> HIDE DEF b
<1>4. at \notin SmallBlocks(h) /\ \A e \in Own(h, Large) : e \notin V
  BY <1>1, AtLarge, BlocksAssumption
<1>5. \A c \in Allocs \ {Large} : \A e \in Own(h, c) : e \in V <=> c \in Range(Tail(todo))
  BY PassToVisit
<1>6. Large \notin Range(Tail(todo)) /\ \A c \in Small : h.quick[c] = {}
  BY PassState DEF IInv, PhaseInv
<1>7. /\ h'.list = h.list /\ h'.sweep = h.sweep /\ h'.quick = h.quick /\ h'.bits = h.bits
      /\ h'.empty = h.empty /\ h'.passed = h.passed \ {Large}
  BY DEF Repassed
<1>8. \A c : Own(h', c) = Own(h, c)
  BY <1>7 DEF Own
<1>9. /\ Sound(h', {None}, TRUE, TRUE, V, held, destroyed) /\ Budgeted(h')
      /\ Objects(h') = Objects(h) /\ SweepOf(h') = SweepOf(h)
  <2> DEFINE t == TRUE
  <2>1. Sound(h, out, t, t, V, held, destroyed) /\ out \cap SmallBlocks(h) = {}
    BY <1>3, <1>4
  <2> HIDE DEF t, out, V, P
  <2>2. Sound(h, {None}, t, t, V, held, destroyed)
    BY <2>1, OutSmall
  <2> DEFINE o == {None}
  <2>3. Sound(h, o, t, t, V, held, destroyed)
    BY <2>2
  <2> HIDE DEF o
  <2>4. /\ Sound(h', o, t, t, V, held, destroyed)
        /\ Budgeted(h) => Budgeted(h')
        /\ Objects(h') = Objects(h) /\ SweepOf(h') = SweepOf(h)
    BY <1>1, <2>3, RepassSound
  <2> QED
    BY <1>3, <2>4 DEF t, o
<1>10. destroyed' = destroyed
  BY <1>9 DEF Sound, Sheltered
<1>11. \A i \in doomed : \/ i \in Objects(h') /\ h'.bits[i] = "none" /\ i[1] \in V \cup SweepOf(h')
                         \/ i[1] \in h'.empty
  BY <1>7, <1>9 DEF IInv, Found
<1>12. \A c \in Allocs : \A e \in Own(h', c) : e \in V <=> c \in Range(Tail(todo))
  BY <1>4, <1>5, <1>6, <1>8
<1>13. /\ h'.passed \subseteq h.passed \cup {Head(todo)}
       /\ h.passed \cup {Head(todo)} \subseteq h'.passed \cup {Large}
       /\ \A c \in Small : h'.quick[c] = {}
  BY <1>6, <1>7
<1>14. Sound(h', {None}, TRUE, TRUE, V, held', destroyed')
  BY <1>9, <1>10
<1> HIDE DEF V
<1> QED
  BY <1>9, <1>11, <1>12, <1>13, <1>14, DoneStep

LEMMA FinalizeLargeStep ==
  ASSUME IInv, FinalizeLarge
  PROVE  IInv'
<1> DEFINE b == After(h.list[Large], at)
<1> DEFINE started == [h EXCEPT !.passed = @ \cup {Large}]
<1> DEFINE unlinked == Unlink(started, {b})
<1>1. /\ pc = "pass" /\ todo # <<>> /\ Head(todo) = Large
      /\ UNCHANGED <<marking, collecting, instance, closing, doomed>>
      /\ \/ /\ b = None
            /\ Become([h EXCEPT !.passed = @ \ {Large}], held, destroyed)
            /\ Done
            /\ UNCHANGED pc
         \/ /\ b # None /\ h.bits[<<b, 1>>] = "mark"
            /\ Become([started EXCEPT !.bits[<<b, 1>>] = "none"], held, destroyed)
            /\ at' = b
            /\ UNCHANGED <<pc, next, todo, putOnFreeList>>
         \/ /\ b # None /\ h.bits[<<b, 1>>] # "mark"
            /\ Become([unlinked EXCEPT !.empty = @ \cup {b}], held, destroyed)
            /\ UNCHANGED <<pc, at, next, todo, putOnFreeList>>
         \/ /\ b # None /\ h.bits[<<b, 1>>] # "mark"
            /\ Become(unlinked, held, destroyed)
            /\ pc' = "final" /\ next' = b
            /\ UNCHANGED <<at, todo, putOnFreeList>>
  BY DEF FinalizeLarge, Passing
<1>2. h \in AllocatorState
  BY DEF IInv, Shaped
<1>3. b = None \/ b \in Block
  BY <1>1, AtLarge
<1>4. b = After(h.list[Large], at)
  OBVIOUS
<1>5. CASE /\ b = None
           /\ Become([h EXCEPT !.passed = @ \ {Large}], held, destroyed)
           /\ Done
           /\ UNCHANGED pc
  <2> DEFINE P == h.passed \ {Large}
  <2>1. P \in SUBSET Allocs
    BY <1>2, Fields
  <2>2. h' = [h EXCEPT !.passed = P] /\ held' = held /\ destroyed' = destroyed \cap Objects(h')
    BY <1>5 DEF Become
  <2> HIDE DEF P
  <2>3. Repassed(h, P, h')
    BY <1>2, <2>1, <2>2, RepassFields
  <2> QED
    BY <1>1, <1>5, <2>2, <2>3, EndLargeStep DEF P
<1>6. CASE /\ b # None /\ h.bits[<<b, 1>>] = "mark"
           /\ Become([started EXCEPT !.bits[<<b, 1>>] = "none"], held, destroyed)
           /\ at' = b
           /\ UNCHANGED <<pc, next, todo, putOnFreeList>>
  <2>1. /\ h' = [h EXCEPT !.passed = @ \cup {Large}, !.bits[<<b, 1>>] = "none"]
        /\ held' = held /\ destroyed' = destroyed \cap Objects(h')
    BY <1>6 DEF Become
  <2> HIDE DEF b
  <2>2. Unmarked(h, b, h')
    BY <1>2, <1>3, <1>6, <2>1, UnmarkFields
  <2> QED
    BY <1>1, <1>4, <1>6, <2>1, <2>2, UnmarkStep
<1>7. CASE /\ b # None /\ h.bits[<<b, 1>>] # "mark"
           /\ Become([unlinked EXCEPT !.empty = @ \cup {b}], held, destroyed)
           /\ UNCHANGED <<pc, at, next, todo, putOnFreeList>>
  <2> DEFINE E == {b}
  <2>1. /\ h' = [unlinked EXCEPT !.empty = @ \cup E]
        /\ held' = held /\ destroyed' = destroyed \cap Objects(h')
    BY <1>7 DEF Become
  <2>2. E \in SUBSET Block /\ E = {b}
    BY <1>3, <1>7
  <2> HIDE DEF b, E
  <2>3. Cut(h, b, E, h')
    BY <1>2, <1>3, <1>7, <2>1, <2>2, CutFields
  <2>4. Onward(b, E)
    BY <1>1, <1>7, <2>2 DEF Onward
  <2> QED
    BY <1>1, <1>4, <1>7, <2>1, <2>3, <2>4, CutStep
<1>8. CASE /\ b # None /\ h.bits[<<b, 1>>] # "mark"
           /\ Become(unlinked, held, destroyed)
           /\ pc' = "final" /\ next' = b
           /\ UNCHANGED <<at, todo, putOnFreeList>>
  <2> DEFINE E == {}
  <2>1. h' = unlinked /\ held' = held /\ destroyed' = destroyed \cap Objects(h')
    BY <1>8 DEF Become
  <2>2. E \in SUBSET Block /\ E = {}
    OBVIOUS
  <2> HIDE DEF b, E
  <2>3. Cut(h, b, E, h')
    BY <1>2, <1>3, <1>8, <2>1, <2>2, CutFields
  <2>4. Onward(b, E)
    BY <1>1, <1>8, <2>2 DEF Onward
  <2> QED
    BY <1>1, <1>4, <1>8, <2>1, <2>3, <2>4, CutStep
<1> QED
  BY <1>1, <1>5, <1>6, <1>7, <1>8

\* x is g after block b has been given to the blocks that are to be freed.
Emptied(g, b, x) ==
  /\ x \in AllocatorState /\ x.list = g.list /\ x.avail = g.avail /\ x.sweep = g.sweep
  /\ x.quick = g.quick /\ x.budget = g.budget /\ x.obtained = g.obtained
  /\ x.free = g.free /\ x.bits = g.bits /\ x.fin = g.fin /\ x.seen = g.seen
  /\ x.passed = g.passed /\ x.empty = g.empty \cup {b}

LEMMA EmptyFields ==
  ASSUME NEW g \in AllocatorState, NEW b \in Block
  PROVE  Emptied(g, b, [g EXCEPT !.empty = @ \cup {b}])
<1>1. [g EXCEPT !.empty = @ \cup {b}] \in AllocatorState
  BY DEF AllocatorState
<1> QED
  BY <1>1 DEF Emptied, AllocatorState

LEMMA EmptySound ==
  ASSUME NEW g, NEW out, NEW c, NEW m, NEW V, NEW R, NEW D, Sound(g, out, c, m, V, R, D),
         NEW b, b \notin AllBlocks(g), NEW x, Emptied(g, b, x)
  PROVE  /\ Sound(x, out, c, m, V, R, D)
         /\ Budgeted(g) => Budgeted(x)
         /\ Joined(g, {}, x)
<1>1. /\ g \in AllocatorState /\ Listed(g) /\ Placed(g, out) /\ Owned(g)
      /\ Tinted(g, c, m, V) /\ Sheltered(g, R, D, V)
  BY DEF Sound, Shaped
<1>2. /\ x \in AllocatorState /\ x.list = g.list /\ x.avail = g.avail /\ x.sweep = g.sweep
      /\ x.quick = g.quick /\ x.budget = g.budget /\ x.obtained = g.obtained
      /\ x.free = g.free /\ x.bits = g.bits /\ x.fin = g.fin /\ x.seen = g.seen
      /\ x.empty = g.empty \cup {b}
  BY DEF Emptied
<1>3. /\ \A a : Own(x, a) = Own(g, a)
      /\ SmallBlocks(x) = SmallBlocks(g) /\ SweepOf(x) = SweepOf(g) /\ Objects(x) = Objects(g)
  BY <1>2 DEF Own, SmallBlocks, SweepOf, Objects
<1>4. Listed(x)
  <2>1. \A a \in Allocs : b \notin Own(g, a)
    BY DEF AllBlocks
  <2> QED
    BY <1>1, <1>2, <1>3, <2>1 DEF Listed
<1>5. Placed(x, out)
  BY <1>1, <1>2, <1>3 DEF Placed
<1>6. Owned(x)
  BY <1>1, <1>2, <1>3 DEF Owned
<1>7. Tinted(x, c, m, V)
  BY <1>1, <1>2, <1>3 DEF Tinted
<1>8. Sheltered(x, R, D, V)
  BY <1>1, <1>2, <1>3 DEF Sheltered
<1>9. Budgeted(g) => Budgeted(x)
  BY <1>2 DEF Budgeted, Accounted
<1>10. Joined(g, {}, x)
  BY <1>2, <1>3 DEF Joined
<1> QED
  BY <1>2, <1>4, <1>5, <1>6, <1>7, <1>8, <1>9, <1>10 DEF Sound, Shaped

LEMMA EndFinalizerStep ==
  ASSUME IInv, EndFinalizer
  PROVE  IInv'
<1> DEFINE V == ToVisit(h)
<1> DEFINE out == {at}
<1>1. /\ pc = "final" /\ pc' = "pass"
      /\ IF Head(todo) = Large
         THEN h' = [h EXCEPT !.empty = @ \cup {next}] /\ next' = None
         ELSE UNCHANGED <<h, next>>
      /\ UNCHANGED <<held, destroyed, marking, collecting, instance, closing,
                     todo, at, putOnFreeList, doomed>>
  BY DEF EndFinalizer
<1>2. h \in AllocatorState /\ collecting = TRUE /\ marking = TRUE
  BY <1>1 DEF IInv, Shaped, PhaseInv
<1>3. Sound(h, out, TRUE, TRUE, V, held, destroyed) /\ Budgeted(h)
  BY <1>2 DEF IInv, Sound
<1>4. /\ todo # <<>> /\ Head(todo) \in Finalizing \cup {Large}
      /\ \A c \in Small : h.quick[c] = {}
  BY <1>1 DEF IInv, PhaseInv
<1>5. /\ Head(todo) = Large => next \in Block /\ next \notin AllBlocks(h)
      /\ Head(todo) = Large => at = None \/ at \in Own(h, Large)
      /\ Head(todo) \in Finalizing => Between(h, destroyed, Head(todo))
      /\ Using \subseteq h.passed \cup Range(todo) \cup {Large}
      /\ \A c \in Range(Tail(todo)) : c \in h.passed => c = Float
  BY <1>1, <1>4 DEF IInv, Cursor
<1> HIDE DEF V, out
<1>6. /\ Sound(h', out, TRUE, TRUE, V, held, destroyed) /\ Budgeted(h')
      /\ h'.list = h.list /\ h'.avail = h.avail /\ h'.sweep = h.sweep /\ h'.quick = h.quick
      /\ h'.free = h.free /\ h'.bits = h.bits /\ h'.passed = h.passed
      /\ h.empty \subseteq h'.empty /\ (Head(todo) = Large => next \in h'.empty)
      /\ Objects(h') = Objects(h)
  <2>1. CASE Head(todo) = Large
    <3> DEFINE t == TRUE
    <3>1. Sound(h, out, t, t, V, held, destroyed)
      BY <1>3
    <3> HIDE DEF t
    <3>2. Emptied(h, next, h')
      BY <1>1, <1>2, <1>5, <2>1, EmptyFields
    <3>3. /\ Sound(h', out, t, t, V, held, destroyed)
          /\ Budgeted(h) => Budgeted(h')
          /\ Joined(h, {}, h')
      BY <1>5, <2>1, <3>1, <3>2, EmptySound
    <3> QED
      BY <1>3, <3>2, <3>3 DEF t, Emptied, Joined
  <2>2. CASE Head(todo) # Large
    <3>1. h' = h
      BY <1>1, <2>2
    <3> QED
      BY <1>3, <2>2, <3>1
  <2> QED
    BY <2>1, <2>2
<1>7. (\A c : Own(h', c) = Own(h, c)) /\ SweepOf(h') = SweepOf(h)
  BY <1>6 DEF Own, SweepOf
<1>8. Head(todo) # Large => next' = next
  BY <1>1
<1>9. \A e \in AllBlocks(h') : e \in V <=> e \in ToVisit(h)'
  <2>1. \A c \in Allocs : \A e : e \in Ahead(h, c)' <=> e \in Ahead(h, c)
    <3> SUFFICES ASSUME NEW c \in Allocs, NEW e PROVE e \in Ahead(h, c)' <=> e \in Ahead(h, c)
      OBVIOUS
    <3>1. CASE c # Head(todo)
      BY <1>1, <1>4, <1>7, <3>1 DEF Ahead
    <3>2. CASE c = Head(todo) /\ c = Large
      BY <1>1, <1>4, <1>6, <1>7, <3>2 DEF Ahead
    <3>3. CASE c = Head(todo) /\ c # Large
      BY <1>1, <1>4, <1>6, <1>7, <1>8, <3>3 DEF Ahead
    <3> QED
      BY <3>1, <3>2, <3>3
  <2> QED
    BY <2>1 DEF ToVisit, V
<1>10. Found(h)'
  <2>1. ASSUME NEW i \in doomed'
        PROVE  \/ i \in Objects(h') /\ h'.bits[i] = "none" /\ i[1] \in V \cup SweepOf(h')
               \/ i[1] \in h'.empty
    <3>1. \/ i \in Objects(h) /\ h.bits[i] = "none" /\ i[1] \in V \cup SweepOf(h)
          \/ i[1] \in h.empty
          \/ Head(todo) = Large /\ i[1] = next
      BY <1>1 DEF IInv, Found, V
    <3> QED
      BY <1>6, <1>7, <3>1
  <2>2. Shaped(h', out)
    BY <1>6 DEF Sound
  <2> QED
    BY <1>9, <2>1, <2>2, FoundIn
<1>11. Cursor(h, destroyed)'
  <2>1. Using' = Using
    BY <1>1 DEF Using
  <2>2. Head(todo) \in Finalizing => Between(h, destroyed, Head(todo))'
    <3>1. SUFFICES ASSUME Head(todo) \in Finalizing
                   PROVE  Between(h, destroyed, Head(todo))'
      OBVIOUS
    <3>2. Between(h, destroyed, Head(todo)) /\ next' = next
      BY <1>5, <1>8, <3>1, Kinds
    <3> QED
      BY <1>1, <1>6, <1>7, <3>2 DEF Between
  <2>3. Head(todo) = Large => (at = None \/ at \in Own(h', Large)) /\ next' = None
    BY <1>1, <1>5, <1>7
  <2> QED
    BY <1>1, <1>4, <1>5, <1>6, <2>1, <2>2, <2>3, Kinds DEF Cursor
<1>12. /\ instance' = instance /\ collecting' = TRUE /\ marking' = TRUE /\ closing' \in BOOLEAN
       /\ todo' \in Remainders(instance.order) /\ {at', next'} \subseteq Block \cup {None}
       /\ putOnFreeList' \in BOOLEAN /\ doomed' \in SUBSET Item
       /\ pc' \in {"presweep", "pass", "final"} /\ pc' # "presweep" /\ pc' # "final" /\ todo' # <<>>
       /\ \A c \in Small : h'.quick[c] = {}
  <2>1. /\ todo \in Remainders(instance.order) /\ {at, next} \subseteq Block \cup {None}
        /\ putOnFreeList \in BOOLEAN /\ doomed \in SUBSET Item /\ closing \in BOOLEAN
    BY DEF IInv, TypeOK
  <2> QED
    BY <1>1, <1>2, <1>4, <1>6, <2>1
<1>13. Sound(h', {at'}, TRUE, TRUE, V, held', destroyed')
  BY <1>1, <1>6 DEF out
<1> QED
  BY <1>6, <1>9, <1>10, <1>11, <1>12, <1>13, PassStep

(***************************************************************************)
(* The theorems.                                                           *)
(***************************************************************************)

LEMMA InitIInv == Init => IInv
<1> SUFFICES ASSUME Init PROVE IInv
  OBVIOUS
<1>1. /\ h.list = [a \in Allocs |-> <<>>] /\ h.avail = [a \in Small |-> {}]
      /\ h.sweep = [a \in Small |-> {}] /\ h.quick = [a \in Small |-> {}]
      /\ h.budget = [a \in Small |-> N] /\ h.obtained = [a \in Small |-> N]
      /\ h.free = [b \in Block |-> {}] /\ h.bits = [i \in Item |-> "none"]
      /\ h.fin = {} /\ h.seen = [b \in Block |-> FALSE] /\ h.passed = {} /\ h.empty = {}
  BY DEF Init
<1>2. /\ held = {} /\ destroyed = {} /\ doomed = {}
      /\ marking = FALSE /\ collecting = FALSE /\ closing = FALSE
      /\ instance \in Instances /\ todo = <<>>
      /\ pc = "run" /\ at = None /\ next = None /\ putOnFreeList = FALSE
  BY DEF Init
<1>3. N \in Nat /\ N \in Int /\ N > 0
  BY BlocksAssumption
<1>4. h \in AllocatorState
  <2>1. <<>> \in Seq(Block)
    OBVIOUS
  <2> QED
    BY <1>3, <2>1 DEF Init, AllocatorState
<1>5. /\ \A a \in Allocs : Own(h, a) = {} /\ h.list[a] = <<>>
      /\ SmallBlocks(h) = {} /\ SweepOf(h) = {} /\ ToVisit(h) = {}
  <2>1. \A a \in Allocs : h.list[a] = <<>>
    BY <1>1
  <2>2. Range(<<>>) = {}
    BY DEF Range
  <2>3. \A a \in Allocs : Own(h, a) = {}
    BY <2>1, <2>2 DEF Own
  <2>4. SmallBlocks(h) = {} /\ SweepOf(h) = {}
    BY <1>1, <2>3, Kinds DEF SmallBlocks, SweepOf
  <2>5. ToVisit(h) = {}
    BY <1>2, <2>3 DEF ToVisit, Ahead
  <2> QED
    BY <2>1, <2>3, <2>4, <2>5
<1>6. Objects(h) = {}
  BY <1>5, Kinds DEF Objects
<1>7. TypeOK
  <2>1. <<>> \in Remainders(instance.order)
    BY <1>2, BlocksAssumption, SuffixOf
  <2> QED
    BY <1>2, <1>4, <2>1 DEF TypeOK
<1>8. PhaseInv
  BY <1>1, <1>2 DEF PhaseInv
<1>9. Shaped(h, {at})
  <2>1. Listed(h)
    <3>1. IsInjective(<<>>)
      BY DEF IsInjective
    <3> QED
      BY <1>5, <3>1 DEF Listed
  <2>2. Placed(h, {at})
    BY <1>1, <1>5, Kinds DEF Placed
  <2>3. Owned(h)
    BY <1>1, <1>5, Kinds DEF Owned
  <2> QED
    BY <1>4, <2>1, <2>2, <2>3 DEF Shaped
<1>10. Budgeted(h)
  <2>1. Cardinality({}) = 0
    BY FS_EmptySet
  <2> QED
    BY <1>1, <1>3, <2>1 DEF Budgeted, Accounted
<1>11. Tinted(h, collecting, marking, ToVisit(h))
  BY <1>1, <1>2, <1>5 DEF Tinted
<1>12. Sheltered(h, held, destroyed, ToVisit(h))
  BY <1>2, <1>6 DEF Sheltered
<1>13. Cursor(h, destroyed)
  BY <1>2 DEF Cursor
<1>14. Found(h)
  BY <1>2 DEF Found
<1> QED
  BY <1>7, <1>8, <1>9, <1>10, <1>11, <1>12, <1>13, <1>14 DEF IInv

LEMMA StutterStep ==
  ASSUME IInv, UNCHANGED vars
  PROVE  IInv'
<1>1. UNCHANGED <<h, held, destroyed, doomed, marking, collecting, instance, pc, closing,
                  todo, at, next, putOnFreeList>>
  BY DEF vars, phase, pass
<1>2. (\A a : Ahead(h, a)' = Ahead(h, a)) /\ ToVisit(h)' = ToVisit(h)
  BY <1>1 DEF Ahead, ToVisit
<1>3. TypeOK'
  BY <1>1 DEF IInv, TypeOK
<1>4. PhaseInv' /\ Cursor(h, destroyed)'
  <2>1. PhaseInv'
    BY <1>1 DEF IInv, PhaseInv
  <2>2. Cursor(h, destroyed)'
    BY <1>1 DEF IInv, Cursor, Between, Using
  <2> QED
    BY <2>1, <2>2
<1>5. Found(h)'
  BY <1>1, <1>2 DEF IInv, Found
<1>6. /\ Shaped(h, {at})' /\ Budgeted(h)'
      /\ Tinted(h, collecting, marking, ToVisit(h))'
      /\ Sheltered(h, held, destroyed, ToVisit(h))'
  <2>1. /\ Shaped(h, {at}) /\ Budgeted(h)
        /\ Tinted(h, collecting, marking, ToVisit(h)) /\ Sheltered(h, held, destroyed, ToVisit(h))
    BY DEF IInv
  <2>2. Shaped(h, {at})' /\ Budgeted(h)'
    BY <1>1, <2>1 DEF Shaped, Listed, Placed, Owned, Budgeted, Accounted, Using
  <2>3. Tinted(h, collecting, marking, ToVisit(h))'
    BY <1>1, <1>2, <2>1 DEF Tinted
  <2>4. Sheltered(h, held, destroyed, ToVisit(h))'
    BY <1>1, <1>2, <2>1 DEF Sheltered
  <2> QED
    BY <2>2, <2>3, <2>4
<1> QED
  BY <1>3, <1>4, <1>5, <1>6 DEF IInv

\* The program allocates, deletes or drops a reference, in a destructor or not.
LEMMA ProgramStep ==
  ASSUME IInv, Cautious = TRUE,
         \/ \E a \in Small : AllocFromQuickList(a) \/ AllocSlow(a) \/ FreeSmall(a)
         \/ AllocLarge \/ FreeLarge \/ Drop
  PROVE  IInv'
<1>1. ASSUME NEW a \in Small, AllocFromQuickList(a)
      PROVE  IInv'
  BY <1>1, QuickStep
<1>2. ASSUME NEW a \in Small, AllocSlow(a)
      PROVE  IInv'
  <2>1. pc \in {"run", "presweep", "final"}
    BY <1>2 DEF AllocSlow, ProgramRuns
  <2> QED
    BY <1>2, <2>1, SlowRunStep, SlowCollectStep
<1>3. ASSUME NEW a \in Small, FreeSmall(a)
      PROVE  IInv'
  <2>1. pc \in {"run", "presweep", "final"}
    BY <1>3 DEF FreeSmall, ProgramRuns
  <2> QED
    BY <1>3, <2>1, FreeSmallRunStep, FreeCollectStep
<1>4. CASE AllocLarge
  <2>1. pc \in {"run", "presweep", "final"}
    BY <1>4 DEF AllocLarge, ProgramRuns
  <2> QED
    BY <1>4, <2>1, LargeRunStep, LargeCollectStep
<1>5. CASE FreeLarge
  <2>1. pc \in {"run", "presweep", "final"}
    BY <1>5 DEF FreeLarge, ProgramRuns
  <2> QED
    BY <1>5, <2>1, FreeLargeRunStep, FreeCollectStep
<1>6. CASE Drop
  BY <1>6, DropStep
<1> QED
  BY <1>1, <1>2, <1>3, <1>4, <1>5, <1>6

\* The pass visits a block or runs a destructor.
LEMMA CollectorStep ==
  ASSUME IInv,
         \/ \E a \in Plain : LazySweepPass(a)
         \/ \E a \in Finalizing : BeginFinalizationPass(a) \/ FinalizeItem(a) \/ LeaveBlock(a)
         \/ FinalizeLarge \/ EndFinalizer
  PROVE  IInv'
BY LazyStep, BeginPassStep, FinalizeItemStep, LeaveBlockStep, FinalizeLargeStep, EndFinalizerStep

LEMMA NextStep ==
  ASSUME IInv, Cautious = TRUE, [Next]_vars
  PROVE  IInv'
<1>1. CASE \/ \E a \in Small : AllocFromQuickList(a) \/ AllocSlow(a) \/ FreeSmall(a)
           \/ AllocLarge \/ FreeLarge \/ Drop
  BY <1>1, ProgramStep
<1>2. CASE StartIncrementalMark \/ MarkObject \/ BeginSweep \/ ForceSweepAtShutdown
  BY <1>2, StartStep, MarkStep, BeginSweepStep, ForceSweepStep
<1>3. CASE BeginFinalize
  BY <1>3, BeginFinalizeStep
<1>4. CASE \/ \E a \in Plain : LazySweepPass(a)
           \/ \E a \in Finalizing : BeginFinalizationPass(a) \/ FinalizeItem(a) \/ LeaveBlock(a)
           \/ FinalizeLarge \/ EndFinalizer
  BY <1>4, CollectorStep
<1>5. CASE EndSweep
  BY <1>5, EndSweepStep
<1>6. CASE UNCHANGED vars
  BY <1>6, StutterStep
<1> QED
  BY <1>1, <1>2, <1>3, <1>4, <1>5, <1>6 DEF Next

\* What the invariant says of the places of blocks and items.
LEMMA InvariantPlaces == IInv => PlacesExact
BY DEF IInv, PlacesExact, Shaped, PhaseInv

LEMMA InvariantMarks == IInv => MarksClean
<1> SUFFICES ASSUME IInv, pc = "run"
             PROVE  /\ \A a \in Allocs : \A b \in Own(h, a) : ~h.seen[b]
                    /\ \A i \in Item : h.bits[i] \in {"mark", "queued"} =>
                         marking \/ \E a \in Small : i[1] \in h.sweep[a]
                    /\ marking => \A a \in Small : h.sweep[a] = {}
  BY DEF MarksClean
<1>1. /\ h \in AllocatorState /\ Listed(h) /\ Owned(h) /\ h.empty = {}
      /\ Tinted(h, FALSE, marking, {})
  BY RunState DEF Shaped
<1>2. \A a \in Small : \A b \in Own(h, a) : ~h.seen[b]
  BY <1>1 DEF Tinted, SmallBlocks
<1>3. \A b \in Own(h, Large) : ~h.seen[b]
  <2> TAKE b \in Own(h, Large)
  <2>1. b \in Block /\ b \notin SmallBlocks(h)
    BY <1>1, Kinds, OwnType DEF Listed, SmallBlocks
  <2> QED
    BY <1>1, <2>1 DEF Owned
<1>4. \A i \in Item : h.bits[i] \in {"mark", "queued"} =>
        marking \/ \E a \in Small : i[1] \in h.sweep[a]
  BY <1>1 DEF Tinted, SweepOf
<1>5. marking => \A a \in Small : h.sweep[a] = {}
  BY <1>1 DEF Tinted, SweepOf
<1> QED
  BY <1>2, <1>3, <1>4, <1>5, Kinds

\* Only the end of a collection forgets what was unmarked when its pass began.
LEMMA ReclaimedStep ==
  ASSUME IInv, [Next]_vars, doomed # {}, doomed' = {}, NEW i \in doomed \cap Objects(h')
  PROVE  ~closing /\ h'.bits[i] = "none" /\ \E a \in Small : i[1] \in h'.sweep[a]
<1>1. CASE EndSweep
  BY <1>1, EndSweepStep
<1>2. CASE BeginFinalize
  BY <1>2 DEF BeginFinalize, IInv, PhaseInv
<1>3. CASE UNCHANGED doomed
  BY <1>3
<1>4. EndSweep \/ BeginFinalize \/ UNCHANGED doomed
  <2>1. ASSUME NEW a \in Small, AllocFromQuickList(a) \/ AllocSlow(a) \/ FreeSmall(a)
        PROVE  UNCHANGED doomed
    BY <2>1 DEF AllocFromQuickList, AllocSlow, FreeSmall, pass
  <2>2. CASE AllocLarge \/ FreeLarge \/ Drop
    BY <2>2 DEF AllocLarge, FreeLarge, Drop, pass
  <2>3. CASE StartIncrementalMark \/ MarkObject \/ BeginSweep \/ ForceSweepAtShutdown
    BY <2>3 DEF StartIncrementalMark, MarkObject, BeginSweep, ForceSweepAtShutdown, pass
  <2>4. ASSUME NEW a \in Plain, LazySweepPass(a)
        PROVE  UNCHANGED doomed
    BY <2>4 DEF LazySweepPass
  <2>5. ASSUME NEW a \in Finalizing, BeginFinalizationPass(a) \/ FinalizeItem(a) \/ LeaveBlock(a)
        PROVE  UNCHANGED doomed
    BY <2>5 DEF BeginFinalizationPass, FinalizeItem, LeaveBlock, pass
  <2>6. CASE FinalizeLarge \/ EndFinalizer
    BY <2>6 DEF FinalizeLarge, EndFinalizer
  <2>7. CASE UNCHANGED vars
    BY <2>7 DEF vars, pass
  <2> QED
    BY <2>1, <2>2, <2>3, <2>4, <2>5, <2>6, <2>7 DEF Next
<1> QED
  BY <1>1, <1>2, <1>3, <1>4

\* Whatever the program and its destructors do in the middle of a collection,
\* within the limits of MayCreate, MayCoalesce and MayAllocLarge, the
\* invariant of the allocators, the pass and the lazy sweep holds.
THEOREM BlocksInvariant ==
  ASSUME Cautious = TRUE
  PROVE  Spec => []IInv
<1>1. IInv /\ [Next]_vars => IInv'
  BY NextStep
<1> QED
  BY <1>1, InitIInv, PTL DEF Spec

\* What the program refers to is an object that is neither freed nor destroyed,
\* also if it was born during the pass (GCAlloc.cpp, AllocSlow and Finalize;
\* GC.cpp:1187, 3117).
THEOREM BlocksHeldSafe ==
  ASSUME Cautious = TRUE
  PROVE  Spec => []HeldSafe
<1>1. IInv => HeldSafe
  BY DEF IInv, HeldSafe, Sheltered
<1> QED
  BY <1>1, BlocksInvariant, PTL

\* Each free item is in one place and each block on one list, and the quick
\* lists are empty during a collection (GCAlloc.cpp, GCAlloc::Alloc, AllocSlow,
\* CoalesceQuickList, Sweep).
THEOREM BlocksPlacesExact ==
  ASSUME Cautious = TRUE
  PROVE  Spec => []PlacesExact
BY BlocksInvariant, InvariantPlaces, PTL

\* The budget of an allocator is what it obtained less what its quick list
\* holds, and is never used up (GCAlloc.cpp, FillQuickList and AllocFromQuickList).
THEOREM BlocksBudgetExact ==
  ASSUME Cautious = TRUE
  PROVE  Spec => []BudgetExact
<1>1. IInv => BudgetExact
  BY DEF IInv, BudgetExact
<1> QED
  BY <1>1, BlocksInvariant, PTL

\* Between collections only the blocks to be swept have marks, and no block
\* counts as visited by the pass (GC.cpp:2002, GCAlloc::ClearMarks).
THEOREM BlocksMarksClean ==
  ASSUME Cautious = TRUE
  PROVE  Spec => []MarksClean
BY BlocksInvariant, InvariantMarks, PTL

\* No destructor runs twice, deletions in destructors included (GCAlloc.cpp,
\* Finalize; GC::AbortFree).
THEOREM BlocksFinalizedOnce ==
  ASSUME Cautious = TRUE
  PROVE  Spec => []FinalizedOnce
<1>1. IInv => FinalizedOnce
  BY DEF IInv, FinalizedOnce, Sheltered
<1> QED
  BY <1>1, BlocksInvariant, PTL

\* What was unmarked when the pass began has been freed when the collection
\* ends or awaits its sweep without a mark, and at shutdown it has been freed
\* (GC::Sweep, GC::Finalize).
THEOREM BlocksReclaimed ==
  ASSUME Cautious = TRUE
  PROVE  Spec => Reclaimed
<1>1. IInv /\ [Next]_vars =>
        [doomed # {} /\ doomed' = {} =>
           \A i \in doomed \cap Objects(h') :
             ~closing /\ h'.bits[i] = "none" /\ \E a \in Small : i[1] \in h'.sweep[a]]_vars
  BY ReclaimedStep
<1> QED
  BY <1>1, BlocksInvariant, PTL DEF Spec, Reclaimed
=============================================================================
