---------------------------- MODULE BlocksProofs ----------------------------
(***************************************************************************)
(* Proofs about Blocks, for all sets of blocks, allocators and instances   *)
(* and all sizes of blocks, when destructors respect the limits that       *)
(* MayCreate, MayCoalesce and MayAllocLarge describe.                      *)
(***************************************************************************)
EXTENDS Blocks, FiniteSetTheorems, TLAPS

-----------------------------------------------------------------------------
(* Lists of blocks.                                                        *)

\* The items of a block.
LEMMA UpTo ==
  ASSUME NEW n \in Nat
  PROVE  IsFiniteSet(1..n) /\ Cardinality(1..n) = n
<1>1. IsFiniteSet(1..n) /\ Cardinality(1..n) = IF 1 > n THEN 0 ELSE n - 1 + 1
  BY FS_Interval
<1> QED
  BY <1>1

LEMMA RangeOf ==
  ASSUME NEW S, NEW s \in Seq(S)
  PROVE  /\ Len(s) \in Nat /\ DOMAIN s = 1..Len(s)
         /\ Range(s) \subseteq S
         /\ \A x : x \in Range(s) <=> \E j \in 1..Len(s) : s[j] = x
BY DEF Range

LEMMA Ordered ==
  ASSUME NEW S, NEW s \in Seq(S), IsInjective(s)
  PROVE  /\ \A x, y : Before(s, x, y) => x \in Range(s) /\ y \in Range(s) /\ x # y
         /\ \A x \in Range(s), y \in Range(s) : x = y \/ Before(s, x, y) \/ Before(s, y, x)
         /\ \A x, y : ~(Before(s, x, y) /\ Before(s, y, x))
         /\ \A x, y, z : Before(s, x, y) /\ Before(s, y, z) => Before(s, x, z)
<1>1. DOMAIN s = 1..Len(s) /\ Len(s) \in Nat
  OBVIOUS
<1>2. \A j, k \in 1..Len(s) : s[j] = s[k] => j = k
  BY <1>1 DEF IsInjective
<1> QED
  BY <1>1, <1>2, RangeOf DEF Before

LEMMA AppendOrder ==
  ASSUME NEW S, NEW s \in Seq(S), IsInjective(s), NEW b \in S, b \notin Range(s)
  PROVE  /\ Append(s, b) \in Seq(S) /\ IsInjective(Append(s, b))
         /\ Range(Append(s, b)) = Range(s) \cup {b}
         /\ \A x, y : Before(Append(s, b), x, y) <=>
                        Before(s, x, y) \/ (x \in Range(s) /\ y = b)
<1> DEFINE t == Append(s, b)
<1>1. /\ Len(s) \in Nat /\ DOMAIN s = 1..Len(s)
      /\ t \in Seq(S) /\ Len(t) = Len(s) + 1 /\ DOMAIN t = 1..(Len(s) + 1)
      /\ t[Len(s) + 1] = b /\ \A j \in 1..Len(s) : t[j] = s[j]
  OBVIOUS
<1>2. \A j \in 1..Len(s) : s[j] # b
  BY <1>1 DEF Range
<1> HIDE DEF t
<1>3. IsInjective(t)
  BY <1>1, <1>2 DEF IsInjective
<1>4. Range(t) = Range(s) \cup {b}
  <2>1. \A x : x \in Range(t) => x \in Range(s) \cup {b}
    BY <1>1 DEF Range
  <2>2. \A x : x \in Range(s) \cup {b} => x \in Range(t)
    BY <1>1 DEF Range
  <2> QED
    BY <2>1, <2>2
<1>5. ASSUME NEW x, NEW y
      PROVE  Before(t, x, y) <=> Before(s, x, y) \/ (x \in Range(s) /\ y = b)
  <2>1. Before(t, x, y) => Before(s, x, y) \/ (x \in Range(s) /\ y = b)
    BY <1>1, <1>2, RangeOf DEF Before
  <2>2. Before(s, x, y) => Before(t, x, y)
    BY <1>1 DEF Before
  <2>3. x \in Range(s) /\ y = b => Before(t, x, y)
    BY <1>1, RangeOf DEF Before
  <2> QED
    BY <2>1, <2>2, <2>3
<1> QED
  BY <1>1, <1>3, <1>4, <1>5 DEF t

LEMMA PrependOrder ==
  ASSUME NEW S, NEW s \in Seq(S), IsInjective(s), NEW b \in S, b \notin Range(s)
  PROVE  /\ <<b>> \o s \in Seq(S) /\ IsInjective(<<b>> \o s)
         /\ Range(<<b>> \o s) = Range(s) \cup {b}
         /\ \A x, y : Before(<<b>> \o s, x, y) <=>
                        Before(s, x, y) \/ (y \in Range(s) /\ x = b)
<1> DEFINE t == <<b>> \o s
<1>1. /\ Len(s) \in Nat /\ DOMAIN s = 1..Len(s)
      /\ t \in Seq(S) /\ Len(t) = Len(s) + 1 /\ DOMAIN t = 1..(Len(s) + 1)
      /\ t[1] = b /\ \A j \in 1..Len(s) : t[j + 1] = s[j]
  OBVIOUS
<1>2. \A j \in 1..Len(s) : s[j] # b
  BY <1>1 DEF Range
<1>3. \A j \in 1..(Len(s) + 1) : j = 1 \/ \E i \in 1..Len(s) : j = i + 1 /\ t[j] = s[i]
  <2> TAKE j \in 1..(Len(s) + 1)
  <2>1. CASE j # 1
    <3>1. j - 1 \in 1..Len(s) /\ j = (j - 1) + 1
      BY <1>1, <2>1
    <3> QED
      BY <1>1, <3>1
  <2> QED
    BY <2>1
<1> HIDE DEF t
<1>4. IsInjective(t)
  <2>1. \A i, k \in 1..Len(s) : s[i] = s[k] => i = k
    BY <1>1 DEF IsInjective
  <2>2. \A j, k \in 1..(Len(s) + 1) : t[j] = t[k] => j = k
    BY <1>1, <1>2, <1>3, <2>1
  <2> QED
    BY <1>1, <2>2 DEF IsInjective
<1>5. Range(t) = Range(s) \cup {b}
  <2>1. \A x : x \in Range(t) => x \in Range(s) \cup {b}
    BY <1>1, <1>3 DEF Range
  <2>2. \A x : x \in Range(s) \cup {b} => x \in Range(t)
    BY <1>1 DEF Range
  <2> QED
    BY <2>1, <2>2
<1>6. ASSUME NEW x, NEW y
      PROVE  Before(t, x, y) <=> Before(s, x, y) \/ (y \in Range(s) /\ x = b)
  <2>1. Before(t, x, y) => Before(s, x, y) \/ (y \in Range(s) /\ x = b)
    BY <1>1, <1>2, <1>3, RangeOf DEF Before
  <2>2. Before(s, x, y) => Before(t, x, y)
    BY <1>1 DEF Before
  <2>3. y \in Range(s) /\ x = b => Before(t, x, y)
    BY <1>1, RangeOf DEF Before
  <2> QED
    BY <2>1, <2>2, <2>3
<1> QED
  BY <1>1, <1>4, <1>5, <1>6 DEF t

\* What After finds: nothing behind x, or the block that comes next.
LEMMA AfterOrder ==
  ASSUME NEW s \in Seq(Block), IsInjective(s), NEW x \in Range(s)
  PROVE  \/ After(s, x) = None /\ \A y : ~Before(s, x, y)
         \/ /\ After(s, x) \in Range(s) /\ Before(s, x, After(s, x))
            /\ \A y : Before(s, x, y) => y = After(s, x) \/ Before(s, After(s, x), y)
<1>1. /\ Len(s) \in Nat /\ DOMAIN s = 1..Len(s)
      /\ \A j \in 1..Len(s) : s[j] \in Block
      /\ \A j, k \in 1..Len(s) : s[j] = s[k] => j = k
  BY DEF IsInjective
<1>2. PICK i \in 1..Len(s) : s[i] = x
  BY RangeOf
<1>3. (CHOOSE j \in 1..Len(s) : s[j] = x) = i
  BY <1>1, <1>2
<1>4. x # None
  BY <1>1, <1>2, BlocksAssumption
<1>5. After(s, x) = IF i + 1 > Len(s) THEN None ELSE s[i + 1]
  <2> DEFINE c == CHOOSE j \in 1..Len(s) : s[j] = x
  <2>1. After(s, x) = IF c + 1 > Len(s) THEN None ELSE s[c + 1]
    BY <1>4 DEF After
  <2>2. c = i
    BY <1>3
  <2> HIDE DEF c
  <2> QED
    BY <2>1, <2>2
<1> QED
  BY <1>1, <1>2, <1>5, RangeOf DEF Before

LEMMA AfterNone ==
  ASSUME NEW s \in Seq(Block), IsInjective(s)
  PROVE  \/ After(s, None) = None /\ Range(s) = {}
         \/ /\ After(s, None) \in Range(s)
            /\ \A y \in Range(s) : y = After(s, None) \/ Before(s, After(s, None), y)
<1>1. /\ Len(s) \in Nat /\ DOMAIN s = 1..Len(s)
      /\ \A j \in 1..Len(s) : s[j] \in Block
  OBVIOUS
<1>2. After(s, None) = IF 1 > Len(s) THEN None ELSE s[1]
  BY DEF After
<1> QED
  BY <1>1, <1>2, RangeOf DEF Before

\* Without keeps the rest of a list, in its order.
LEMMA WithoutPicks ==
  ASSUME NEW S, NEW s \in Seq(S), NEW bs
  PROVE  LET t == Without(s, bs)
             keep == {j \in 1..Len(s) : s[j] \notin bs}
         IN \E p \in [1..Len(t) -> keep] :
              /\ t \in Seq(S) /\ Len(t) \in Nat
              /\ \A k \in 1..Len(t) : t[k] = s[p[k]]
              /\ \A j, k \in 1..Len(t) : j < k => p[j] < p[k]
              /\ \A j \in keep : \E k \in 1..Len(t) : p[k] = j
<1> DEFINE keep == {j \in 1..Len(s) : s[j] \notin bs}
           Upto(j) == {i \in keep : i <= j}
           place == [j \in keep |-> Cardinality(Upto(j))]
           n == Cardinality(keep)
<1>1. Len(s) \in Nat /\ keep \subseteq 1..Len(s) /\ \A j \in keep : s[j] \in S
  OBVIOUS
<1>2. IsFiniteSet(keep) /\ n \in Nat
  <2>1. IsFiniteSet(1..Len(s))
    BY <1>1, FS_Interval
  <2> QED
    BY <1>1, <2>1, FS_Subset, FS_CardinalityType
<1>3. \A j \in keep : IsFiniteSet(Upto(j)) /\ Cardinality(Upto(j)) \in 1..n
  <2> TAKE j \in keep
  <2>1. Upto(j) \in SUBSET keep /\ Upto(j) # {}
    BY <1>1
  <2>2. IsFiniteSet(Upto(j)) /\ Cardinality(Upto(j)) <= n
    BY <1>2, <2>1, FS_Subset
  <2>3. Cardinality(Upto(j)) \in Nat /\ Cardinality(Upto(j)) # 0
    BY <2>1, <2>2, FS_CardinalityType, FS_EmptySet
  <2> HIDE DEF Upto, n
  <2> QED
    BY <1>2, <2>2, <2>3
<1>4. \A i, j \in keep : i < j => Cardinality(Upto(i)) < Cardinality(Upto(j))
  <2> SUFFICES ASSUME NEW i \in keep, NEW j \in keep, i < j
               PROVE  Cardinality(Upto(i)) < Cardinality(Upto(j))
    OBVIOUS
  <2>1. Upto(i) \in SUBSET Upto(j) /\ j \in Upto(j) /\ j \notin Upto(i)
    BY <1>1
  <2>2. Cardinality(Upto(i)) <= Cardinality(Upto(j)) /\ Cardinality(Upto(i)) # Cardinality(Upto(j))
    BY <1>3, <2>1, FS_Subset
  <2> HIDE DEF Upto
  <2> QED
    BY <1>2, <1>3, <2>2
<1> HIDE DEF Upto
<1>5. place \in [keep -> 1..n]
  BY <1>3
<1>6. \A i, j \in keep : (i < j => place[i] < place[j]) /\ (place[i] = place[j] => i = j)
  <2>1. \A i, j \in keep : i < j => place[i] < place[j]
    BY <1>4
  <2> HIDE DEF place
  <2> QED
    BY <1>1, <1>2, <1>5, <2>1
<1> HIDE DEF place
<1>7. place \in Injection(keep, 1..n)
  <2>1. IsInjective(place)
    BY <1>5, <1>6 DEF IsInjective
  <2> HIDE DEF keep, n
  <2> QED
    BY <1>5, <2>1 DEF Injection
<1>8. \A k \in 1..n : \E j \in keep : place[j] = k
  <2>1. IsFiniteSet(1..n) /\ Cardinality(1..n) = n
    BY <1>2, FS_Interval
  <2>2. place \in Surjection(keep, 1..n)
    <3> HIDE DEF keep
    <3> QED
      BY <1>7, <2>1, FS_Injection
  <2> HIDE DEF keep, n
  <2> QED
    BY <2>2 DEF Surjection
<1> DEFINE p == [k \in 1..n |-> CHOOSE j \in keep : place[j] = k]
<1>9. p \in [1..n -> keep] /\ \A k \in 1..n : place[p[k]] = k
  <2> HIDE DEF keep, n
  <2> QED
    BY <1>8
<1>10. \A j \in keep : place[j] \in 1..n /\ p[place[j]] = j
  <2> HIDE DEF keep, n, p
  <2> QED
    BY <1>5, <1>6, <1>9
<1>11. \A j, k \in 1..n : j < k => p[j] < p[k]
  <2> SUFFICES ASSUME NEW j \in 1..n, NEW k \in 1..n, j < k
               PROVE  p[j] < p[k]
    OBVIOUS
  <2>1. p[j] \in keep /\ p[k] \in keep /\ place[p[j]] = j /\ place[p[k]] = k
    BY <1>9
  <2>2. p[j] \in Int /\ p[k] \in Int
    BY <1>1, <2>1
  <2>3. ~(p[k] < p[j]) /\ p[k] # p[j]
    <3> HIDE DEF keep, n, p
    <3> QED
      BY <1>6, <2>1
  <2> HIDE DEF p
  <2> QED
    BY <2>2, <2>3
<1>12. Without(s, bs) = [k \in 1..n |-> s[p[k]]]
  <2>1. Without(s, bs) = [k \in 1..n |-> s[CHOOSE j \in keep : Cardinality(Upto(j)) = k]]
    BY DEF Without, Upto
  <2>2. \A k \in 1..n : (CHOOSE j \in keep : Cardinality(Upto(j)) = k) = p[k]
    BY DEF place
  <2> HIDE DEF n, keep, p
  <2> QED
    BY <2>1, <2>2
<1> DEFINE t == [k \in 1..n |-> s[p[k]]]
<1>13. t \in Seq(S) /\ Len(t) = n /\ \A k \in 1..n : t[k] = s[p[k]]
  <2> HIDE DEF n, keep, p
  <2>1. t \in [1..n -> S]
    BY <1>1, <1>9
  <2> QED
    BY <1>2, <2>1
<1> HIDE DEF n, keep, p, t
<1>14. \A j \in keep : \E k \in 1..n : p[k] = j
  BY <1>10
<1>15. t = Without(s, bs)
  BY <1>12 DEF t
<1>16. /\ t \in Seq(S) /\ Len(t) \in Nat /\ p \in [1..Len(t) -> keep]
       /\ \A k \in 1..Len(t) : t[k] = s[p[k]]
       /\ \A j, k \in 1..Len(t) : j < k => p[j] < p[k]
       /\ \A j \in keep : \E k \in 1..Len(t) : p[k] = j
  BY <1>2, <1>9, <1>11, <1>13, <1>14
<1> QED
  BY <1>15, <1>16 DEF keep

LEMMA WithoutOrder ==
  ASSUME NEW S, NEW s \in Seq(S), IsInjective(s), NEW bs
  PROVE  /\ Without(s, bs) \in Seq(S) /\ IsInjective(Without(s, bs))
         /\ Range(Without(s, bs)) = Range(s) \ bs
         /\ \A x, y : Before(Without(s, bs), x, y) <=>
                        Before(s, x, y) /\ x \notin bs /\ y \notin bs
<1> DEFINE t == Without(s, bs)
           keep == {j \in 1..Len(s) : s[j] \notin bs}
<1>1. PICK p \in [1..Len(t) -> keep] :
         /\ t \in Seq(S) /\ Len(t) \in Nat
         /\ \A k \in 1..Len(t) : t[k] = s[p[k]]
         /\ \A j, k \in 1..Len(t) : j < k => p[j] < p[k]
         /\ \A j \in keep : \E k \in 1..Len(t) : p[k] = j
  BY WithoutPicks
<1>2. /\ Len(s) \in Nat /\ DOMAIN s = 1..Len(s) /\ DOMAIN t = 1..Len(t)
      /\ \A k \in 1..Len(t) : p[k] \in 1..Len(s) /\ s[p[k]] \notin bs
      /\ \A j, k \in 1..Len(s) : s[j] = s[k] => j = k
  BY <1>1 DEF IsInjective
<1>3. \A j \in 1..Len(s) : s[j] \notin bs => \E k \in 1..Len(t) : p[k] = j /\ t[k] = s[j]
  BY <1>1
<1> HIDE DEF t, keep
<1>4. \A j, k \in 1..Len(t) : p[j] < p[k] => j < k
  BY <1>1, <1>2
<1>5. IsInjective(t)
  BY <1>1, <1>2 DEF IsInjective
<1>6. Range(t) = Range(s) \ bs
  <2>1. \A x : x \in Range(t) => x \in Range(s) \ bs
    BY <1>1, <1>2 DEF Range
  <2>2. ASSUME NEW x \in Range(s) \ bs
        PROVE  x \in Range(t)
    <3>1. PICK j \in 1..Len(s) : s[j] = x
      BY <1>2 DEF Range
    <3>2. PICK k \in 1..Len(t) : t[k] = s[j]
      BY <1>3, <3>1
    <3> QED
      BY <1>2, <3>1, <3>2 DEF Range
  <2> QED
    BY <2>1, <2>2
<1>7. ASSUME NEW x, NEW y
      PROVE  Before(t, x, y) <=> Before(s, x, y) /\ x \notin bs /\ y \notin bs
  <2>1. Before(t, x, y) => Before(s, x, y) /\ x \notin bs /\ y \notin bs
    BY <1>1, <1>2 DEF Before
  <2>2. Before(s, x, y) /\ x \notin bs /\ y \notin bs => Before(t, x, y)
    BY <1>2, <1>3, <1>4 DEF Before
  <2> QED
    BY <2>1, <2>2
<1> QED
  BY <1>1, <1>5, <1>6, <1>7 DEF t

-----------------------------------------------------------------------------
(* The operations on the allocators, field by field.                       *)

LEMMA Fields ==
  ASSUME NEW g \in AllocatorState
  PROVE  /\ g.list \in [Allocs -> Seq(Block)] /\ g.avail \in [Small -> SUBSET Block]
         /\ g.sweep \in [Small -> SUBSET Block] /\ g.quick \in [Small -> SUBSET Item]
         /\ g.budget \in [Small -> Int] /\ g.obtained \in [Small -> Nat]
         /\ g.free \in [Block -> SUBSET (1..N)]
         /\ g.bits \in [Item -> {"none", "mark", "queued", "free"}]
         /\ g.fin \in SUBSET Item /\ g.seen \in [Block -> BOOLEAN]
         /\ g.passed \in SUBSET Allocs /\ g.empty \in SUBSET Block
BY DEF AllocatorState

LEMMA UnlinkFields ==
  ASSUME NEW g \in AllocatorState, NEW bs
  PROVE  LET x == Unlink(g, bs)
         IN /\ x.list = [a \in Allocs |-> Without(g.list[a], bs)]
            /\ x.avail = [a \in Small |-> g.avail[a] \ bs]
            /\ x.sweep = g.sweep /\ x.quick = g.quick
            /\ x.budget = g.budget /\ x.obtained = g.obtained
            /\ x.free = g.free /\ x.bits = g.bits /\ x.fin = g.fin /\ x.seen = g.seen
            /\ x.passed = g.passed /\ x.empty = g.empty
            /\ x \in AllocatorState
<1>1. \A a \in Allocs : Without(g.list[a], bs) \in Seq(Block)
  BY WithoutPicks, Fields
<1> QED
  BY <1>1 DEF Unlink, AllocatorState

LEMMA FreeChunksFields ==
  ASSUME NEW g \in AllocatorState, NEW bs
  PROVE  LET x == FreeChunks(g, bs)
         IN /\ x.list = g.list /\ x.avail = g.avail
            /\ x.sweep = g.sweep /\ x.quick = g.quick
            /\ x.budget = g.budget /\ x.obtained = g.obtained
            /\ x.free = [b \in Block |-> IF b \in bs THEN {} ELSE g.free[b]]
            /\ x.bits = [i \in Item |-> IF i[1] \in bs THEN "none" ELSE g.bits[i]]
            /\ x.fin = {i \in g.fin : i[1] \notin bs}
            /\ x.seen = [b \in Block |-> b \notin bs /\ g.seen[b]]
            /\ x.passed = g.passed /\ x.empty = g.empty
            /\ x \in AllocatorState
BY DEF FreeChunks, AllocatorState

Back(g, A) == UNION {g.quick[a] : a \in A}

\* x is what Merge makes of g.
Merged(g, A, x) ==
  /\ x \in AllocatorState /\ x.list = g.list /\ x.sweep = g.sweep
  /\ x.bits = g.bits /\ x.fin = g.fin /\ x.seen = g.seen
  /\ x.passed = g.passed /\ x.empty = g.empty
  /\ \A a \in Small :
       /\ x.avail[a] = g.avail[a] \cup
            {b \in Own(g, a) : a \in A /\ g.free[b] = {} /\ x.free[b] # {}}
       /\ x.quick[a] = IF a \in A THEN {} ELSE g.quick[a]
       /\ x.budget[a] = IF a \in A THEN N ELSE g.budget[a]
       /\ x.obtained[a] = IF a \in A THEN N ELSE g.obtained[a]
  /\ \A b \in Block : x.free[b] = g.free[b] \cup {i \in 1..N : <<b, i>> \in Back(g, A)}

LEMMA MergeFields ==
  ASSUME NEW g \in AllocatorState, NEW A \in SUBSET Small
  PROVE  Merged(g, A, Merge(g, A))
<1> DEFINE free == [b \in Block |-> g.free[b] \cup {i \in 1..N : <<b, i>> \in Back(g, A)}]
           avail == [a \in Small |-> g.avail[a] \cup
                      {b \in Own(g, a) : a \in A /\ g.free[b] = {} /\ free[b] # {}}]
           quick == [a \in Small |-> IF a \in A THEN {} ELSE g.quick[a]]
           budget == [a \in Small |-> IF a \in A THEN N ELSE g.budget[a]]
           obtained == [a \in Small |-> IF a \in A THEN N ELSE g.obtained[a]]
<1>1. \A a \in Small : Own(g, a) \subseteq Block
  BY Fields, RangeOf DEF Own, Allocs
<1>2. /\ free \in [Block -> SUBSET (1..N)]
      /\ quick \in [Small -> SUBSET Item]
      /\ budget \in [Small -> Int] /\ obtained \in [Small -> Nat]
  BY Fields, BlocksAssumption
<1>3. avail \in [Small -> SUBSET Block]
  BY <1>1, Fields
<1>4. Merge(g, A) = [g EXCEPT !.free = free, !.avail = avail, !.quick = quick,
                       !.budget = budget, !.obtained = obtained]
  BY Fields, Zenon DEF Merge, Back
<1> HIDE DEF free, avail, quick, budget, obtained
<1>5. LET x == Merge(g, A)
      IN /\ x.list = g.list /\ x.avail = avail /\ x.sweep = g.sweep /\ x.quick = quick
         /\ x.budget = budget /\ x.obtained = obtained /\ x.free = free
         /\ x.bits = g.bits /\ x.fin = g.fin /\ x.seen = g.seen
         /\ x.passed = g.passed /\ x.empty = g.empty
         /\ x \in AllocatorState
  BY <1>2, <1>3, <1>4 DEF AllocatorState
<1> QED
  BY <1>5 DEF free, avail, quick, budget, obtained, Merged

LEMMA CoalesceIs ==
  ASSUME NEW g \in AllocatorState, NEW A \in SUBSET Small, NEW x \in Coalesce(g, A)
  PROVE  \E bs \in SUBSET Block :
           /\ x = FreeChunks(Unlink(Merge(g, A), bs), bs)
           /\ \A b \in bs : \E a \in A : /\ b \in Own(g, a) \ g.sweep[a]
                                         /\ Merge(g, A).free[b] = 1..N
<1> DEFINE m == Merge(g, A)
<1>1. m \in AllocatorState /\ m.list = g.list /\ m.sweep = g.sweep
  BY MergeFields DEF Merged
<1>2. \A a \in Small : Own(m, a) \subseteq Block /\ Own(m, a) = Own(g, a)
  BY <1>1, Fields, RangeOf DEF Own, Allocs
<1> HIDE DEF m
<1>3. PICK f : x = FreeChunks(Unlink(m, UNION {Empty(m, a, f[a]) : a \in A}),
                              UNION {Empty(m, a, f[a]) : a \in A})
  BY Zenon DEF Coalesce, m
<1> DEFINE bs == UNION {Empty(m, a, f[a]) : a \in A}
<1>4. \A b \in bs : \E a \in A : b \in Own(m, a) \ m.sweep[a] /\ m.free[b] = 1..N
  BY DEF Empty
<1>5. bs \in SUBSET Block
  BY <1>2, <1>4
<1> HIDE DEF bs
<1>6. x = FreeChunks(Unlink(m, bs), bs)
  BY <1>3 DEF bs
<1> QED
  BY <1>1, <1>2, <1>4, <1>5, <1>6 DEF m

\* What Coalesce and Sweep have in common: they give the blocks bs back.
GivesBack(g, x, bs) ==
  /\ x \in AllocatorState /\ bs \in SUBSET SmallBlocks(g)
  /\ \A a \in Allocs : x.list[a] = Without(g.list[a], bs)
  /\ \A b \in Block : x.seen[b] = (b \notin bs /\ g.seen[b])
  /\ x.fin \subseteq g.fin
  /\ x.passed = g.passed /\ x.empty = g.empty

\* x is what Coalesce makes of g, or of m when its items have gone back.
Coalesced(g, A, m, x, bs) ==
  /\ GivesBack(g, x, bs)
  /\ Merged(g, A, m)
  /\ \A b \in bs : \E a \in A : b \in Own(g, a) \ g.sweep[a] /\ m.free[b] = 1..N
  /\ x.sweep = g.sweep /\ x.quick = m.quick /\ x.budget = m.budget /\ x.obtained = m.obtained
  /\ \A a \in Small : x.avail[a] = m.avail[a] \ bs
  /\ \A b \in Block : x.free[b] = IF b \in bs THEN {} ELSE m.free[b]
  /\ \A i \in Item : x.bits[i] = IF i[1] \in bs THEN "none" ELSE g.bits[i]

LEMMA CoalesceFields ==
  ASSUME NEW g \in AllocatorState, NEW A \in SUBSET Small, NEW x \in Coalesce(g, A)
  PROVE  \E bs \in SUBSET Block : Coalesced(g, A, Merge(g, A), x, bs)
<1> DEFINE m == Merge(g, A)
<1>1. PICK bs \in SUBSET Block :
        /\ x = FreeChunks(Unlink(m, bs), bs)
        /\ \A b \in bs : \E a \in A : b \in Own(g, a) \ g.sweep[a] /\ m.free[b] = 1..N
  BY CoalesceIs
<1> DEFINE u == Unlink(m, bs)
<1>2. Merged(g, A, m)
  BY MergeFields
<1>3. m \in AllocatorState
  BY <1>2 DEF Merged
<1>4. /\ u.list = [a \in Allocs |-> Without(m.list[a], bs)]
      /\ u.avail = [a \in Small |-> m.avail[a] \ bs]
      /\ u.sweep = m.sweep /\ u.quick = m.quick
      /\ u.budget = m.budget /\ u.obtained = m.obtained
      /\ u.free = m.free /\ u.bits = m.bits /\ u.fin = m.fin /\ u.seen = m.seen
      /\ u.passed = m.passed /\ u.empty = m.empty
      /\ u \in AllocatorState
  BY <1>3, UnlinkFields
<1>5. /\ x.list = u.list /\ x.avail = u.avail
      /\ x.sweep = u.sweep /\ x.quick = u.quick
      /\ x.budget = u.budget /\ x.obtained = u.obtained
      /\ x.free = [b \in Block |-> IF b \in bs THEN {} ELSE u.free[b]]
      /\ x.bits = [i \in Item |-> IF i[1] \in bs THEN "none" ELSE u.bits[i]]
      /\ x.fin = {i \in u.fin : i[1] \notin bs}
      /\ x.seen = [b \in Block |-> b \notin bs /\ u.seen[b]]
      /\ x.passed = u.passed /\ x.empty = u.empty
      /\ x \in AllocatorState
  BY <1>1, <1>4, FreeChunksFields
<1> HIDE DEF m, u
<1>6. bs \in SUBSET SmallBlocks(g)
  BY <1>1 DEF SmallBlocks
<1>7. GivesBack(g, x, bs)
  BY <1>2, <1>4, <1>5, <1>6 DEF GivesBack, Merged
<1>8. Coalesced(g, A, m, x, bs)
  BY <1>1, <1>2, <1>4, <1>5, <1>7 DEF Coalesced, Merged
<1> QED
  BY <1>8 DEF m

\* The free items of the blocks once S has been swept.
SweptFree(g, S) ==
  [b \in Block |-> IF b \notin S THEN g.free[b]
                   ELSE {i \in 1..N : i \in g.free[b] \/ g.bits[<<b, i>>] = "none"}]

\* x is what Sweep makes of g.
Swept(g, S, x, bs) ==
  /\ GivesBack(g, x, bs)
  /\ bs = {b \in S : SweptFree(g, S)[b] = 1..N}
  /\ \A a \in Small :
       /\ x.avail[a] = (g.avail[a] \cup {b \in S \cap g.sweep[a] : SweptFree(g, S)[b] # {}}) \ bs
       /\ x.sweep[a] = g.sweep[a] \ S
  /\ x.quick = g.quick /\ x.budget = g.budget /\ x.obtained = g.obtained
  /\ \A b \in Block : x.free[b] = IF b \in bs THEN {} ELSE SweptFree(g, S)[b]
  /\ \A i \in Item : x.bits[i] = IF i[1] \in bs THEN "none"
                                 ELSE IF i[1] \notin S THEN g.bits[i]
                                 ELSE IF i[2] \in SweptFree(g, S)[i[1]] THEN "free" ELSE "none"
  /\ \A i \in x.fin : i[1] \in S => i[2] \notin SweptFree(g, S)[i[1]]

LEMMA SweepFields ==
  ASSUME NEW g \in AllocatorState, NEW S \in SUBSET SmallBlocks(g)
  PROVE  Swept(g, S, Sweep(g, S), {b \in S : SweptFree(g, S)[b] = 1..N})
<1> DEFINE free == SweptFree(g, S)
           bs == {b \in S : free[b] = 1..N}
           avail == [a \in Small |-> g.avail[a] \cup {b \in S \cap g.sweep[a] : free[b] # {}}]
           sweep == [a \in Small |-> g.sweep[a] \ S]
           bits == [i \in Item |-> CASE i[1] \notin S -> g.bits[i]
                                     [] i[1] \in S /\ i[2] \in free[i[1]] -> "free"
                                     [] OTHER -> "none"]
           fin == {i \in g.fin : i[1] \in S => i[2] \notin free[i[1]]}
           m == [g EXCEPT !.free = free, !.avail = avail, !.sweep = sweep,
                          !.bits = bits, !.fin = fin]
<1>1. Sweep(g, S) = FreeChunks(Unlink(m, bs), bs)
  BY Zenon DEF Sweep, SweptFree
<1>2. free \in [Block -> SUBSET (1..N)]
  BY Fields DEF SweptFree
<1>3. avail \in [Small -> SUBSET Block] /\ sweep \in [Small -> SUBSET Block] /\ fin \in SUBSET Item
  BY Fields
<1>4. bits \in [Item -> {"none", "mark", "queued", "free"}]
  BY Fields
<1>5. \A i \in Item : bits[i] = IF i[1] \notin S THEN g.bits[i]
                                ELSE IF i[2] \in free[i[1]] THEN "free" ELSE "none"
  OBVIOUS
<1>6. bs \in SUBSET SmallBlocks(g) /\ bs \in SUBSET Block
  BY Fields, RangeOf DEF SmallBlocks, Own, Allocs
<1> HIDE DEF free, avail, sweep, bits, fin
<1>7. /\ m \in AllocatorState
      /\ m.list = g.list /\ m.quick = g.quick /\ m.budget = g.budget
      /\ m.obtained = g.obtained /\ m.seen = g.seen /\ m.passed = g.passed
      /\ m.empty = g.empty
      /\ m.free = free /\ m.avail = avail /\ m.sweep = sweep /\ m.bits = bits /\ m.fin = fin
  BY <1>2, <1>3, <1>4 DEF AllocatorState
<1> HIDE DEF m, bs
<1> DEFINE u == Unlink(m, bs)
           x == Sweep(g, S)
<1>8. /\ u.list = [a \in Allocs |-> Without(m.list[a], bs)]
      /\ u.avail = [a \in Small |-> m.avail[a] \ bs]
      /\ u.sweep = m.sweep /\ u.quick = m.quick
      /\ u.budget = m.budget /\ u.obtained = m.obtained
      /\ u.free = m.free /\ u.bits = m.bits /\ u.fin = m.fin /\ u.seen = m.seen
      /\ u.passed = m.passed /\ u.empty = m.empty
      /\ u \in AllocatorState
  BY <1>7, UnlinkFields
<1> HIDE DEF u
<1>9. /\ x.list = u.list /\ x.avail = u.avail
      /\ x.sweep = u.sweep /\ x.quick = u.quick
      /\ x.budget = u.budget /\ x.obtained = u.obtained
      /\ x.free = [b \in Block |-> IF b \in bs THEN {} ELSE u.free[b]]
      /\ x.bits = [i \in Item |-> IF i[1] \in bs THEN "none" ELSE u.bits[i]]
      /\ x.fin = {i \in u.fin : i[1] \notin bs}
      /\ x.seen = [b \in Block |-> b \notin bs /\ u.seen[b]]
      /\ x.passed = u.passed /\ x.empty = u.empty
      /\ x \in AllocatorState
  BY <1>1, <1>8, FreeChunksFields DEF u
<1> HIDE DEF x
<1>10. GivesBack(g, x, bs)
  BY <1>6, <1>7, <1>8, <1>9 DEF GivesBack, fin
<1>11. \A i \in Item : x.bits[i] = IF i[1] \in bs THEN "none"
                                     ELSE IF i[1] \notin S THEN g.bits[i]
                                     ELSE IF i[2] \in free[i[1]] THEN "free" ELSE "none"
  BY <1>5, <1>7, <1>8, <1>9
<1>12. /\ \A a \in Small :
            /\ x.avail[a] = (g.avail[a] \cup {b \in S \cap g.sweep[a] : free[b] # {}}) \ bs
            /\ x.sweep[a] = g.sweep[a] \ S
       /\ x.fin \subseteq g.fin /\ \A i \in x.fin : i[1] \in S => i[2] \notin free[i[1]]
  BY <1>7, <1>8, <1>9 DEF avail, sweep, fin
<1>13. /\ x.quick = g.quick /\ x.budget = g.budget /\ x.obtained = g.obtained
       /\ \A b \in Block : x.free[b] = IF b \in bs THEN {} ELSE free[b]
  BY <1>7, <1>8, <1>9
<1> QED
  BY <1>10, <1>11, <1>12, <1>13, Zenon DEF x, bs, free, Swept

LEMMA OwnType ==
  ASSUME NEW g \in AllocatorState, NEW a \in Allocs
  PROVE  Own(g, a) \subseteq Block /\ g.list[a] \in Seq(Block)
BY Fields, RangeOf DEF Own

LEMMA Kinds ==
  /\ Small \subseteq Allocs /\ Large \in Allocs /\ Large \notin Small
  /\ Plain \subseteq Small /\ Finalizing \subseteq Small /\ Plain \cap Finalizing = {}
  /\ \A a \in Allocs : a \in Small \/ a = Large
  /\ \A a \in Small : a \in Plain \/ a \in Finalizing
BY BlocksAssumption DEF Allocs, Small

LEMMA GivesBackLists ==
  ASSUME NEW g \in AllocatorState, Listed(g), NEW x, NEW bs, GivesBack(g, x, bs)
  PROVE  /\ \A a \in Allocs :
              /\ Own(x, a) = Own(g, a) \ bs
              /\ \A y, z : Before(x.list[a], y, z) <=>
                             Before(g.list[a], y, z) /\ y \notin bs /\ z \notin bs
         /\ Own(x, Large) = Own(g, Large)
         /\ \A y, z : Before(x.list[Large], y, z) <=> Before(g.list[Large], y, z)
         /\ SmallBlocks(x) = SmallBlocks(g) \ bs
         /\ Listed(x)
<1>1. ASSUME NEW a \in Allocs
      PROVE  /\ Own(x, a) = Own(g, a) \ bs /\ IsInjective(x.list[a])
             /\ \A y, z : Before(x.list[a], y, z) <=>
                            Before(g.list[a], y, z) /\ y \notin bs /\ z \notin bs
  <2>1. g.list[a] \in Seq(Block) /\ IsInjective(g.list[a])
    BY Fields DEF Listed
  <2>2. x.list[a] = Without(g.list[a], bs)
    BY DEF GivesBack
  <2> QED
    BY <2>1, <2>2, WithoutOrder DEF Own
<1>2. SmallBlocks(x) = SmallBlocks(g) \ bs
  BY <1>1, Kinds DEF SmallBlocks
<1>3. Own(g, Large) \cap bs = {}
  BY Kinds DEF GivesBack, Listed, SmallBlocks
<1>4. \A y, z : Before(g.list[Large], y, z) => y \in Own(g, Large) /\ z \in Own(g, Large)
  BY Fields, Kinds, Ordered DEF Listed, Own
<1>5. Listed(x)
  BY <1>1 DEF Listed, GivesBack
<1> QED
  BY <1>1, <1>2, <1>3, <1>4, <1>5, Kinds

\* The items that go back come from the quick list of the block's allocator.
LEMMA BackOf ==
  ASSUME NEW g \in AllocatorState, Listed(g), NEW out, Placed(g, out), NEW A \in SUBSET Small,
         NEW a \in Small, NEW b \in Own(g, a), NEW i \in 1..N
  PROVE  <<b, i>> \in Back(g, A) <=> a \in A /\ <<b, i>> \in g.quick[a]
<1>1. ASSUME NEW c \in A, <<b, i>> \in g.quick[c]
      PROVE  c = a
  <2>1. b \in Own(g, c)
    BY <1>1 DEF Placed
  <2> QED
    BY <2>1, Kinds DEF Listed
<1> QED
  BY <1>1 DEF Back

LEMMA MergePlaced ==
  ASSUME NEW g \in AllocatorState, Listed(g), NEW out, Placed(g, out), NEW A \in SUBSET Small,
         NEW m, Merged(g, A, m)
  PROVE  Placed(m, out) /\ Listed(m)
<1>1. /\ m.list = g.list /\ m.sweep = g.sweep
      /\ \A a \in Small : /\ m.avail[a] = g.avail[a] \cup
                               {b \in Own(g, a) : a \in A /\ g.free[b] = {} /\ m.free[b] # {}}
                          /\ m.quick[a] = IF a \in A THEN {} ELSE g.quick[a]
      /\ \A b \in Block : m.free[b] = g.free[b] \cup {i \in 1..N : <<b, i>> \in Back(g, A)}
      /\ m.bits = g.bits /\ m.empty = g.empty
  BY DEF Merged
<1>2. \A a \in Allocs : Own(m, a) = Own(g, a)
  BY <1>1 DEF Own
<1>3. ASSUME NEW a \in Small, NEW b \in Own(g, a), NEW i \in 1..N
      PROVE  /\ i \in m.free[b] <=> i \in g.free[b] \/ (a \in A /\ <<b, i>> \in g.quick[a])
             /\ <<b, i>> \in m.quick[a] <=> a \notin A /\ <<b, i>> \in g.quick[a]
  <2>1. b \in Block
    BY OwnType, Kinds
  <2> QED
    BY <1>1, <2>1, BackOf
<1>4. ASSUME NEW a \in Small, NEW b \in Own(g, a), NEW i \in 1..N
      PROVE  /\ ~(<<b, i>> \in m.quick[a] /\ i \in m.free[b])
             /\ m.bits[<<b, i>>] = "free" <=> <<b, i>> \in m.quick[a] \/ i \in m.free[b]
  BY <1>1, <1>3 DEF Placed
<1>5. ASSUME NEW a \in Small
      PROVE  /\ m.avail[a] \cap m.sweep[a] = {}
             /\ m.avail[a] \cup m.sweep[a] \subseteq Own(m, a)
             /\ m.quick[a] \subseteq (Own(m, a) \ m.sweep[a]) \X (1..N)
             /\ \A b \in m.avail[a] : m.free[b] # {}
             /\ \A b \in Own(m, a) : m.free[b] = {} \/ b \in m.avail[a] \cup m.sweep[a] \cup out
  <2>1. /\ g.avail[a] \cap g.sweep[a] = {}
        /\ g.avail[a] \cup g.sweep[a] \subseteq Own(g, a)
        /\ g.quick[a] \subseteq (Own(g, a) \ g.sweep[a]) \X (1..N)
        /\ \A b \in g.avail[a] : g.free[b] # {}
        /\ \A b \in Own(g, a) : g.free[b] = {} \/ b \in g.avail[a] \cup g.sweep[a] \cup out
    BY DEF Placed
  <2>2. Own(m, a) = Own(g, a) /\ Own(g, a) \subseteq Block
    BY <1>2, OwnType, Kinds
  <2>3. \A b \in Block : m.free[b] \subseteq 1..N /\ g.free[b] \subseteq m.free[b]
    BY <1>1, Fields
  <2>4. ASSUME NEW b \in Own(g, a), g.free[b] = {}, m.free[b] # {}
        PROVE  a \in A /\ b \notin g.sweep[a]
    <3>1. PICK i \in 1..N : i \in m.free[b]
      BY <2>2, <2>3, <2>4
    <3>2. a \in A /\ <<b, i>> \in g.quick[a]
      BY <1>3, <2>4, <3>1
    <3> QED
      BY <2>1, <3>2
  <2>5. m.avail[a] = g.avail[a] \cup {b \in Own(g, a) : a \in A /\ g.free[b] = {} /\ m.free[b] # {}}
    BY <1>1
  <2>6. m.quick[a] \subseteq g.quick[a] /\ m.sweep[a] = g.sweep[a]
    BY <1>1
  <2>7. \A b \in m.avail[a] : m.free[b] # {}
    BY <2>1, <2>2, <2>3, <2>5
  <2>8. \A b \in Own(m, a) : m.free[b] = {} \/ b \in m.avail[a] \cup m.sweep[a] \cup out
    BY <2>1, <2>2, <2>4, <2>5, <2>6
  <2>9. m.avail[a] \cap m.sweep[a] = {} /\ m.avail[a] \cup m.sweep[a] \subseteq Own(m, a)
    BY <2>1, <2>2, <2>4, <2>5, <2>6
  <2> QED
    BY <2>1, <2>2, <2>6, <2>7, <2>8, <2>9
<1>6. Listed(m)
  BY <1>1, <1>2 DEF Listed
<1>7. \A a \in Small : Own(m, a) = Own(g, a)
  BY <1>2, Kinds
<1>8. Placed(m, out)
  BY <1>4, <1>5, <1>7 DEF Placed
<1> QED
  BY <1>6, <1>8

\* What the callers of Coalesce need of its result x.
LEMMA CoalescePlaced ==
  ASSUME NEW g \in AllocatorState, Listed(g), NEW out, Placed(g, out), NEW A \in SUBSET Small,
         NEW m, NEW x, NEW bs \in SUBSET Block, Coalesced(g, A, m, x, bs)
  PROVE  /\ x \in AllocatorState /\ Listed(x) /\ Placed(x, out)
         /\ \A b \in bs : \A i \in 1..N : g.bits[<<b, i>>] = "free"
         /\ \A a \in Small : \A b \in Own(x, a) :
              {i \in 1..N : <<b, i>> \in Back(g, A)} = {} =>
                /\ x.free[b] = g.free[b]
                /\ b \in x.avail[a] => b \in g.avail[a]
<1>1. /\ GivesBack(g, x, bs)
      /\ \A b \in bs : \E a \in A : b \in Own(g, a) \ g.sweep[a] /\ m.free[b] = 1..N
      /\ x.sweep = g.sweep /\ x.quick = m.quick
      /\ \A a \in Small : x.avail[a] = m.avail[a] \ bs
      /\ \A b \in Block : x.free[b] = IF b \in bs THEN {} ELSE m.free[b]
      /\ \A i \in Item : x.bits[i] = IF i[1] \in bs THEN "none" ELSE g.bits[i]
  BY DEF Coalesced
<1>2. Merged(g, A, m)
  BY DEF Coalesced
<1>3. Placed(m, out)
  BY <1>2, MergePlaced
<1>4. m.list = g.list /\ m.bits = g.bits /\ m.sweep = g.sweep
  BY <1>2 DEF Merged
<1>5. \A a \in Allocs : Own(m, a) = Own(g, a)
  BY <1>4 DEF Own
<1>6. x \in AllocatorState /\ Listed(x) /\ \A a \in Allocs : Own(x, a) = Own(g, a) \ bs
  <2>1. x \in AllocatorState
    BY <1>1 DEF GivesBack
  <2> QED
    BY <1>1, <2>1, GivesBackLists
<1>7. ASSUME NEW b \in bs
      PROVE  \A i \in 1..N : g.bits[<<b, i>>] = "free"
  <2>1. PICK a \in A : b \in Own(g, a) \ g.sweep[a] /\ m.free[b] = 1..N
    BY <1>1
  <2>2. \A i \in 1..N : m.bits[<<b, i>>] = "free"
    BY <1>3, <1>5, <2>1, Kinds DEF Placed
  <2> QED
    BY <1>4, <2>2
<1>8. ASSUME NEW a \in Small
      PROVE  g.sweep[a] \cap bs = {} /\ m.quick[a] \cap (bs \X (1..N)) = {}
  <2>1. g.sweep[a] \subseteq Own(g, a)
    BY DEF Placed
  <2>2. g.sweep[a] \cap bs = {}
    BY <1>1, <2>1, Kinds DEF Listed
  <2>3. ASSUME NEW b \in bs, NEW i \in 1..N, <<b, i>> \in m.quick[a]
        PROVE  FALSE
    <3>1. b \in Own(m, a)
      BY <1>3, <2>3 DEF Placed
    <3>2. i \in m.free[b]
      BY <1>1
    <3> QED
      BY <1>3, <2>3, <3>1, <3>2 DEF Placed
  <2> QED
    BY <2>2, <2>3
<1>9. Placed(x, out)
  <2>1. ASSUME NEW a \in Small, NEW b \in Own(x, a), NEW i \in 1..N
        PROVE  /\ ~(<<b, i>> \in x.quick[a] /\ i \in x.free[b])
               /\ x.bits[<<b, i>>] = "free" <=> <<b, i>> \in x.quick[a] \/ i \in x.free[b]
    <3>1. b \in Own(m, a) /\ b \notin bs /\ b \in Block
      BY <1>5, <1>6, OwnType, Kinds
    <3>2. x.bits[<<b, i>>] = m.bits[<<b, i>>] /\ x.free[b] = m.free[b] /\ x.quick[a] = m.quick[a]
      BY <1>1, <1>4, <3>1 DEF Item
    <3> QED
      BY <1>3, <3>1, <3>2 DEF Placed
  <2>2. ASSUME NEW a \in Small
        PROVE  /\ x.avail[a] \cap x.sweep[a] = {}
               /\ x.avail[a] \cup x.sweep[a] \subseteq Own(x, a)
               /\ x.quick[a] \subseteq (Own(x, a) \ x.sweep[a]) \X (1..N)
               /\ \A b \in x.avail[a] : x.free[b] # {}
               /\ \A b \in Own(x, a) : x.free[b] = {} \/ b \in x.avail[a] \cup x.sweep[a] \cup out
    <3>1. /\ m.avail[a] \cap m.sweep[a] = {}
          /\ m.avail[a] \cup m.sweep[a] \subseteq Own(m, a)
          /\ m.quick[a] \subseteq (Own(m, a) \ m.sweep[a]) \X (1..N)
          /\ \A b \in m.avail[a] : m.free[b] # {}
          /\ \A b \in Own(m, a) : m.free[b] = {} \/ b \in m.avail[a] \cup m.sweep[a] \cup out
      BY <1>3 DEF Placed
    <3>2. Own(x, a) = Own(m, a) \ bs /\ Own(m, a) \subseteq Block
      BY <1>5, <1>6, OwnType, Kinds
    <3>3. /\ x.avail[a] = m.avail[a] \ bs
          /\ x.sweep[a] = m.sweep[a] /\ x.quick[a] = m.quick[a]
          /\ \A b \in Block \ bs : x.free[b] = m.free[b]
          /\ m.sweep[a] \cap bs = {} /\ m.quick[a] \cap (bs \X (1..N)) = {}
      BY <1>1, <1>4, <1>8
    <3> QED
      BY <3>1, <3>2, <3>3
  <2> QED
    BY <2>1, <2>2 DEF Placed
<1>10. ASSUME NEW a \in Small, NEW b \in Own(x, a), {i \in 1..N : <<b, i>> \in Back(g, A)} = {}
       PROVE  x.free[b] = g.free[b] /\ (b \in x.avail[a] => b \in g.avail[a])
  <2>1. b \in Own(g, a) /\ b \in Block /\ b \notin bs
    BY <1>6, OwnType, Kinds
  <2>2. m.free[b] = g.free[b] \cup {i \in 1..N : <<b, i>> \in Back(g, A)}
    BY <1>2, <2>1 DEF Merged
  <2>3. m.free[b] = g.free[b]
    BY <1>10, <2>2
  <2>4. m.avail[a] = g.avail[a] \cup {c \in Own(g, a) : a \in A /\ g.free[c] = {} /\ m.free[c] # {}}
    BY <1>2 DEF Merged
  <2>5. x.free[b] = m.free[b] /\ x.avail[a] = m.avail[a] \ bs
    BY <1>1, <2>1
  <2> QED
    BY <2>3, <2>4, <2>5
<1> QED
  BY <1>6, <1>7, <1>9, <1>10

LEMMA ItemOf ==
  /\ \A i \in Item : i[1] \in Block /\ i[2] \in 1..N /\ i = <<i[1], i[2]>>
  /\ \A b \in Block, k \in 1..N : <<b, k>> \in Item
  /\ 1 \in 1..N
BY BlocksAssumption DEF Item

LEMMA ObjectsOf ==
  ASSUME NEW g \in AllocatorState
  PROVE  /\ Objects(g) \subseteq Item
         /\ \A i \in Item : i \in Objects(g) <=>
              \/ i[1] \in SmallBlocks(g) /\ g.bits[i] # "free"
              \/ i[1] \in Own(g, Large) /\ i[2] = 1
<1>1. Own(g, Large) \subseteq Block
  BY OwnType, Kinds
<1>2. \A i \in Own(g, Large) \X {1} : i \in Item /\ i[1] \in Own(g, Large) /\ i[2] = 1
  BY <1>1, ItemOf DEF Item
<1>3. \A i \in Item : i[1] \in Own(g, Large) /\ i[2] = 1 => i \in Own(g, Large) \X {1}
  BY DEF Item
<1> QED
  BY <1>2, <1>3 DEF Objects

\* Coalesce neither adds objects nor takes any.
LEMMA CoalesceObjects ==
  ASSUME NEW g \in AllocatorState, Listed(g), NEW out, Placed(g, out), NEW A \in SUBSET Small,
         NEW m, NEW x, NEW bs \in SUBSET Block, Coalesced(g, A, m, x, bs)
  PROVE  /\ Objects(x) = Objects(g)
         /\ \A i \in Objects(g) : i[1] \notin bs /\ x.bits[i] = g.bits[i]
         /\ Owned(g) => Owned(x)
<1>1. x \in AllocatorState /\ \A b \in bs : \A i \in 1..N : g.bits[<<b, i>>] = "free"
  BY CoalescePlaced
<1>2. /\ GivesBack(g, x, bs)
      /\ \A i \in Item : x.bits[i] = IF i[1] \in bs THEN "none" ELSE g.bits[i]
  BY DEF Coalesced
<1>3. /\ Own(x, Large) = Own(g, Large) /\ SmallBlocks(x) = SmallBlocks(g) \ bs
      /\ \A a \in Allocs : Own(x, a) = Own(g, a) \ bs
  BY <1>2, GivesBackLists
<1>4. bs \cap Own(g, Large) = {}
  BY <1>3, Kinds
<1>5. ASSUME NEW i \in Objects(g)
      PROVE  i[1] \notin bs /\ x.bits[i] = g.bits[i] /\ i \in Item
  <2>1. i \in Item /\ ((i[1] \in SmallBlocks(g) /\ g.bits[i] # "free") \/ i[1] \in Own(g, Large))
    BY ObjectsOf
  <2>2. i[1] \notin bs
    BY <1>1, <1>4, <2>1, ItemOf
  <2> QED
    BY <1>2, <2>1, <2>2
<1>6. Objects(x) = Objects(g)
  <2>1. \A i \in Item : i \in Objects(x) <=> i \in Objects(g)
    BY <1>1, <1>2, <1>3, <1>5, ObjectsOf
  <2> QED
    BY <1>1, <2>1, ObjectsOf
<1>7. ASSUME Owned(g)
      PROVE  Owned(x)
  <2>1. \A i \in Item : x.bits[i] \in {"mark", "queued"} => i \in Objects(x)
    BY <1>2, <1>6, <1>7 DEF Owned
  <2>2. \A b \in Block : x.seen[b] => b \in SmallBlocks(x) \cup x.empty
    BY <1>2, <1>3, <1>7 DEF Owned, GivesBack
  <2>3. \A a \in Allocs \ Using : Own(x, a) = {}
    BY <1>3, <1>7 DEF Owned
  <2>4. ASSUME NEW b \in Own(x, Large)
        PROVE  x.bits[<<b, 1>>] # "free"
    <3>1. b \in Own(g, Large) /\ b \in Block /\ b \notin bs /\ <<b, 1>> \in Item
      BY <1>3, <1>4, OwnType, Kinds, ItemOf
    <3> QED
      BY <1>2, <1>7, <3>1 DEF Owned
  <2> QED
    BY <2>1, <2>2, <2>3, <2>4 DEF Owned
<1> QED
  BY <1>5, <1>6, <1>7

\* What the callers of Sweep need of its result x.
LEMMA SweepPlaced ==
  ASSUME NEW g \in AllocatorState, Listed(g), NEW out, Placed(g, out),
         NEW S \in SUBSET SweepOf(g)
  PROVE  LET x == Sweep(g, S)
             bs == {b \in S : SweptFree(g, S)[b] = 1..N}
         IN Swept(g, S, x, bs) /\ x \in AllocatorState /\ Listed(x) /\ Placed(x, out)
<1> DEFINE x == Sweep(g, S)
           free == SweptFree(g, S)
           bs == {b \in S : free[b] = 1..N}
<1>1. \A a \in Small : g.sweep[a] \subseteq Own(g, a)
  BY DEF Placed
<1>2. S \in SUBSET SmallBlocks(g) /\ S \subseteq Block
  BY <1>1, OwnType, Kinds DEF SweepOf, SmallBlocks
<1>3. Swept(g, S, x, bs)
  BY <1>2, SweepFields
<1>4. \A a \in Small : \A b \in Own(g, a) : b \in S => b \in g.sweep[a]
  BY <1>1, Kinds DEF SweepOf, Listed
<1>5. \A b \in Block : free[b] = IF b \notin S THEN g.free[b]
                ELSE {i \in 1..N : i \in g.free[b] \/ g.bits[<<b, i>>] = "none"}
  BY DEF SweptFree
<1> HIDE DEF x, free, bs
<1>6. /\ GivesBack(g, x, bs) /\ bs \subseteq S
      /\ \A a \in Small :
           /\ x.avail[a] = (g.avail[a] \cup {b \in S \cap g.sweep[a] : free[b] # {}}) \ bs
           /\ x.sweep[a] = g.sweep[a] \ S
      /\ x.quick = g.quick
      /\ \A b \in Block : x.free[b] = IF b \in bs THEN {} ELSE free[b]
      /\ \A i \in Item : x.bits[i] = IF i[1] \in bs THEN "none"
                                     ELSE IF i[1] \notin S THEN g.bits[i]
                                     ELSE IF i[2] \in free[i[1]] THEN "free" ELSE "none"
  BY <1>3 DEF Swept, free, bs
<1>7. x \in AllocatorState
  BY <1>6 DEF GivesBack
<1>8. Listed(x) /\ \A a \in Allocs : Own(x, a) = Own(g, a) \ bs
  BY <1>6, GivesBackLists
<1>9. ASSUME NEW a \in Small, NEW b \in Own(x, a)
      PROVE  /\ b \in Own(g, a) /\ b \in Block /\ b \notin bs
             /\ b \in S => b \in g.sweep[a] /\ \A i \in 1..N : <<b, i>> \notin g.quick[a]
  <2>1. b \in Own(g, a) /\ b \in Block /\ b \notin bs
    BY <1>8, OwnType, Kinds
  <2>2. b \in S => b \in g.sweep[a]
    BY <1>4, <2>1
  <2>3. g.quick[a] \subseteq (Own(g, a) \ g.sweep[a]) \X (1..N)
    BY DEF Placed
  <2> QED
    BY <2>1, <2>2, <2>3
<1>10. ASSUME NEW a \in Small, NEW b \in Own(x, a), NEW i \in 1..N
       PROVE  /\ ~(<<b, i>> \in x.quick[a] /\ i \in x.free[b])
              /\ x.bits[<<b, i>>] = "free" <=> <<b, i>> \in x.quick[a] \/ i \in x.free[b]
  <2>1. <<b, i>> \in Item
    BY <1>9, ItemOf
  <2>2. CASE b \in S
    BY <1>6, <1>9, <2>1, <2>2
  <2>3. CASE b \notin S
    <3>1. x.bits[<<b, i>>] = g.bits[<<b, i>>] /\ x.free[b] = g.free[b] /\ x.quick = g.quick
      BY <1>5, <1>6, <1>9, <2>1, <2>3
    <3> QED
      BY <1>9, <3>1 DEF Placed
  <2> QED
    BY <2>2, <2>3
<1>11. ASSUME NEW a \in Small
       PROVE  /\ x.avail[a] \cap x.sweep[a] = {}
              /\ x.avail[a] \cup x.sweep[a] \subseteq Own(x, a)
              /\ x.quick[a] \subseteq (Own(x, a) \ x.sweep[a]) \X (1..N)
              /\ \A b \in x.avail[a] : x.free[b] # {}
              /\ \A b \in Own(x, a) : x.free[b] = {} \/ b \in x.avail[a] \cup x.sweep[a] \cup out
  <2>1. /\ g.avail[a] \cap g.sweep[a] = {}
        /\ g.avail[a] \cup g.sweep[a] \subseteq Own(g, a)
        /\ g.quick[a] \subseteq (Own(g, a) \ g.sweep[a]) \X (1..N)
        /\ \A b \in g.avail[a] : g.free[b] # {}
        /\ \A b \in Own(g, a) : g.free[b] = {} \/ b \in g.avail[a] \cup g.sweep[a] \cup out
    BY DEF Placed
  <2>2. Own(x, a) = Own(g, a) \ bs /\ Own(g, a) \subseteq Block
    BY <1>8, OwnType, Kinds
  <2>3. /\ x.avail[a] = (g.avail[a] \cup {b \in S \cap g.sweep[a] : free[b] # {}}) \ bs
        /\ x.sweep[a] = g.sweep[a] \ S /\ x.quick[a] = g.quick[a]
    BY <1>6
  <2>4. \A b \in Own(g, a) : b \in S => b \in g.sweep[a]
    BY <1>4
  <2>5. x.avail[a] \cap x.sweep[a] = {} /\ x.avail[a] \cup x.sweep[a] \subseteq Own(x, a)
    BY <1>6, <2>1, <2>2, <2>3
  <2>6. x.quick[a] \subseteq (Own(x, a) \ x.sweep[a]) \X (1..N)
    BY <1>6, <2>1, <2>2, <2>3, <2>4
  <2>7. \A b \in Block : /\ b \notin bs => x.free[b] = free[b]
                         /\ b \notin S => free[b] = g.free[b]
    BY <1>5, <1>6
  <2>8. \A b \in x.avail[a] : x.free[b] # {}
    BY <2>1, <2>2, <2>3, <2>4, <2>5, <2>7
  <2>9. ASSUME NEW b \in Own(x, a), x.free[b] # {}
        PROVE  b \in x.avail[a] \cup x.sweep[a] \cup out
    <3>1. b \in Own(g, a) /\ b \notin bs /\ b \in Block
      BY <2>2
    <3>2. CASE b \in S
      BY <2>3, <2>4, <2>7, <2>9, <3>1, <3>2
    <3>3. CASE b \notin S
      BY <2>1, <2>3, <2>7, <2>9, <3>1, <3>3
    <3> QED
      BY <3>2, <3>3
  <2> QED
    BY <2>5, <2>6, <2>8, <2>9
<1>12. Placed(x, out)
  BY <1>10, <1>11 DEF Placed
<1> QED
  BY <1>3, <1>7, <1>8, <1>12 DEF x, bs, free

\* Sweep takes objects without marks from the blocks it sweeps, no others.
LEMMA SweepObjects ==
  ASSUME NEW g \in AllocatorState, Listed(g), NEW out, Placed(g, out),
         NEW S \in SUBSET SweepOf(g)
  PROVE  LET x == Sweep(g, S)
         IN /\ Objects(x) \subseteq Objects(g)
            /\ \A i \in Objects(g) : i[1] \in S =>
                 IF g.bits[i] \in {"mark", "queued"} THEN i \in Objects(x) ELSE i \notin Objects(x)
            /\ \A i \in Objects(g) : i[1] \notin S => i \in Objects(x)
            /\ \A i \in Objects(x) : x.bits[i] = IF i[1] \in S THEN "none" ELSE g.bits[i]
            /\ \A i \in Item : x.bits[i] \in {"mark", "queued"} =>
                 i[1] \notin S /\ x.bits[i] = g.bits[i]
            /\ Owned(g) => Owned(x)
<1> DEFINE x == Sweep(g, S)
           free == SweptFree(g, S)
           bs == {b \in S : free[b] = 1..N}
<1>1. Swept(g, S, x, bs) /\ x \in AllocatorState
  BY SweepPlaced
<1>2. \A a \in Small : g.sweep[a] \subseteq Own(g, a)
  BY DEF Placed
<1>3. S \subseteq SmallBlocks(g) /\ S \subseteq Block
  BY <1>2, OwnType, Kinds DEF SweepOf, SmallBlocks
<1>4. \A b \in Block : free[b] = IF b \notin S THEN g.free[b]
                ELSE {i \in 1..N : i \in g.free[b] \/ g.bits[<<b, i>>] = "none"}
  BY DEF SweptFree
<1>5. \A b \in S : b \in bs <=> free[b] = 1..N
  OBVIOUS
<1> HIDE DEF x, free, bs
<1>6. /\ GivesBack(g, x, bs) /\ bs \subseteq S
      /\ \A i \in Item : x.bits[i] = IF i[1] \in bs THEN "none"
                                     ELSE IF i[1] \notin S THEN g.bits[i]
                                     ELSE IF i[2] \in free[i[1]] THEN "free" ELSE "none"
  BY <1>1 DEF Swept, free, bs
<1>7. /\ Own(x, Large) = Own(g, Large) /\ SmallBlocks(x) = SmallBlocks(g) \ bs
      /\ \A a \in Allocs : Own(x, a) = Own(g, a) \ bs
  BY <1>6, GivesBackLists
<1>8. S \cap Own(g, Large) = {}
  BY <1>3, Kinds DEF SmallBlocks, Listed
<1>9. ASSUME NEW i \in Item, i[1] \in S
      PROVE  /\ g.bits[i] = "free" <=> i[2] \in g.free[i[1]]
             /\ i[2] \in free[i[1]] <=> g.bits[i] \in {"free", "none"}
             /\ i \in Objects(g) <=> g.bits[i] # "free"
             /\ i \in Objects(x) <=> g.bits[i] \in {"mark", "queued"}
  <2>1. PICK a \in Small : i[1] \in g.sweep[a]
    BY <1>9 DEF SweepOf
  <2>2. g.quick[a] \subseteq (Own(g, a) \ g.sweep[a]) \X (1..N)
    BY DEF Placed
  <2>3. i[1] \in Own(g, a) /\ i[2] \in 1..N /\ i = <<i[1], i[2]>> /\ i \notin g.quick[a]
    BY <1>2, <2>1, <2>2, ItemOf
  <2>4. g.bits[i] = "free" <=> i[2] \in g.free[i[1]]
    BY <2>3 DEF Placed
  <2>5. i[2] \in free[i[1]] <=> g.bits[i] \in {"free", "none"}
    <3>1. g.bits[<<i[1], i[2]>>] = g.bits[i]
      BY <2>3
    <3>2. free[i[1]] = {k \in 1..N : k \in g.free[i[1]] \/ g.bits[<<i[1], k>>] = "none"}
      BY <1>3, <1>4, <1>9
    <3>3. i[2] \in free[i[1]] <=> i[2] \in g.free[i[1]] \/ g.bits[<<i[1], i[2]>>] = "none"
      BY <2>3, <3>2
    <3> QED
      BY <2>4, <3>1, <3>3
  <2>6. i \in Objects(g) <=> g.bits[i] # "free"
    BY <1>3, <1>8, <1>9, ObjectsOf
  <2>7. g.bits[i] \in {"none", "mark", "queued", "free"}
    BY Fields
  <2>8. i \in Objects(x) => g.bits[i] \in {"mark", "queued"}
    BY <1>1, <1>3, <1>6, <1>7, <1>8, <1>9, <2>5, <2>7, ObjectsOf
  <2>9. g.bits[i] \in {"mark", "queued"} => i \in Objects(x)
    BY <1>1, <1>3, <1>5, <1>6, <1>7, <1>9, <2>3, <2>5, ObjectsOf
  <2> QED
    BY <2>4, <2>5, <2>6, <2>8, <2>9
<1>10. ASSUME NEW i \in Item, i[1] \notin S
       PROVE  (i \in Objects(x) <=> i \in Objects(g)) /\ x.bits[i] = g.bits[i]
  BY <1>1, <1>6, <1>7, <1>10, ObjectsOf
<1>11. Objects(g) \subseteq Item /\ Objects(x) \subseteq Item
  BY <1>1, ObjectsOf
<1>12. Objects(x) \subseteq Objects(g)
  BY <1>9, <1>10, <1>11
<1>13. \A i \in Objects(g) : i[1] \in S =>
         IF g.bits[i] \in {"mark", "queued"} THEN i \in Objects(x) ELSE i \notin Objects(x)
  BY <1>9, <1>11
<1>14. \A i \in Objects(g) : i[1] \notin S => i \in Objects(x)
  BY <1>10, <1>11
<1>15. ASSUME NEW i \in Item, i[1] \in S
       PROVE  x.bits[i] \in {"none", "free"} /\ (i \in Objects(x) => x.bits[i] = "none")
  BY <1>6, <1>9, <1>15
<1>16. \A i \in Objects(x) : x.bits[i] = IF i[1] \in S THEN "none" ELSE g.bits[i]
  BY <1>10, <1>11, <1>15
<1>17. \A i \in Item : x.bits[i] \in {"mark", "queued"} => i[1] \notin S /\ x.bits[i] = g.bits[i]
  BY <1>10, <1>15
<1>18. ASSUME Owned(g)
       PROVE  Owned(x)
  <2>1. \A i \in Item : x.bits[i] \in {"mark", "queued"} => i \in Objects(x)
    BY <1>10, <1>17, <1>18 DEF Owned
  <2>2. \A b \in Block : x.seen[b] => b \in SmallBlocks(x) \cup x.empty
    BY <1>6, <1>7, <1>18 DEF Owned, GivesBack
  <2>3. \A a \in Allocs \ Using : Own(x, a) = {}
    BY <1>7, <1>18 DEF Owned
  <2>4. ASSUME NEW b \in Own(x, Large)
        PROVE  x.bits[<<b, 1>>] # "free"
    <3>1. b \in Own(g, Large) /\ b \in Block /\ b \notin S /\ <<b, 1>> \in Item
      BY <1>7, <1>8, OwnType, Kinds, ItemOf
    <3> QED
      BY <1>10, <1>18, <3>1 DEF Owned
  <2> QED
    BY <2>1, <2>2, <2>3, <2>4 DEF Owned
<1> QED
  BY <1>12, <1>13, <1>14, <1>16, <1>17, <1>18 DEF x

-----------------------------------------------------------------------------
(* The operations keep the parts of the inductive invariant.               *)

LEMMA CoalesceSound ==
  ASSUME NEW g, NEW out, Shaped(g, out), NEW A \in SUBSET Small, NEW x \in Coalesce(g, A),
         NEW c, NEW m, NEW V, Tinted(g, c, m, V), NEW R, NEW D, Sheltered(g, R, D, V)
  PROVE  /\ Shaped(x, out) /\ Tinted(x, c, m, V) /\ Sheltered(x, R, D, V)
         /\ Objects(x) = Objects(g) /\ \A i \in Objects(g) : x.bits[i] = g.bits[i]
<1>1. g \in AllocatorState /\ Listed(g) /\ Placed(g, out) /\ Owned(g)
  BY DEF Shaped
<1>2. PICK bs \in SUBSET Block : Coalesced(g, A, Merge(g, A), x, bs)
  BY <1>1, CoalesceFields
<1>3. x \in AllocatorState /\ Listed(x) /\ Placed(x, out)
  BY <1>1, <1>2, CoalescePlaced
<1>4. /\ Objects(x) = Objects(g)
      /\ \A i \in Objects(g) : i[1] \notin bs /\ x.bits[i] = g.bits[i]
      /\ Owned(x)
  BY <1>1, <1>2, CoalesceObjects
<1>5. /\ GivesBack(g, x, bs) /\ x.sweep = g.sweep
      /\ \A i \in Item : x.bits[i] = IF i[1] \in bs THEN "none" ELSE g.bits[i]
  BY <1>2 DEF Coalesced
<1>6. SmallBlocks(x) = SmallBlocks(g) \ bs
  BY <1>1, <1>5, GivesBackLists
<1>7. SmallBlocks(g) \subseteq Block
  BY <1>1, OwnType, Kinds DEF SmallBlocks
<1>8. SweepOf(x) = SweepOf(g)
  BY <1>5 DEF SweepOf
<1>9. \A b \in SmallBlocks(x) : x.seen[b] <=> c /\ b \notin V
  BY <1>5, <1>6, <1>7 DEF Tinted, GivesBack
<1>10. Tinted(x, c, m, V)
  BY <1>5, <1>8, <1>9 DEF Tinted
<1>11. Sheltered(x, R, D, V)
  BY <1>4, <1>5, <1>8 DEF Sheltered, GivesBack
<1> QED
  BY <1>3, <1>4, <1>10, <1>11 DEF Shaped

LEMMA SweepSound ==
  ASSUME NEW g, NEW out, Shaped(g, out), NEW S \in SUBSET SweepOf(g),
         NEW c, NEW m, NEW V, Tinted(g, c, m, V), NEW R, NEW D, Sheltered(g, R, D, V)
  PROVE  LET x == Sweep(g, S)
         IN /\ Shaped(x, out) /\ Tinted(x, c, m, V) /\ Sheltered(x, R, D \cap Objects(x), V)
            /\ SweepOf(x) = SweepOf(g) \ S
<1> DEFINE x == Sweep(g, S)
           bs == {b \in S : SweptFree(g, S)[b] = 1..N}
<1>1. g \in AllocatorState /\ Listed(g) /\ Placed(g, out) /\ Owned(g)
  BY DEF Shaped
<1>2. Swept(g, S, x, bs) /\ x \in AllocatorState /\ Listed(x) /\ Placed(x, out)
  BY <1>1, SweepPlaced
<1>3. /\ Objects(x) \subseteq Objects(g)
      /\ \A i \in Objects(g) : i[1] \in S =>
           IF g.bits[i] \in {"mark", "queued"} THEN i \in Objects(x) ELSE i \notin Objects(x)
      /\ \A i \in Objects(g) : i[1] \notin S => i \in Objects(x)
      /\ \A i \in Objects(x) : x.bits[i] = IF i[1] \in S THEN "none" ELSE g.bits[i]
      /\ \A i \in Item : x.bits[i] \in {"mark", "queued"} =>
           i[1] \notin S /\ x.bits[i] = g.bits[i]
      /\ Owned(x)
  BY <1>1, SweepObjects
<1> HIDE DEF x, bs
<1>4. GivesBack(g, x, bs) /\ \A a \in Small : x.sweep[a] = g.sweep[a] \ S
  BY <1>2 DEF Swept
<1>5. SmallBlocks(x) = SmallBlocks(g) \ bs
  BY <1>1, <1>4, GivesBackLists
<1>6. SmallBlocks(g) \subseteq Block
  BY <1>1, OwnType, Kinds DEF SmallBlocks
<1>7. SweepOf(x) = SweepOf(g) \ S
  BY <1>4 DEF SweepOf
<1>8. \A b \in SmallBlocks(x) : x.seen[b] <=> c /\ b \notin V
  BY <1>4, <1>5, <1>6 DEF Tinted, GivesBack
<1>9. \A i \in Item : x.bits[i] = "mark" => i[1] \in V \cup SweepOf(x)
  BY <1>3, <1>7 DEF Tinted
<1>10. Tinted(x, c, m, V)
  BY <1>3, <1>7, <1>8, <1>9 DEF Tinted
<1>11. ASSUME NEW i \in R
       PROVE  i \in Objects(x) /\ (i[1] \in V \cup SweepOf(x) => x.bits[i] = "mark")
  <2>1. i \in Objects(g) /\ (i[1] \in V \cup SweepOf(g) => g.bits[i] = "mark")
    BY DEF Sheltered
  <2>2. V \cap S = {}
    BY DEF Tinted
  <2>3. CASE i[1] \in S
    BY <1>3, <1>7, <2>1, <2>2, <2>3
  <2>4. CASE i[1] \notin S
    BY <1>3, <1>7, <2>1, <2>4
  <2> QED
    BY <2>3, <2>4
<1>12. Sheltered(x, R, D \cap Objects(x), V)
  BY <1>4, <1>11 DEF Sheltered, GivesBack
<1> QED
  BY <1>2, <1>3, <1>7, <1>10, <1>12 DEF Shaped, x

\* The lists, bits and counts of blocks of g and y are the same.
Alike(g, y) ==
  /\ y \in AllocatorState
  /\ y.list = g.list /\ y.avail = g.avail /\ y.sweep = g.sweep /\ y.quick = g.quick
  /\ y.free = g.free /\ y.bits = g.bits /\ y.fin = g.fin /\ y.seen = g.seen
  /\ y.passed = g.passed /\ y.empty = g.empty

LEMMA AlikeSound ==
  ASSUME NEW g, NEW y, Alike(g, y), NEW out, Shaped(g, out),
         NEW c, NEW m, NEW V, Tinted(g, c, m, V), NEW R, NEW D, Sheltered(g, R, D, V)
  PROVE  /\ Shaped(y, out) /\ Tinted(y, c, m, V) /\ Sheltered(y, R, D, V)
         /\ Objects(y) = Objects(g)
<1>1. \A a \in Allocs : Own(y, a) = Own(g, a)
  BY DEF Own, Alike
<1>2. SmallBlocks(y) = SmallBlocks(g) /\ Own(y, Large) = Own(g, Large)
  BY <1>1, Kinds DEF SmallBlocks
<1>3. Objects(y) = Objects(g)
  BY <1>2 DEF Objects, Alike
<1>4. SweepOf(y) = SweepOf(g)
  BY DEF SweepOf, Alike
<1>5. Owned(y)
  BY <1>1, <1>2, <1>3 DEF Shaped, Owned, Alike
<1>6. Listed(y)
  BY <1>1 DEF Shaped, Listed, Alike
<1>7. Placed(y, out)
  BY <1>1, Kinds DEF Shaped, Placed, Alike
<1>8. Tinted(y, c, m, V)
  BY <1>2, <1>4 DEF Tinted, Alike
<1>9. Sheltered(y, R, D, V)
  BY <1>3, <1>4 DEF Sheltered, Alike
<1> QED
  BY <1>3, <1>5, <1>6, <1>7, <1>8, <1>9 DEF Shaped, Alike

LEMMA CoalesceBudget ==
  ASSUME NEW g \in AllocatorState, NEW A \in SUBSET Small, NEW x \in Coalesce(g, A)
  PROVE  /\ Accounted(g) => Accounted(x)
         /\ Budgeted(g) => Budgeted(x)
         /\ \A a \in Small : x.quick[a] = IF a \in A THEN {} ELSE g.quick[a]
         /\ \A a \in Small : x.budget[a] = IF a \in A THEN N ELSE g.budget[a]
<1>1. PICK bs \in SUBSET Block : Coalesced(g, A, Merge(g, A), x, bs)
  BY CoalesceFields
<1>2. \A a \in Small : /\ x.quick[a] = IF a \in A THEN {} ELSE g.quick[a]
                       /\ x.budget[a] = IF a \in A THEN N ELSE g.budget[a]
                       /\ x.obtained[a] = IF a \in A THEN N ELSE g.obtained[a]
  BY <1>1 DEF Coalesced, Merged
<1>3. Cardinality({}) = 0 /\ N \in Nat \ {0}
  BY FS_EmptySet, BlocksAssumption
<1>4. Accounted(g) => Accounted(x)
  BY <1>2, <1>3 DEF Accounted
<1> QED
  BY <1>2, <1>3, <1>4 DEF Budgeted

\* The quick list of an allocator is finite: its items are on listed blocks.
LEMMA QuickFinite ==
  ASSUME NEW g \in AllocatorState, NEW out, Placed(g, out), NEW a \in Small
  PROVE  IsFiniteSet(g.quick[a]) /\ Cardinality(g.quick[a]) \in Nat
<1>1. g.list[a] \in Seq(Block)
  BY OwnType, Kinds
<1>2. DOMAIN g.list[a] = 1..Len(g.list[a]) /\ Len(g.list[a]) \in Nat
  BY <1>1
<1>3. g.list[a] \in Surjection(1..Len(g.list[a]), Own(g, a))
  BY <1>1, <1>2 DEF Surjection, Own, Range
<1>4. IsFiniteSet(Own(g, a))
  BY <1>2, <1>3, FS_Interval, FS_Surjection
<1>5. IsFiniteSet(1..N)
  <2>1. N \in Nat
    BY BlocksAssumption
  <2> QED
    BY <2>1, UpTo
<1>6. IsFiniteSet(Own(g, a) \X (1..N))
  BY <1>4, <1>5, FS_Product
<1>7. g.quick[a] \subseteq Own(g, a) \X (1..N)
  BY DEF Placed
<1> QED
  BY <1>6, <1>7, FS_Subset, FS_CardinalityType

\* ObtainQuickListBudget makes up for a budget that has just run out.
LEMMA GrowSound ==
  ASSUME NEW g, NEW out, Shaped(g, out), NEW a \in Small, NEW y \in Grow(g, a),
         NEW c, NEW m, NEW V, Tinted(g, c, m, V), NEW R, NEW D, Sheltered(g, R, D, V),
         Accounted(g), \A d \in Small : IF d = a THEN g.budget[d] >= 0 ELSE g.budget[d] > 0
  PROVE  /\ Shaped(y, out) /\ Tinted(y, c, m, V) /\ Sheltered(y, R, D, V)
         /\ Budgeted(y)
         /\ Objects(y) = Objects(g) /\ y.empty = g.empty /\ y.passed = g.passed
<1>1. PICK A \in SUBSET ((Small \cap Using) \ {Float}) :
        \E x \in Coalesce(g, A) : y = [x EXCEPT !.budget[a] = @ + N, !.obtained[a] = @ + N]
  BY Zenon DEF Grow
<1>2. PICK x \in Coalesce(g, A) : y = [x EXCEPT !.budget[a] = @ + N, !.obtained[a] = @ + N]
  BY <1>1
<1>3. A \in SUBSET Small
  BY <1>1
<1>4. /\ Shaped(x, out) /\ Tinted(x, c, m, V) /\ Sheltered(x, R, D, V)
      /\ Objects(x) = Objects(g)
  BY <1>3, CoalesceSound
<1>5. g \in AllocatorState /\ x \in AllocatorState /\ Placed(x, out)
  BY <1>4 DEF Shaped
<1>6. x.empty = g.empty /\ x.passed = g.passed
  <2>1. \E bs \in SUBSET Block : Coalesced(g, A, Merge(g, A), x, bs)
    BY <1>3, <1>5, CoalesceFields
  <2> QED
    BY <2>1 DEF Coalesced, GivesBack
<1>7. N \in Nat \ {0}
  BY BlocksAssumption
<1>8. /\ Alike(x, y)
      /\ y.budget = [x.budget EXCEPT ![a] = @ + N]
      /\ y.obtained = [x.obtained EXCEPT ![a] = @ + N]
  <2> DEFINE bu == [x.budget EXCEPT ![a] = @ + N]
             ob == [x.obtained EXCEPT ![a] = @ + N]
  <2>1. x.budget \in [Small -> Int] /\ x.obtained \in [Small -> Nat]
    BY <1>5, Fields
  <2>2. bu \in [Small -> Int] /\ ob \in [Small -> Nat]
    BY <1>7, <2>1
  <2>3. y = [x EXCEPT !.budget = bu, !.obtained = ob]
    BY <1>2, <1>5 DEF AllocatorState
  <2> HIDE DEF bu, ob
  <2>4. /\ y \in AllocatorState /\ y.budget = bu /\ y.obtained = ob
        /\ y.list = x.list /\ y.avail = x.avail /\ y.sweep = x.sweep /\ y.quick = x.quick
        /\ y.free = x.free /\ y.bits = x.bits /\ y.fin = x.fin /\ y.seen = x.seen
        /\ y.passed = x.passed /\ y.empty = x.empty
    BY <1>5, <2>2, <2>3 DEF AllocatorState
  <2> QED
    BY <2>4 DEF Alike, bu, ob
<1>9. Accounted(x) /\ \A d \in Small : x.budget[d] = IF d \in A THEN N ELSE g.budget[d]
  BY <1>3, <1>5, CoalesceBudget
<1>10. ASSUME NEW d \in Small
       PROVE  /\ y.budget[d] + Cardinality(y.quick[d]) = y.obtained[d]
              /\ y.obtained[d] >= N /\ y.budget[d] > 0
  <2>1. /\ x.budget[d] \in Int /\ x.obtained[d] \in Nat /\ y.quick[d] = x.quick[d]
        /\ y.budget[d] = IF d = a THEN x.budget[d] + N ELSE x.budget[d]
        /\ y.obtained[d] = IF d = a THEN x.obtained[d] + N ELSE x.obtained[d]
    BY <1>5, <1>8, Fields DEF Alike
  <2>2. x.budget[d] + Cardinality(x.quick[d]) = x.obtained[d] /\ x.obtained[d] >= N
    BY <1>9 DEF Accounted
  <2>3. Cardinality(x.quick[d]) \in Nat
    BY <1>5, QuickFinite
  <2>4. IF d = a THEN x.budget[d] >= 0 ELSE x.budget[d] > 0
    BY <1>7, <1>9
  <2> QED
    BY <1>7, <2>1, <2>2, <2>3, <2>4
<1>11. Budgeted(y)
  BY <1>10 DEF Budgeted, Accounted
<1>12. /\ Shaped(y, out) /\ Tinted(y, c, m, V) /\ Sheltered(y, R, D, V)
       /\ Objects(y) = Objects(x)
  BY <1>4, <1>8, AlikeSound
<1> QED
  BY <1>4, <1>6, <1>8, <1>11, <1>12 DEF Alike
\* The lists of x are those of g, with the blocks F at the end of the list of
\* allocator a and without the blocks bs.
Relisted(g, a, F, bs, x) ==
  /\ x.passed = g.passed /\ x.empty = g.empty
  /\ \A c \in Allocs :
       /\ Own(x, c) = (Own(g, c) \cup (IF c = a THEN F ELSE {})) \ bs
       /\ \A y, z : Before(x.list[c], y, z) <=>
            /\ Before(g.list[c], y, z) \/ (c = a /\ y \in Own(g, c) /\ z \in F)
            /\ y \notin bs /\ z \notin bs

\* What CreateChunk changes.
Created(g, a, b, s, x) ==
  /\ x \in AllocatorState
  /\ \A c \in Allocs : x.list[c] = IF c = a THEN Append(g.list[c], b) ELSE g.list[c]
  /\ \A c \in Small : x.avail[c] = IF c = a THEN g.avail[c] \cup {b} ELSE g.avail[c]
  /\ \A d \in Block : /\ x.free[d] = IF d = b THEN 1..N ELSE g.free[d]
                      /\ x.seen[d] = IF d = b THEN s ELSE g.seen[d]
  /\ \A i \in Item : x.bits[i] = IF i[1] = b THEN "free" ELSE g.bits[i]
  /\ x.sweep = g.sweep /\ x.quick = g.quick /\ x.budget = g.budget
  /\ x.obtained = g.obtained /\ x.fin = g.fin
  /\ x.passed = g.passed /\ x.empty = g.empty

LEMMA CreateFields ==
  ASSUME NEW g \in AllocatorState, NEW a \in Small, NEW x \in CreateChunk(g, a)
  PROVE  \E b \in Spare(g) : Created(g, a, b, collecting /\ a \in g.passed, x)
<1> DEFINE s == collecting /\ a \in g.passed
<1>1. PICK b \in Spare(g) :
        x = [g EXCEPT !.list[a] = Append(@, b), !.avail[a] = @ \cup {b}, !.free[b] = 1..N,
                      !.bits = [i \in Item |-> IF i[1] = b THEN "free" ELSE @[i]],
                      !.seen[b] = s]
  BY Zenon DEF CreateChunk
<1>2. b \in Block /\ a \in Allocs /\ s \in BOOLEAN
  BY Kinds DEF Spare
<1> HIDE DEF s
<1> DEFINE list == [g.list EXCEPT ![a] = Append(@, b)]
           avail == [g.avail EXCEPT ![a] = @ \cup {b}]
           free == [g.free EXCEPT ![b] = 1..N]
           bits == [i \in Item |-> IF i[1] = b THEN "free" ELSE g.bits[i]]
           seen == [g.seen EXCEPT ![b] = s]
<1>3. x = [g EXCEPT !.list = list, !.avail = avail, !.free = free, !.bits = bits, !.seen = seen]
  BY <1>1 DEF AllocatorState
<1>4. Append(g.list[a], b) \in Seq(Block)
  BY <1>2, OwnType
<1>5. /\ list \in [Allocs -> Seq(Block)] /\ avail \in [Small -> SUBSET Block]
      /\ free \in [Block -> SUBSET (1..N)] /\ seen \in [Block -> BOOLEAN]
      /\ bits \in [Item -> {"none", "mark", "queued", "free"}]
  BY <1>2, <1>4, Fields
<1>6. /\ \A c \in Allocs : list[c] = IF c = a THEN Append(g.list[c], b) ELSE g.list[c]
      /\ \A c \in Small : avail[c] = IF c = a THEN g.avail[c] \cup {b} ELSE g.avail[c]
      /\ \A d \in Block : free[d] = IF d = b THEN 1..N ELSE g.free[d]
      /\ \A d \in Block : seen[d] = IF d = b THEN s ELSE g.seen[d]
      /\ \A i \in Item : bits[i] = IF i[1] = b THEN "free" ELSE g.bits[i]
  BY <1>2, Fields
<1> HIDE DEF list, avail, free, bits, seen
<1>7. /\ x.list = list /\ x.avail = avail /\ x.free = free /\ x.bits = bits /\ x.seen = seen
      /\ x.sweep = g.sweep /\ x.quick = g.quick /\ x.budget = g.budget
      /\ x.obtained = g.obtained /\ x.fin = g.fin
      /\ x.passed = g.passed /\ x.empty = g.empty
      /\ x \in AllocatorState
  BY <1>3, <1>5 DEF AllocatorState
<1> QED
  BY <1>1, <1>6, <1>7 DEF Created, s

\* The parts of the inductive invariant for allocators g.
Sound(g, out, c, m, V, R, D) == Shaped(g, out) /\ Tinted(g, c, m, V) /\ Sheltered(g, R, D, V)

\* The objects of x are those of g, with their bits, and J.
Joined(g, J, x) ==
  /\ Objects(x) = Objects(g) \cup J /\ J \cap Objects(g) = {}
  /\ \A j \in Objects(g) : x.bits[j] = g.bits[j]

\* A new block b counts as visited (s) or is among those to be visited, which
\* were V and are W.
Fits(c, s, b, V, W) ==
  {c, s} \subseteq BOOLEAN /\ (s => c) /\ W = V \cup (IF c /\ ~s THEN {b} ELSE {})

\* A new block is on the list of its allocator and free.
LEMMA CreateSound ==
  ASSUME NEW g, NEW out, NEW c, NEW m, NEW V, NEW R, NEW D, Sound(g, out, c, m, V, R, D),
         NEW a \in Small \cap Using, NEW b \in Block, b \notin AllBlocks(g) \cup g.empty \cup V,
         NEW s, NEW x, Created(g, a, b, s, x), NEW W, Fits(c, s, b, V, W)
  PROVE  /\ Sound(x, out, c, m, W, R, D)
         /\ Relisted(g, a, {b}, {}, x)
         /\ Joined(g, {}, x)
<1> Shaped(g, out) /\ Tinted(g, c, m, V) /\ Sheltered(g, R, D, V)
  BY DEF Sound
<1>1. g \in AllocatorState /\ Listed(g) /\ Placed(g, out) /\ Owned(g)
  BY DEF Shaped
<1>2. /\ x \in AllocatorState
      /\ \A d \in Allocs : x.list[d] = IF d = a THEN Append(g.list[d], b) ELSE g.list[d]
      /\ \A d \in Small : x.avail[d] = IF d = a THEN g.avail[d] \cup {b} ELSE g.avail[d]
      /\ \A d \in Block : /\ x.free[d] = IF d = b THEN 1..N ELSE g.free[d]
                          /\ x.seen[d] = IF d = b THEN s ELSE g.seen[d]
      /\ \A i \in Item : x.bits[i] = IF i[1] = b THEN "free" ELSE g.bits[i]
      /\ x.sweep = g.sweep /\ x.quick = g.quick /\ x.fin = g.fin
      /\ x.passed = g.passed /\ x.empty = g.empty
  BY DEF Created
<1>3. \A d \in Allocs : b \notin Own(g, d) /\ Own(g, d) \subseteq Block
  BY <1>1, OwnType DEF AllBlocks
<1>4. ASSUME NEW d \in Allocs
      PROVE  /\ Own(x, d) = Own(g, d) \cup (IF d = a THEN {b} ELSE {})
             /\ IsInjective(x.list[d])
             /\ \A y, z : Before(x.list[d], y, z) <=>
                  Before(g.list[d], y, z) \/ (d = a /\ y \in Own(g, d) /\ z = b)
  <2>1. g.list[d] \in Seq(Block) /\ IsInjective(g.list[d]) /\ b \notin Range(g.list[d])
    BY <1>1, <1>3, OwnType DEF Listed, Own
  <2>2. CASE d = a
    <3>1. x.list[d] = Append(g.list[d], b)
      BY <1>2, <2>2
    <3> QED
      BY <2>1, <2>2, <3>1, AppendOrder DEF Own
  <2>3. CASE d # a
    BY <1>2, <2>1, <2>3 DEF Own
  <2> QED
    BY <2>2, <2>3
<1>5. Relisted(g, a, {b}, {}, x)
  BY <1>2, <1>4 DEF Relisted
<1>6. Listed(x)
  <2>1. \A d, e \in Allocs : d # e => Own(x, d) \cap Own(x, e) = {}
    BY <1>1, <1>3, <1>4 DEF Listed
  <2>2. \A d \in Allocs : Own(x, d) \cap x.empty = {}
    BY <1>1, <1>2, <1>4 DEF Listed
  <2> QED
    BY <1>4, <2>1, <2>2 DEF Listed
<1>7. SmallBlocks(x) = SmallBlocks(g) \cup {b} /\ Own(x, Large) = Own(g, Large)
  <2>1. a \in Small /\ a # Large
    BY Kinds
  <2>2. \A d \in Small : Own(x, d) = Own(g, d) \cup (IF d = a THEN {b} ELSE {})
    BY <1>4, Kinds
  <2>3. SmallBlocks(x) = SmallBlocks(g) \cup {b}
    BY <2>1, <2>2 DEF SmallBlocks
  <2> QED
    BY <1>4, <2>1, <2>3, Kinds
<1>8. b \notin SmallBlocks(g) /\ b \notin Own(g, Large)
  BY <1>3, Kinds DEF SmallBlocks
<1>9. \A d \in Small : /\ g.avail[d] \cup g.sweep[d] \subseteq Own(g, d)
                       /\ g.quick[d] \subseteq (Own(g, d) \ g.sweep[d]) \X (1..N)
  BY <1>1 DEF Placed
<1>10. ASSUME NEW d \in Small, NEW e \in Own(x, d), NEW i \in 1..N
       PROVE  /\ ~(<<e, i>> \in x.quick[d] /\ i \in x.free[e])
              /\ x.bits[<<e, i>>] = "free" <=> <<e, i>> \in x.quick[d] \/ i \in x.free[e]
  <2>1. CASE e = b
    <3>1. <<e, i>> \notin x.quick[d]
      BY <1>2, <1>3, <1>9, <2>1, Kinds
    <3>2. <<e, i>> \in Item
      BY <2>1, ItemOf
    <3> QED
      BY <1>2, <2>1, <3>1, <3>2
  <2>2. CASE e # b
    <3>1. e \in Own(g, d) /\ e \in Block /\ <<e, i>> \in Item
      BY <1>3, <1>4, <2>2, Kinds, ItemOf
    <3>2. x.free[e] = g.free[e] /\ x.bits[<<e, i>>] = g.bits[<<e, i>>] /\ x.quick = g.quick
      BY <1>2, <2>2, <3>1
    <3> QED
      BY <1>1, <3>1, <3>2 DEF Placed
  <2> QED
    BY <2>1, <2>2
<1>11. ASSUME NEW d \in Small
       PROVE  /\ x.avail[d] \cap x.sweep[d] = {}
              /\ x.avail[d] \cup x.sweep[d] \subseteq Own(x, d)
              /\ x.quick[d] \subseteq (Own(x, d) \ x.sweep[d]) \X (1..N)
              /\ \A e \in x.avail[d] : x.free[e] # {}
              /\ \A e \in Own(x, d) : x.free[e] = {} \/ e \in x.avail[d] \cup x.sweep[d] \cup out
  <2>1. /\ g.avail[d] \cap g.sweep[d] = {}
        /\ g.avail[d] \cup g.sweep[d] \subseteq Own(g, d)
        /\ g.quick[d] \subseteq (Own(g, d) \ g.sweep[d]) \X (1..N)
        /\ \A e \in g.avail[d] : g.free[e] # {}
        /\ \A e \in Own(g, d) : g.free[e] = {} \/ e \in g.avail[d] \cup g.sweep[d] \cup out
    BY <1>1 DEF Placed
  <2>2. b \notin Own(g, d) /\ Own(g, d) \subseteq Block
    BY <1>3, Kinds
  <2>3. Own(x, d) = Own(g, d) \cup (IF d = a THEN {b} ELSE {})
    BY <1>4, Kinds
  <2>4. /\ x.avail[d] = g.avail[d] \cup (IF d = a THEN {b} ELSE {})
        /\ x.sweep[d] = g.sweep[d] /\ x.quick[d] = g.quick[d]
    BY <1>2
  <2>5. x.free[b] # {} /\ \A e \in Block \ {b} : x.free[e] = g.free[e]
    BY <1>2, ItemOf
  <2> QED
    BY <2>1, <2>2, <2>3, <2>4, <2>5
<1>12. Placed(x, out)
  BY <1>10, <1>11 DEF Placed
<1>13. Objects(x) = Objects(g) /\ \A i \in Objects(g) : x.bits[i] = g.bits[i]
  <2>1. \A i \in Item : i \in Objects(x) <=> i \in Objects(g)
    BY <1>1, <1>2, <1>7, <1>8, ObjectsOf
  <2>2. Objects(x) \subseteq Item /\ Objects(g) \subseteq Item
    BY <1>1, <1>2, ObjectsOf
  <2>3. \A i \in Objects(g) : i[1] # b
    BY <1>1, <1>8, ObjectsOf
  <2> QED
    BY <1>2, <2>1, <2>2, <2>3
<1>14. Owned(x)
  <2>1. \A i \in Item : x.bits[i] \in {"mark", "queued"} => i \in Objects(x)
    BY <1>1, <1>2, <1>13 DEF Owned
  <2>2. \A e \in Block : x.seen[e] => e \in SmallBlocks(x) \cup x.empty
    BY <1>1, <1>2, <1>7 DEF Owned
  <2>3. \A d \in Allocs \ Using : Own(x, d) = {}
    BY <1>1, <1>4 DEF Owned
  <2>4. ASSUME NEW e \in Own(x, Large)
        PROVE  x.bits[<<e, 1>>] # "free"
    <3>1. e \in Own(g, Large) /\ e \in Block /\ e # b /\ <<e, 1>> \in Item
      BY <1>3, <1>7, <1>8, Kinds, ItemOf
    <3> QED
      BY <1>1, <1>2, <3>1 DEF Owned
  <2> QED
    BY <2>1, <2>2, <2>3, <2>4 DEF Owned
<1>15. SweepOf(x) = SweepOf(g) /\ b \notin SweepOf(g)
  BY <1>2, <1>3, <1>9, Kinds DEF SweepOf
<1>16. SmallBlocks(g) \subseteq Block
  BY <1>3, Kinds DEF SmallBlocks
<1>17. Tinted(x, c, m, W)
  <2>1. \A e \in SmallBlocks(x) : x.seen[e] <=> c /\ e \notin W
    <3> TAKE e \in SmallBlocks(x)
    <3>1. CASE e = b
      BY <1>2, <3>1 DEF Fits
    <3>2. CASE e # b
      <4>1. e \in SmallBlocks(g) /\ e \in Block /\ x.seen[e] = g.seen[e]
        BY <1>2, <1>7, <1>16, <3>2
      <4> QED
        BY <3>2, <4>1 DEF Tinted, Fits
    <3> QED
      BY <3>1, <3>2
  <2> QED
    BY <1>2, <1>15, <2>1 DEF Tinted, Fits
<1>18. Sheltered(x, R, D, W)
  <2>1. \A i \in R : i \in Objects(g) /\ i[1] # b
    BY <1>1, <1>8, ObjectsOf DEF Sheltered
  <2> QED
    BY <1>2, <1>13, <1>15, <2>1 DEF Sheltered, Fits
<1> QED
  BY <1>2, <1>5, <1>6, <1>12, <1>13, <1>14, <1>17, <1>18 DEF Joined, Sound, Shaped
\* What FillQuickList and Pop leave alone.
Kept(g, y) ==
  /\ y \in AllocatorState
  /\ y.list = g.list /\ y.sweep = g.sweep /\ y.seen = g.seen
  /\ y.passed = g.passed /\ y.empty = g.empty

LEMMA KeptLists ==
  ASSUME NEW g, NEW y, Kept(g, y)
  PROVE  /\ \A a \in Allocs : Own(y, a) = Own(g, a)
         /\ SmallBlocks(y) = SmallBlocks(g) /\ AllBlocks(y) = AllBlocks(g)
         /\ SweepOf(y) = SweepOf(g)
         /\ Listed(g) => Listed(y)
         /\ \A a : Relisted(g, a, {}, {}, y)
<1>1. \A a \in Allocs : Own(y, a) = Own(g, a)
  BY DEF Own, Kept
<1>2. SmallBlocks(y) = SmallBlocks(g) /\ AllBlocks(y) = AllBlocks(g)
  BY <1>1, Kinds DEF SmallBlocks, AllBlocks
<1>3. SweepOf(y) = SweepOf(g)
  BY DEF SweepOf, Kept
<1>4. Listed(g) => Listed(y)
  BY <1>1 DEF Listed, Kept
<1>5. ASSUME NEW a
      PROVE  Relisted(g, a, {}, {}, y)
  BY <1>1 DEF Relisted, Kept
<1> QED
  BY <1>1, <1>2, <1>3, <1>4, <1>5

\* What FillQuickList changes, besides the budget.
Filled(g, a, b, y) ==
  /\ Kept(g, y) /\ y.bits = g.bits /\ y.fin = g.fin
  /\ \A d \in Small : /\ y.quick[d] = IF d = a THEN {b} \X g.free[b] ELSE g.quick[d]
                      /\ y.avail[d] = IF d = a THEN g.avail[d] \ {b} ELSE g.avail[d]
  /\ \A e \in Block : y.free[e] = IF e = b THEN {} ELSE g.free[e]

\* While its quick list is empty an allocator has the budget for a block.
LEMMA FillFields ==
  ASSUME NEW g, NEW out, Shaped(g, out), Budgeted(g), NEW a \in Small, g.quick[a] = {},
         NEW b \in g.avail[a], NEW y \in FillQuickList(g, a, b)
  PROVE  /\ Filled(g, a, b, y)
         /\ Accounted(y)
         /\ \A d \in Small : IF d = a THEN y.budget[d] >= 0 ELSE y.budget[d] > 0
<1>1. g \in AllocatorState
  BY DEF Shaped
<1>2. b \in Block /\ g.free[b] \in SUBSET (1..N) /\ N \in Nat
  BY <1>1, Fields, BlocksAssumption
<1>3. /\ g.budget[a] \in Int /\ g.obtained[a] \in Nat
      /\ g.budget[a] = g.obtained[a] /\ g.obtained[a] >= N
  <2>1. g.budget[a] + Cardinality(g.quick[a]) = g.obtained[a] /\ g.obtained[a] >= N
    BY DEF Budgeted, Accounted
  <2> QED
    BY <1>1, <2>1, Fields, FS_EmptySet
<1> DEFINE n == Cardinality(g.free[b])
<1>4. IsFiniteSet(g.free[b]) /\ n \in Nat /\ n <= N
  <2>1. IsFiniteSet(1..N) /\ Cardinality(1..N) = N
    BY <1>2, UpTo
  <2> QED
    BY <1>2, <2>1, FS_Subset, FS_CardinalityType
<1>5. Cardinality({b} \X g.free[b]) = n
  <2>1. IsFiniteSet({b}) /\ Cardinality({b}) = 1
    BY FS_Singleton
  <2>2. Cardinality({b} \X g.free[b]) = 1 * n
    BY <1>4, <2>1, FS_Product
  <2> HIDE DEF n
  <2> QED
    BY <1>4, <2>2
<1>6. y = [g EXCEPT !.quick[a] = {b} \X g.free[b], !.budget[a] = @ - n,
                    !.free[b] = {}, !.avail[a] = @ \ {b}]
  <2>1. ~(g.budget[a] < n)
    <3> HIDE DEF n
    <3> QED
      BY <1>2, <1>3, <1>4
  <2> QED
    BY <2>1, Zenon DEF FillQuickList
<1> HIDE DEF n
<1> DEFINE quick == [g.quick EXCEPT ![a] = {b} \X g.free[b]]
           budget == [g.budget EXCEPT ![a] = @ - n]
           free == [g.free EXCEPT ![b] = {}]
           avail == [g.avail EXCEPT ![a] = @ \ {b}]
<1>7. y = [g EXCEPT !.quick = quick, !.budget = budget, !.free = free, !.avail = avail]
  BY <1>1, <1>6 DEF AllocatorState
<1>8. /\ quick \in [Small -> SUBSET Item] /\ budget \in [Small -> Int]
      /\ free \in [Block -> SUBSET (1..N)] /\ avail \in [Small -> SUBSET Block]
  <2>1. {b} \X g.free[b] \in SUBSET Item
    BY <1>2 DEF Item
  <2> QED
    BY <1>1, <1>2, <1>3, <1>4, <2>1, Fields
<1>9. /\ \A d \in Small : /\ quick[d] = IF d = a THEN {b} \X g.free[b] ELSE g.quick[d]
                          /\ avail[d] = IF d = a THEN g.avail[d] \ {b} ELSE g.avail[d]
                          /\ budget[d] = IF d = a THEN g.budget[d] - n ELSE g.budget[d]
      /\ \A e \in Block : free[e] = IF e = b THEN {} ELSE g.free[e]
  BY <1>1, <1>2, Fields
<1> HIDE DEF quick, budget, free, avail
<1>10. /\ y \in AllocatorState
       /\ y.list = g.list /\ y.sweep = g.sweep /\ y.seen = g.seen
       /\ y.passed = g.passed /\ y.empty = g.empty /\ y.bits = g.bits /\ y.fin = g.fin
       /\ y.obtained = g.obtained
       /\ y.quick = quick /\ y.budget = budget /\ y.free = free /\ y.avail = avail
  BY <1>1, <1>7, <1>8 DEF AllocatorState
<1>11. ASSUME NEW d \in Small
       PROVE  /\ y.budget[d] + Cardinality(y.quick[d]) = y.obtained[d]
              /\ y.obtained[d] >= N
              /\ IF d = a THEN y.budget[d] >= 0 ELSE y.budget[d] > 0
  <2>1. CASE d = a
    <3>1. y.quick[d] = {b} \X g.free[b] /\ y.budget[d] = g.budget[a] - n
          /\ y.obtained[d] = g.obtained[a]
      BY <1>9, <1>10, <2>1
    <3>2. Cardinality(y.quick[d]) = n
      BY <1>5, <3>1
    <3> QED
      BY <1>2, <1>3, <1>4, <2>1, <3>1, <3>2
  <2>2. CASE d # a
    <3>1. y.quick[d] = g.quick[d] /\ y.budget[d] = g.budget[d] /\ y.obtained[d] = g.obtained[d]
      BY <1>9, <1>10, <2>2
    <3> QED
      BY <2>2, <3>1 DEF Budgeted, Accounted
  <2> QED
    BY <2>1, <2>2
<1> QED
  BY <1>9, <1>10, <1>11 DEF Kept, Accounted, Filled

LEMMA FillSound ==
  ASSUME NEW g, NEW out, Shaped(g, out), Budgeted(g), NEW a \in Small, g.quick[a] = {},
         NEW b \in g.avail[a], NEW y \in FillQuickList(g, a, b),
         NEW c, NEW m, NEW V, Tinted(g, c, m, V), NEW R, NEW D, Sheltered(g, R, D, V)
  PROVE  /\ Shaped(y, out) /\ Tinted(y, c, m, V) /\ Sheltered(y, R, D, V)
         /\ Objects(y) = Objects(g)
<1>1. g \in AllocatorState /\ Listed(g) /\ Placed(g, out) /\ Owned(g)
  BY DEF Shaped
<1>2. /\ Kept(g, y) /\ y.bits = g.bits /\ y.fin = g.fin
      /\ \A d \in Small : /\ y.quick[d] = IF d = a THEN {b} \X g.free[b] ELSE g.quick[d]
                          /\ y.avail[d] = IF d = a THEN g.avail[d] \ {b} ELSE g.avail[d]
      /\ \A e \in Block : y.free[e] = IF e = b THEN {} ELSE g.free[e]
  <2>1. Filled(g, a, b, y)
    BY FillFields
  <2> QED
    BY <2>1 DEF Filled
<1>3. /\ \A d \in Allocs : Own(y, d) = Own(g, d)
      /\ SmallBlocks(y) = SmallBlocks(g) /\ SweepOf(y) = SweepOf(g) /\ Listed(y)
  BY <1>1, <1>2, KeptLists
<1>4. /\ y \in AllocatorState /\ y.sweep = g.sweep /\ y.seen = g.seen /\ y.empty = g.empty
  BY <1>2 DEF Kept
<1>5. Objects(y) = Objects(g)
  BY <1>2, <1>3, Kinds DEF Objects
<1>6. Owned(y)
  BY <1>1, <1>2, <1>3, <1>4, <1>5, Kinds DEF Owned
<1>7. /\ b \in Own(g, a) /\ b \in Block /\ b \notin g.sweep[a] /\ g.free[b] \subseteq 1..N
  BY <1>1, OwnType, Kinds, Fields DEF Placed
<1>8. \A d \in Small : d # a => b \notin Own(g, d)
  BY <1>1, <1>7, Kinds DEF Listed
<1>9. ASSUME NEW d \in Small, NEW e \in Own(y, d), NEW i \in 1..N
      PROVE  /\ ~(<<e, i>> \in y.quick[d] /\ i \in y.free[e])
             /\ y.bits[<<e, i>>] = "free" <=> <<e, i>> \in y.quick[d] \/ i \in y.free[e]
  <2>1. e \in Own(g, d) /\ e \in Block
    BY <1>3, OwnType, <1>1, Kinds
  <2>2. /\ ~(<<e, i>> \in g.quick[d] /\ i \in g.free[e])
        /\ g.bits[<<e, i>>] = "free" <=> <<e, i>> \in g.quick[d] \/ i \in g.free[e]
    BY <1>1, <2>1 DEF Placed
  <2>3. CASE d = a
    <3>1. y.quick[d] = {b} \X g.free[b] /\ g.quick[d] = {}
      BY <1>2, <2>3
    <3>2. y.free[e] = IF e = b THEN {} ELSE g.free[e]
      BY <1>2, <2>1
    <3> QED
      BY <1>2, <2>2, <3>1, <3>2
  <2>4. CASE d # a
    <3>1. e # b
      BY <1>8, <2>1, <2>4
    <3> QED
      BY <1>2, <2>1, <2>2, <2>4, <3>1
  <2> QED
    BY <2>3, <2>4
<1>10. ASSUME NEW d \in Small
       PROVE  /\ y.avail[d] \cap y.sweep[d] = {}
              /\ y.avail[d] \cup y.sweep[d] \subseteq Own(y, d)
              /\ y.quick[d] \subseteq (Own(y, d) \ y.sweep[d]) \X (1..N)
              /\ \A e \in y.avail[d] : y.free[e] # {}
              /\ \A e \in Own(y, d) : y.free[e] = {} \/ e \in y.avail[d] \cup y.sweep[d] \cup out
  <2>1. /\ g.avail[d] \cap g.sweep[d] = {}
        /\ g.avail[d] \cup g.sweep[d] \subseteq Own(g, d)
        /\ g.quick[d] \subseteq (Own(g, d) \ g.sweep[d]) \X (1..N)
        /\ \A e \in g.avail[d] : g.free[e] # {}
        /\ \A e \in Own(g, d) : g.free[e] = {} \/ e \in g.avail[d] \cup g.sweep[d] \cup out
    BY <1>1 DEF Placed
  <2>2. Own(y, d) = Own(g, d) /\ Own(g, d) \subseteq Block
    BY <1>1, <1>3, OwnType, Kinds
  <2>3. y.quick[d] \subseteq (Own(y, d) \ y.sweep[d]) \X (1..N)
    <3>1. CASE d = a
      <4>1. y.quick[d] = {b} \X g.free[b] /\ y.sweep[d] = g.sweep[d]
        BY <1>2, <1>4, <3>1
      <4>2. b \in Own(y, d) \ y.sweep[d]
        BY <1>7, <2>2, <3>1, <4>1
      <4> QED
        BY <1>7, <4>1, <4>2
    <3>2. CASE d # a
      BY <1>2, <1>4, <2>1, <2>2, <3>2
    <3> QED
      BY <3>1, <3>2
  <2>4. /\ y.sweep[d] = g.sweep[d] /\ y.avail[d] = g.avail[d] \ (IF d = a THEN {b} ELSE {})
        /\ \A e \in Block : y.free[e] = IF e = b THEN {} ELSE g.free[e]
    BY <1>2, <1>4
  <2>5. \A e \in y.avail[d] : e # b
    BY <1>8, <2>1, <2>4
  <2> QED
    BY <2>1, <2>2, <2>3, <2>4, <2>5
<1>11. Placed(y, out)
  BY <1>9, <1>10 DEF Placed
<1>12. Tinted(y, c, m, V)
  BY <1>2, <1>3, <1>4 DEF Tinted
<1>13. Sheltered(y, R, D, V)
  BY <1>2, <1>3, <1>5 DEF Sheltered
<1> QED
  BY <1>3, <1>4, <1>5, <1>6, <1>11, <1>12, <1>13 DEF Shaped
\* What Pop changes, besides the budget.
Popped(g, a, i, q, z) ==
  /\ Kept(g, z) /\ z.avail = g.avail /\ z.free = g.free
  /\ z.fin \subseteq g.fin \cup {i}
  /\ \A d \in Small : z.quick[d] = IF d = a THEN g.quick[d] \ {i} ELSE g.quick[d]
  /\ \A j \in Item : z.bits[j] = IF j = i THEN q ELSE g.bits[j]

LEMMA PopFields ==
  ASSUME NEW g, NEW out, Shaped(g, out), NEW a \in Small, NEW i \in g.quick[a],
         NEW q \in {"none", "mark"}, Accounted(g),
         \A d \in Small : IF d = a THEN g.budget[d] >= 0 ELSE g.budget[d] > 0
  PROVE  Popped(g, a, i, q, Pop(g, a, i, q)) /\ Budgeted(Pop(g, a, i, q))
<1> DEFINE z == Pop(g, a, i, q)
           quick == [g.quick EXCEPT ![a] = @ \ {i}]
           budget == [g.budget EXCEPT ![a] = @ + 1]
           bits == [g.bits EXCEPT ![i] = q]
           fin == IF a \in Finalizing THEN g.fin \cup {i} ELSE g.fin \ {i}
<1>1. g \in AllocatorState /\ Placed(g, out)
  BY DEF Shaped
<1>2. i \in Item
  BY <1>1, Fields
<1>3. z = [g EXCEPT !.quick = quick, !.budget = budget, !.bits = bits, !.fin = fin]
  BY <1>1 DEF AllocatorState, Pop
<1>4. /\ quick \in [Small -> SUBSET Item] /\ budget \in [Small -> Int]
      /\ bits \in [Item -> {"none", "mark", "queued", "free"}] /\ fin \in SUBSET Item
  BY <1>1, <1>2, Fields
<1>5. /\ \A d \in Small : /\ quick[d] = IF d = a THEN g.quick[d] \ {i} ELSE g.quick[d]
                          /\ budget[d] = IF d = a THEN g.budget[d] + 1 ELSE g.budget[d]
      /\ \A j \in Item : bits[j] = IF j = i THEN q ELSE g.bits[j]
      /\ fin \subseteq g.fin \cup {i}
  BY <1>1, <1>2, Fields
<1> HIDE DEF z, quick, budget, bits, fin
<1>6. /\ z \in AllocatorState
      /\ z.list = g.list /\ z.sweep = g.sweep /\ z.seen = g.seen
      /\ z.passed = g.passed /\ z.empty = g.empty /\ z.avail = g.avail /\ z.free = g.free
      /\ z.obtained = g.obtained
      /\ z.quick = quick /\ z.budget = budget /\ z.bits = bits /\ z.fin = fin
  BY <1>1, <1>3, <1>4 DEF AllocatorState
<1>7. Popped(g, a, i, q, z)
  BY <1>5, <1>6 DEF Popped, Kept
<1>8. ASSUME NEW d \in Small
      PROVE  /\ z.budget[d] + Cardinality(z.quick[d]) = z.obtained[d]
             /\ z.obtained[d] >= N /\ z.budget[d] > 0
  <2>1. g.budget[d] + Cardinality(g.quick[d]) = g.obtained[d] /\ g.obtained[d] >= N
    BY DEF Accounted
  <2>2. CASE d = a
    <3>1. /\ IsFiniteSet(g.quick[a]) /\ Cardinality(g.quick[a]) \in Nat
          /\ g.budget[a] \in Int /\ g.obtained[a] \in Nat
      BY <1>1, QuickFinite, Fields
    <3>2. Cardinality(g.quick[a] \ {i}) = Cardinality(g.quick[a]) - 1
      BY <3>1, FS_RemoveElement
    <3>3. /\ z.quick[d] = g.quick[a] \ {i} /\ z.budget[d] = g.budget[a] + 1
          /\ z.obtained[d] = g.obtained[a]
      BY <1>5, <1>6, <2>2
    <3>4. g.budget[a] >= 0
      BY <2>2
    <3> QED
      BY <2>1, <2>2, <3>1, <3>2, <3>3, <3>4
  <2>3. CASE d # a
    <3>1. z.quick[d] = g.quick[d] /\ z.budget[d] = g.budget[d] /\ z.obtained[d] = g.obtained[d]
      BY <1>5, <1>6, <2>3
    <3> QED
      BY <2>1, <2>3, <3>1
  <2> QED
    BY <2>2, <2>3
<1>9. Budgeted(z)
  BY <1>8 DEF Budgeted, Accounted
<1> QED
  BY <1>7, <1>9 DEF z

\* The bits of a new object.
Tint(q, i, V) == q = IF i[1] \in V THEN "mark" ELSE "none"

\* A new object is marked if its block is to be visited yet, and only then.
LEMMA PopSound ==
  ASSUME NEW g, NEW out, NEW c, NEW m, NEW V, NEW R, NEW D, Sound(g, out, c, m, V, R, D),
         NEW a \in Small, NEW i \in g.quick[a], NEW q, Tint(q, i, V),
         NEW z, Popped(g, a, i, q, z)
  PROVE  /\ Sound(z, out, c, m, V, R \cup {i}, D \ {i})
         /\ Joined(g, {i}, z)
<1> Shaped(g, out) /\ Tinted(g, c, m, V) /\ Sheltered(g, R, D, V)
  BY DEF Sound
<1>1. g \in AllocatorState /\ Listed(g) /\ Placed(g, out) /\ Owned(g)
  BY DEF Shaped
<1>2. /\ Kept(g, z) /\ z.avail = g.avail /\ z.free = g.free
      /\ z.fin \subseteq g.fin \cup {i}
      /\ \A d \in Small : z.quick[d] = IF d = a THEN g.quick[d] \ {i} ELSE g.quick[d]
      /\ \A j \in Item : z.bits[j] = IF j = i THEN q ELSE g.bits[j]
  BY DEF Popped
<1>3. /\ \A d \in Allocs : Own(z, d) = Own(g, d)
      /\ SmallBlocks(z) = SmallBlocks(g) /\ SweepOf(z) = SweepOf(g) /\ Listed(z)
  BY <1>1, <1>2, KeptLists
<1>4. /\ z \in AllocatorState /\ z.sweep = g.sweep /\ z.seen = g.seen /\ z.empty = g.empty
  BY <1>2 DEF Kept
<1>5. /\ i \in Item /\ i = <<i[1], i[2]>> /\ i[1] \in Own(g, a) /\ i[2] \in 1..N
      /\ i[1] \notin g.sweep[a] /\ i[1] \in Block
  <2>1. i \in Item
    BY <1>1, Fields
  <2>2. i \in (Own(g, a) \ g.sweep[a]) \X (1..N)
    BY <1>1 DEF Placed
  <2> QED
    BY <2>1, <2>2, ItemOf
<1>6. g.bits[i] = "free" /\ i[2] \notin g.free[i[1]]
  BY <1>1, <1>5 DEF Placed
<1>7. i[1] \in SmallBlocks(g) /\ i[1] \notin Own(g, Large)
  BY <1>1, <1>5, Kinds DEF SmallBlocks, Listed
<1>8. i[1] \notin SweepOf(g)
  <2>1. \A d \in Small : g.sweep[d] \subseteq Own(g, d)
    BY <1>1 DEF Placed
  <2> QED
    BY <1>1, <1>5, <2>1, Kinds DEF SweepOf, Listed
<1>9. q \in {"none", "mark"}
  BY DEF Tint
<1>10. i \notin Objects(g) /\ \A j \in Objects(g) : j \in Item /\ j # i /\ z.bits[j] = g.bits[j]
  BY <1>1, <1>2, <1>6, <1>7, ObjectsOf
<1>11. Objects(z) = Objects(g) \cup {i}
  <2>1. \A j \in Item : j \in Objects(z) <=> j \in Objects(g) \cup {i}
    BY <1>1, <1>2, <1>3, <1>4, <1>7, <1>9, Kinds, ObjectsOf
  <2> QED
    BY <1>1, <1>4, <1>5, <2>1, ObjectsOf
<1>12. Owned(z)
  <2>1. \A j \in Item : z.bits[j] \in {"mark", "queued"} => j \in Objects(z)
    BY <1>1, <1>2, <1>11 DEF Owned
  <2>2. \A b \in Block : z.seen[b] => b \in SmallBlocks(z) \cup z.empty
    BY <1>1, <1>3, <1>4 DEF Owned
  <2>3. \A d \in Allocs \ Using : Own(z, d) = {}
    BY <1>1, <1>3 DEF Owned
  <2>4. ASSUME NEW b \in Own(z, Large)
        PROVE  z.bits[<<b, 1>>] # "free"
    <3>1. b \in Own(g, Large) /\ b \in Block /\ <<b, 1>> \in Item
      BY <1>1, <1>3, OwnType, Kinds, ItemOf
    <3> QED
      BY <1>1, <1>2, <1>9, <3>1 DEF Owned
  <2> QED
    BY <2>1, <2>2, <2>3, <2>4 DEF Owned
<1>13. ASSUME NEW d \in Small, NEW b \in Own(z, d), NEW k \in 1..N
       PROVE  /\ ~(<<b, k>> \in z.quick[d] /\ k \in z.free[b])
              /\ z.bits[<<b, k>>] = "free" <=> <<b, k>> \in z.quick[d] \/ k \in z.free[b]
  <2>1. b \in Own(g, d) /\ b \in Block /\ <<b, k>> \in Item
    BY <1>1, <1>3, OwnType, Kinds, ItemOf
  <2>2. /\ ~(<<b, k>> \in g.quick[d] /\ k \in g.free[b])
        /\ g.bits[<<b, k>>] = "free" <=> <<b, k>> \in g.quick[d] \/ k \in g.free[b]
    BY <1>1, <2>1 DEF Placed
  <2>3. CASE <<b, k>> = i
    <3>1. d = a /\ i[1] = b /\ i[2] = k
      BY <1>1, <1>5, <2>1, <2>3, Kinds DEF Listed
    <3> QED
      BY <1>2, <1>6, <1>9, <2>1, <2>3, <3>1
  <2>4. CASE <<b, k>> # i
    BY <1>2, <2>1, <2>2, <2>4
  <2> QED
    BY <2>3, <2>4
<1>14. Placed(z, out)
  <2>1. \A d \in Small : Own(z, d) = Own(g, d) /\ z.quick[d] \subseteq g.quick[d]
    BY <1>2, <1>3, Kinds
  <2>2. ASSUME NEW d \in Small
        PROVE  /\ z.avail[d] \cap z.sweep[d] = {}
               /\ z.avail[d] \cup z.sweep[d] \subseteq Own(z, d)
               /\ z.quick[d] \subseteq (Own(z, d) \ z.sweep[d]) \X (1..N)
               /\ \A b \in z.avail[d] : z.free[b] # {}
               /\ \A b \in Own(z, d) : z.free[b] = {} \/ b \in z.avail[d] \cup z.sweep[d] \cup out
    <3>1. /\ g.avail[d] \cap g.sweep[d] = {}
          /\ g.avail[d] \cup g.sweep[d] \subseteq Own(g, d)
          /\ g.quick[d] \subseteq (Own(g, d) \ g.sweep[d]) \X (1..N)
          /\ \A b \in g.avail[d] : g.free[b] # {}
          /\ \A b \in Own(g, d) : g.free[b] = {} \/ b \in g.avail[d] \cup g.sweep[d] \cup out
      BY <1>1 DEF Placed
    <3> QED
      BY <1>2, <1>4, <2>1, <3>1
  <2> QED
    BY <1>13, <2>2 DEF Placed
<1>15. q = "mark" => i[1] \in V
  BY DEF Tint
<1>16. i[1] \in V => q = "mark"
  BY DEF Tint
<1>17. Tinted(z, c, m, V)
  BY <1>2, <1>3, <1>4, <1>9, <1>15 DEF Tinted
<1>18. Sheltered(z, R \cup {i}, D \ {i}, V)
  <2>1. R \cup {i} \subseteq Objects(z) \ (D \ {i})
    BY <1>11 DEF Sheltered
  <2>2. \A j \in R \cup {i} : j[1] \in V \cup SweepOf(z) => z.bits[j] = "mark"
    <3>1. z.bits[i] = q
      BY <1>2, <1>5
    <3>2. \A j \in R : z.bits[j] = g.bits[j]
      BY <1>10 DEF Sheltered
    <3> QED
      BY <1>3, <1>8, <1>16, <3>1, <3>2 DEF Sheltered
  <2>3. D \ {i} \subseteq Objects(z) /\ (D \ {i}) \cap z.fin = {}
    BY <1>2, <1>11 DEF Sheltered
  <2> QED
    BY <2>1, <2>2, <2>3 DEF Sheltered
<1> QED
  BY <1>3, <1>4, <1>10, <1>11, <1>12, <1>14, <1>17, <1>18 DEF Joined, Sound, Shaped
\* What GCAlloc::Free changes, besides the budget: the item goes on the quick
\* list (s) or on the list of its block.
Freed(g, a, i, s, x) ==
  /\ Kept(g, x) /\ x.avail = g.avail /\ x.fin = g.fin
  /\ \A d \in Small : x.quick[d] = g.quick[d] \cup (IF s /\ d = a THEN {i} ELSE {})
  /\ \A e \in Block : x.free[e] = g.free[e] \cup (IF ~s /\ e = i[1] THEN {i[2]} ELSE {})
  /\ \A j \in Item : x.bits[j] = IF j = i THEN "free" ELSE g.bits[j]

LEMMA FreedSound ==
  ASSUME NEW g, NEW out, Shaped(g, out), NEW a \in Small,
         NEW i \in Objects(g), i[1] \in Own(g, a),
         NEW s \in BOOLEAN, s <=> i[1] \notin g.sweep[a], NEW x, Freed(g, a, i, s, x),
         NEW c, NEW m, NEW V, Tinted(g, c, m, V), NEW R, NEW D, Sheltered(g, R, D, V)
  PROVE  /\ Shaped(x, out) /\ Tinted(x, c, m, V)
         /\ Sheltered(x, R \ {i}, D \ {i}, V)
         /\ Objects(x) = Objects(g) \ {i} /\ i \notin g.quick[a]
<1>1. g \in AllocatorState /\ Listed(g) /\ Placed(g, out) /\ Owned(g)
  BY DEF Shaped
<1>2. /\ Kept(g, x) /\ x.avail = g.avail /\ x.fin = g.fin
      /\ \A d \in Small : x.quick[d] = g.quick[d] \cup (IF s /\ d = a THEN {i} ELSE {})
      /\ \A e \in Block : x.free[e] = g.free[e] \cup (IF ~s /\ e = i[1] THEN {i[2]} ELSE {})
      /\ \A j \in Item : x.bits[j] = IF j = i THEN "free" ELSE g.bits[j]
  BY DEF Freed
<1>3. /\ \A d \in Allocs : Own(x, d) = Own(g, d)
      /\ SmallBlocks(x) = SmallBlocks(g) /\ SweepOf(x) = SweepOf(g) /\ Listed(x)
  BY <1>1, <1>2, KeptLists
<1>4. /\ x \in AllocatorState /\ x.sweep = g.sweep /\ x.seen = g.seen /\ x.empty = g.empty
  BY <1>2 DEF Kept
<1>5. i[1] \in SmallBlocks(g) /\ i[1] \notin Own(g, Large)
  BY <1>1, Kinds DEF SmallBlocks, Listed
<1>6. i \in Item /\ i = <<i[1], i[2]>> /\ i[2] \in 1..N /\ i[1] \in Block
  BY <1>1, ObjectsOf, ItemOf
<1>7. g.bits[i] # "free"
  BY <1>1, <1>5, <1>6, ObjectsOf
<1>8. i \notin g.quick[a] /\ i[2] \notin g.free[i[1]]
  BY <1>1, <1>6, <1>7 DEF Placed
<1>9. Objects(x) = Objects(g) \ {i}
  <2>1. \A j \in Item : j \in Objects(x) <=> j \in Objects(g) \ {i}
    BY <1>1, <1>2, <1>3, <1>4, <1>5, Kinds, ObjectsOf
  <2> QED
    BY <1>1, <1>4, <2>1, ObjectsOf
<1>10. Owned(x)
  <2>1. \A j \in Item : x.bits[j] \in {"mark", "queued"} => j \in Objects(x)
    BY <1>1, <1>2, <1>9 DEF Owned
  <2>2. \A b \in Block : x.seen[b] => b \in SmallBlocks(x) \cup x.empty
    BY <1>1, <1>3, <1>4 DEF Owned
  <2>3. \A d \in Allocs \ Using : Own(x, d) = {}
    BY <1>1, <1>3 DEF Owned
  <2>4. ASSUME NEW b \in Own(x, Large)
        PROVE  x.bits[<<b, 1>>] # "free"
    <3>1. b \in Own(g, Large) /\ b \in Block /\ <<b, 1>> \in Item /\ <<b, 1>> # i
      BY <1>1, <1>3, <1>5, <1>6, OwnType, Kinds, ItemOf
    <3> QED
      BY <1>1, <1>2, <3>1 DEF Owned
  <2> QED
    BY <2>1, <2>2, <2>3, <2>4 DEF Owned
<1>11. ASSUME NEW d \in Small, NEW b \in Own(x, d), NEW k \in 1..N
       PROVE  /\ ~(<<b, k>> \in x.quick[d] /\ k \in x.free[b])
              /\ x.bits[<<b, k>>] = "free" <=> <<b, k>> \in x.quick[d] \/ k \in x.free[b]
  <2>1. b \in Own(g, d) /\ b \in Block /\ <<b, k>> \in Item
    BY <1>1, <1>3, OwnType, Kinds, ItemOf
  <2>2. /\ ~(<<b, k>> \in g.quick[d] /\ k \in g.free[b])
        /\ g.bits[<<b, k>>] = "free" <=> <<b, k>> \in g.quick[d] \/ k \in g.free[b]
    BY <1>1, <2>1 DEF Placed
  <2>3. CASE <<b, k>> = i
    <3>1. d = a /\ i[1] = b /\ i[2] = k
      BY <1>1, <1>6, <2>1, <2>3, Kinds DEF Listed
    <3>2. x.bits[<<b, k>>] = "free" /\ <<b, k>> \notin g.quick[d] /\ k \notin g.free[b]
      BY <1>2, <1>6, <1>8, <2>3, <3>1
    <3>3. /\ x.quick[d] = g.quick[d] \cup (IF s THEN {i} ELSE {})
          /\ x.free[b] = g.free[b] \cup (IF ~s THEN {k} ELSE {})
      BY <1>2, <2>1, <3>1
    <3> QED
      BY <2>3, <3>2, <3>3
  <2>4. CASE <<b, k>> # i
    <3>1. x.bits[<<b, k>>] = g.bits[<<b, k>>]
      BY <1>2, <2>1, <2>4
    <3>2. <<b, k>> \in x.quick[d] <=> <<b, k>> \in g.quick[d]
      BY <1>2, <2>4
    <3>3. k \in x.free[b] <=> k \in g.free[b]
      BY <1>2, <1>6, <2>1, <2>4
    <3> QED
      BY <2>2, <3>1, <3>2, <3>3
  <2> QED
    BY <2>3, <2>4
<1>12. ASSUME NEW d \in Small
       PROVE  /\ x.avail[d] \cap x.sweep[d] = {}
              /\ x.avail[d] \cup x.sweep[d] \subseteq Own(x, d)
              /\ x.quick[d] \subseteq (Own(x, d) \ x.sweep[d]) \X (1..N)
              /\ \A b \in x.avail[d] : x.free[b] # {}
              /\ \A b \in Own(x, d) : x.free[b] = {} \/ b \in x.avail[d] \cup x.sweep[d] \cup out
  <2>1. /\ g.avail[d] \cap g.sweep[d] = {}
        /\ g.avail[d] \cup g.sweep[d] \subseteq Own(g, d)
        /\ g.quick[d] \subseteq (Own(g, d) \ g.sweep[d]) \X (1..N)
        /\ \A b \in g.avail[d] : g.free[b] # {}
        /\ \A b \in Own(g, d) : g.free[b] = {} \/ b \in g.avail[d] \cup g.sweep[d] \cup out
    BY <1>1 DEF Placed
  <2>2. Own(x, d) = Own(g, d) /\ Own(g, d) \subseteq Block
    BY <1>1, <1>3, OwnType, Kinds
  <2>3. x.avail[d] = g.avail[d] /\ x.sweep[d] = g.sweep[d]
    BY <1>2, <1>4
  <2>4. x.quick[d] \subseteq (Own(x, d) \ x.sweep[d]) \X (1..N)
    <3>1. CASE s /\ d = a
      <4>1. x.quick[d] = g.quick[d] \cup {i}
        BY <1>2, <3>1
      <4>2. i \in (Own(x, d) \ x.sweep[d]) \X (1..N)
        BY <1>6, <2>2, <2>3, <3>1
      <4> QED
        BY <2>1, <2>2, <2>3, <4>1, <4>2
    <3>2. CASE ~(s /\ d = a)
      BY <1>2, <2>1, <2>2, <2>3, <3>2
    <3> QED
      BY <3>1, <3>2
  <2>5. \A b \in x.avail[d] : x.free[b] # {}
    BY <1>2, <2>1, <2>2, <2>3
  <2>6. ASSUME NEW b \in Own(x, d), x.free[b] # {}
        PROVE  b \in x.avail[d] \cup x.sweep[d] \cup out
    <3>1. b \in Own(g, d) /\ b \in Block
      BY <2>2
    <3>2. CASE ~s /\ b = i[1]
      <4>1. d = a
        BY <1>1, <3>1, <3>2, Kinds DEF Listed
      <4> QED
        BY <2>3, <3>2, <4>1
    <3>3. CASE ~(~s /\ b = i[1])
      BY <1>2, <2>1, <2>3, <2>6, <3>1, <3>3
    <3> QED
      BY <3>2, <3>3
  <2> QED
    BY <2>1, <2>2, <2>3, <2>4, <2>5, <2>6
<1>13. Placed(x, out)
  BY <1>11, <1>12 DEF Placed
<1>14. Tinted(x, c, m, V)
  BY <1>2, <1>3, <1>4 DEF Tinted
<1>15. Sheltered(x, R \ {i}, D \ {i}, V)
  <2>1. \A j \in R \ {i} : x.bits[j] = g.bits[j]
    <3>1. \A j \in R : j \in Item
      BY <1>1, ObjectsOf DEF Sheltered
    <3> QED
      BY <1>2, <3>1
  <2> QED
    BY <1>2, <1>3, <1>9, <2>1 DEF Sheltered
<1> QED
  BY <1>3, <1>4, <1>8, <1>9, <1>10, <1>13, <1>14, <1>15 DEF Shaped

\* GCAlloc::Free outside a collection.
LEMMA FreeItemSound ==
  ASSUME NEW g, NEW out, Shaped(g, out), Budgeted(g), NEW a \in Small,
         NEW i \in Objects(g), i[1] \in Own(g, a), NEW y \in FreeItem(g, a, i),
         NEW c, NEW m, NEW V, Tinted(g, c, m, V), NEW R, NEW D, Sheltered(g, R, D, V)
  PROVE  /\ Shaped(y, out) /\ Tinted(y, c, m, V)
         /\ Sheltered(y, R \ {i}, (D \cup {i}) \cap Objects(y), V)
         /\ Budgeted(y) /\ y.empty = g.empty /\ y.passed = g.passed
<1>1. g \in AllocatorState /\ Placed(g, out)
  BY DEF Shaped
<1>2. i \in Item /\ i[1] \in Block /\ i[2] \in 1..N /\ a \in Allocs
  BY <1>1, ObjectsOf, ItemOf, Kinds
<1> DEFINE bits == [g.bits EXCEPT ![i] = "free"]
           free == [g.free EXCEPT ![i[1]] = @ \cup {i[2]}]
           quick == [g.quick EXCEPT ![a] = @ \cup {i}]
           budget == [g.budget EXCEPT ![a] = @ - 1]
           onBlock == [g EXCEPT !.bits = bits, !.free = free]
           onQuick == [g EXCEPT !.bits = bits, !.quick = quick, !.budget = budget]
<1>3. /\ bits \in [Item -> {"none", "mark", "queued", "free"}]
      /\ free \in [Block -> SUBSET (1..N)]
      /\ quick \in [Small -> SUBSET Item] /\ budget \in [Small -> Int]
  BY <1>1, <1>2, Fields
<1>4. /\ \A j \in Item : bits[j] = IF j = i THEN "free" ELSE g.bits[j]
      /\ \A e \in Block : free[e] = g.free[e] \cup (IF e = i[1] THEN {i[2]} ELSE {})
      /\ \A d \in Small : quick[d] = g.quick[d] \cup (IF d = a THEN {i} ELSE {})
      /\ budget[a] = g.budget[a] - 1
      /\ \A d \in Small : d # a => quick[d] = g.quick[d] /\ budget[d] = g.budget[d]
  BY <1>1, <1>2, Fields
<1>5. y \in IF i[1] \in g.sweep[a] THEN {Sweep(onBlock, {i[1]})}
            ELSE IF onQuick.budget[a] <= 0 THEN Grow(onQuick, a) ELSE {onQuick}
  <2>1. /\ [[g EXCEPT !.bits[i] = "free"] EXCEPT !.free[i[1]] = @ \cup {i[2]}] = onBlock
        /\ [[g EXCEPT !.bits[i] = "free"] EXCEPT !.quick[a] = @ \cup {i}, !.budget[a] = @ - 1] = onQuick
    BY <1>1 DEF AllocatorState
  <2> HIDE DEF onBlock, onQuick
  <2> QED
    BY <2>1, Zenon DEF FreeItem
<1> HIDE DEF bits, free, quick, budget
<1>6. CASE i[1] \in g.sweep[a]
  <2>1. /\ onBlock \in AllocatorState
        /\ onBlock.list = g.list /\ onBlock.sweep = g.sweep /\ onBlock.seen = g.seen
        /\ onBlock.passed = g.passed /\ onBlock.empty = g.empty
        /\ onBlock.avail = g.avail /\ onBlock.fin = g.fin /\ onBlock.quick = g.quick
        /\ onBlock.budget = g.budget /\ onBlock.obtained = g.obtained
        /\ onBlock.free = free /\ onBlock.bits = bits
    BY <1>1, <1>3 DEF AllocatorState
  <2> HIDE DEF onBlock, onQuick
  <2>2. Freed(g, a, i, FALSE, onBlock)
    BY <1>4, <2>1 DEF Freed, Kept
  <2>3. /\ Shaped(onBlock, out) /\ Tinted(onBlock, c, m, V)
        /\ Sheltered(onBlock, R \ {i}, D \ {i}, V)
        /\ Objects(onBlock) = Objects(g) \ {i}
    BY <1>6, <2>2, FreedSound
  <2>4. {i[1]} \in SUBSET SweepOf(onBlock)
    BY <1>6, <2>1 DEF SweepOf
  <2>5. y = Sweep(onBlock, {i[1]})
    BY <1>5, <1>6
  <2>6. /\ Shaped(y, out) /\ Tinted(y, c, m, V)
        /\ Sheltered(y, R \ {i}, (D \ {i}) \cap Objects(y), V)
    BY <2>3, <2>4, <2>5, SweepSound
  <2>7. onBlock \in AllocatorState /\ Listed(onBlock) /\ Placed(onBlock, out)
    BY <2>3 DEF Shaped
  <2>8. Objects(y) \subseteq Objects(onBlock)
    BY <2>4, <2>5, <2>7, SweepObjects
  <2>9. (D \cup {i}) \cap Objects(y) = (D \ {i}) \cap Objects(y)
    BY <2>3, <2>8
  <2>10. /\ y.quick = g.quick /\ y.budget = g.budget /\ y.obtained = g.obtained
         /\ y.empty = g.empty /\ y.passed = g.passed
    <3>1. \E bs : Swept(onBlock, {i[1]}, y, bs)
      BY <2>4, <2>5, <2>7, SweepPlaced
    <3> QED
      BY <2>1, <3>1 DEF Swept, GivesBack
  <2>11. Budgeted(y)
    BY <2>10 DEF Budgeted, Accounted
  <2> QED
    BY <2>6, <2>9, <2>10, <2>11
<1>7. CASE i[1] \notin g.sweep[a]
  <2>1. /\ onQuick \in AllocatorState
        /\ onQuick.list = g.list /\ onQuick.sweep = g.sweep /\ onQuick.seen = g.seen
        /\ onQuick.passed = g.passed /\ onQuick.empty = g.empty
        /\ onQuick.avail = g.avail /\ onQuick.fin = g.fin /\ onQuick.free = g.free
        /\ onQuick.obtained = g.obtained
        /\ onQuick.quick = quick /\ onQuick.bits = bits /\ onQuick.budget = budget
    BY <1>1, <1>3 DEF AllocatorState
  <2> HIDE DEF onBlock, onQuick
  <2>2. Freed(g, a, i, TRUE, onQuick)
    BY <1>4, <2>1 DEF Freed, Kept
  <2>3. /\ Shaped(onQuick, out) /\ Tinted(onQuick, c, m, V)
        /\ Sheltered(onQuick, R \ {i}, D \ {i}, V)
        /\ Objects(onQuick) = Objects(g) \ {i} /\ i \notin g.quick[a]
    BY <1>7, <2>2, FreedSound
  <2>4. ASSUME NEW d \in Small
        PROVE  /\ onQuick.budget[d] + Cardinality(onQuick.quick[d]) = onQuick.obtained[d]
               /\ onQuick.obtained[d] >= N
               /\ IF d = a THEN onQuick.budget[d] >= 0 ELSE onQuick.budget[d] > 0
    <3>1. /\ g.budget[d] + Cardinality(g.quick[d]) = g.obtained[d] /\ g.obtained[d] >= N
          /\ g.budget[d] > 0
      BY DEF Budgeted, Accounted
    <3>2. CASE d = a
      <4>1. /\ IsFiniteSet(g.quick[a]) /\ Cardinality(g.quick[a]) \in Nat
            /\ g.budget[a] \in Int /\ g.obtained[a] \in Nat
        BY <1>1, QuickFinite, Fields
      <4>2. Cardinality(g.quick[a] \cup {i}) = Cardinality(g.quick[a]) + 1
        BY <2>3, <4>1, FS_AddElement
      <4>3. /\ onQuick.quick[d] = g.quick[a] \cup {i} /\ onQuick.budget[d] = g.budget[a] - 1
            /\ onQuick.obtained[d] = g.obtained[a]
        BY <1>4, <2>1, <3>2
      <4> QED
        BY <3>1, <3>2, <4>1, <4>2, <4>3
    <3>3. CASE d # a
      <4>1. /\ onQuick.quick[d] = g.quick[d] /\ onQuick.budget[d] = g.budget[d]
            /\ onQuick.obtained[d] = g.obtained[d]
        BY <1>4, <2>1, <3>3
      <4> QED
        BY <3>1, <3>3, <4>1
    <3> QED
      BY <3>2, <3>3
  <2>5. Accounted(onQuick)
    BY <2>4 DEF Accounted
  <2>6. /\ Shaped(y, out) /\ Tinted(y, c, m, V) /\ Sheltered(y, R \ {i}, D \ {i}, V)
        /\ Budgeted(y) /\ Objects(y) = Objects(onQuick)
        /\ y.empty = onQuick.empty /\ y.passed = onQuick.passed
    <3>1. CASE onQuick.budget[a] <= 0
      <4>1. y \in Grow(onQuick, a)
        BY <1>5, <1>7, <3>1
      <4> QED
        BY <2>3, <2>4, <2>5, <4>1, GrowSound
    <3>2. CASE ~(onQuick.budget[a] <= 0)
      <4>1. y = onQuick
        BY <1>5, <1>7, <3>2
      <4>2. onQuick.budget[a] \in Int
        BY <1>3, <2>1
      <4>3. Budgeted(onQuick)
        BY <2>4, <2>5, <3>2, <4>2 DEF Budgeted
      <4> QED
        BY <2>3, <4>1, <4>3
    <3> QED
      BY <3>1, <3>2
  <2>7. (D \cup {i}) \cap Objects(y) = D \ {i}
    BY <2>3, <2>6 DEF Sheltered
  <2> QED
    BY <2>1, <2>6, <2>7
<1> QED
  BY <1>6, <1>7
LEMMA SmallFinal ==
  ASSUME NEW g \in AllocatorState, NEW out, Placed(g, out), Owned(g), NEW a \in Small \ Using
  PROVE  g.quick[a] = {}
<1>1. Own(g, a) = {}
  BY Kinds DEF Owned
<1>2. g.quick[a] \subseteq (Own(g, a) \ g.sweep[a]) \X (1..N)
  BY DEF Placed
<1> QED
  BY <1>1, <1>2

\* Nothing is left to be swept, nor on a quick list.
LEMMA SweepNeedsSweepingSound ==
  ASSUME NEW g, NEW out, Shaped(g, out), Budgeted(g), NEW y \in SweepNeedsSweeping(g),
         NEW c, NEW m, NEW V, Tinted(g, c, m, V), NEW R, NEW D, Sheltered(g, R, D, V)
  PROVE  /\ Shaped(y, out) /\ Tinted(y, c, m, V) /\ Sheltered(y, R, D \cap Objects(y), V)
         /\ Budgeted(y) /\ y.empty = g.empty /\ y.passed = g.passed
         /\ SweepOf(y) = {} /\ \A a \in Small : y.quick[a] = {}
         /\ Objects(y) \subseteq Objects(g)
         /\ \A i \in Objects(g) : i[1] \in SweepOf(g) /\ g.bits[i] = "none" => i \notin Objects(y)
<1> DEFINE A == Small \cap Using
<1>1. PICK x \in Coalesce(g, A) : y = Sweep(x, SweepOf(x))
  BY Zenon DEF SweepNeedsSweeping, SweepOf
<1>2. A \in SUBSET Small
  OBVIOUS
<1>3. g \in AllocatorState /\ Placed(g, out) /\ Owned(g)
  BY DEF Shaped
<1>4. \A a \in Small : a \in A \/ g.quick[a] = {}
  BY <1>3, SmallFinal
<1> HIDE DEF A
<1>5. /\ Shaped(x, out) /\ Tinted(x, c, m, V) /\ Sheltered(x, R, D, V)
      /\ Objects(x) = Objects(g) /\ \A i \in Objects(g) : x.bits[i] = g.bits[i]
  BY <1>1, <1>2, CoalesceSound
<1>6. x \in AllocatorState /\ Listed(x) /\ Placed(x, out)
  BY <1>5 DEF Shaped
<1>7. x.empty = g.empty /\ x.passed = g.passed /\ SweepOf(x) = SweepOf(g)
  <2>1. \E bs \in SUBSET Block : Coalesced(g, A, Merge(g, A), x, bs)
    BY <1>1, <1>2, <1>3, CoalesceFields
  <2> QED
    BY <2>1 DEF Coalesced, GivesBack, SweepOf
<1>8. /\ Shaped(y, out) /\ Tinted(y, c, m, V) /\ Sheltered(y, R, D \cap Objects(y), V)
      /\ SweepOf(y) = {}
  <2>1. SweepOf(y) = SweepOf(x) \ SweepOf(x)
    BY <1>1, <1>5, SweepSound
  <2> QED
    BY <1>1, <1>5, <2>1, SweepSound
<1>9. Budgeted(x) /\ \A a \in Small : x.quick[a] = {}
  BY <1>1, <1>2, <1>3, <1>4, CoalesceBudget
<1>10. /\ y.quick = x.quick /\ y.budget = x.budget /\ y.obtained = x.obtained
       /\ y.empty = x.empty /\ y.passed = x.passed
  <2>1. \E bs : Swept(x, SweepOf(x), y, bs)
    BY <1>1, <1>6, SweepPlaced
  <2> QED
    BY <2>1 DEF Swept, GivesBack
<1>11. Budgeted(y)
  BY <1>9, <1>10 DEF Budgeted, Accounted
<1>12. /\ Objects(y) \subseteq Objects(x)
       /\ \A i \in Objects(x) : i[1] \in SweepOf(x) =>
            IF x.bits[i] \in {"mark", "queued"} THEN i \in Objects(y) ELSE i \notin Objects(y)
  BY <1>1, <1>6, SweepObjects
<1>13. \A i \in Objects(g) : i[1] \in SweepOf(g) /\ g.bits[i] = "none" => i \notin Objects(y)
  BY <1>5, <1>7, <1>12
<1> QED
  BY <1>5, <1>7, <1>8, <1>9, <1>10, <1>11, <1>12, <1>13

-----------------------------------------------------------------------------
(* The steps outside a collection.                                         *)

\* The parts of IInv in the next state, in terms of the next values.
LEMMA Assemble ==
  ASSUME instance' = instance, TypeOK', PhaseInv', NEW V,
         Shaped(h', {at'}), Budgeted(h'), Tinted(h', collecting', marking', V),
         Sheltered(h', held', destroyed', V),
         \A b \in AllBlocks(h') : b \in V <=> b \in ToVisit(h)',
         Cursor(h, destroyed)', Found(h)'
  PROVE  IInv'
<1>1. h' \in AllocatorState /\ Placed(h', {at'}) /\ Owned(h')
  BY DEF Shaped
<1>2. Using' = Using
  BY DEF Using
<1>3. (ToVisit(h))' \subseteq AllBlocks(h')
  BY DEF ToVisit, Ahead, AllBlocks
<1>4. /\ SmallBlocks(h') \subseteq AllBlocks(h')
      /\ SweepOf(h') \subseteq SmallBlocks(h')
  BY <1>1, Kinds DEF SmallBlocks, AllBlocks, SweepOf, Placed
<1>5. ASSUME NEW i \in Objects(h')
      PROVE  i[1] \in AllBlocks(h')
  <2>1. i \in Item /\ (i[1] \in SmallBlocks(h') \/ i[1] \in Own(h', Large))
    BY <1>1, ObjectsOf
  <2> QED
    BY <1>4, <2>1, Kinds DEF AllBlocks
<1>6. \A i \in Item : h'.bits[i] = "mark" => i[1] \in AllBlocks(h')
  BY <1>1, <1>5 DEF Owned
<1>7. Tinted(h', collecting', marking', ToVisit(h)')
  <2>1. \A b \in SmallBlocks(h') : h'.seen[b] <=> collecting' /\ b \notin ToVisit(h)'
    BY <1>4 DEF Tinted
  <2>2. \A i \in Item : h'.bits[i] = "mark" => i[1] \in ToVisit(h)' \cup SweepOf(h')
    BY <1>6 DEF Tinted
  <2>3. ToVisit(h)' \cap SweepOf(h') = {}
    BY <1>4 DEF Tinted
  <2> QED
    BY <2>1, <2>2, <2>3 DEF Tinted
<1>8. Sheltered(h', held', destroyed', ToVisit(h)')
  <2>1. \A i \in held' : i[1] \in AllBlocks(h')
    BY <1>5 DEF Sheltered
  <2> QED
    BY <2>1 DEF Sheltered
<1>9. Tinted(h, collecting, marking, ToVisit(h))'
  BY <1>7 DEF Tinted, SmallBlocks, SweepOf, Own
<1>10. Sheltered(h, held, destroyed, ToVisit(h))'
  BY <1>8 DEF Sheltered, Objects, SmallBlocks, SweepOf, Own
<1>11. Shaped(h, {at})'
  BY <1>2 DEF Shaped, Listed, Placed, Owned, Own, Objects, SmallBlocks
<1>12. Budgeted(h)'
  BY DEF Budgeted, Accounted
<1> QED
  BY <1>9, <1>10, <1>11, <1>12 DEF IInv
LEMMA RunState ==
  ASSUME IInv, pc = "run"
  PROVE  /\ at = None /\ next = None /\ todo = <<>> /\ doomed = {} /\ collecting = FALSE
         /\ h.empty = {} /\ h.passed \subseteq {Float}
         /\ Shaped(h, {None}) /\ Budgeted(h)
         /\ Tinted(h, FALSE, marking, {}) /\ Sheltered(h, held, destroyed, {})
<1>1. at = None /\ next = None /\ todo = <<>> /\ doomed = {} /\ collecting = FALSE
      /\ h.empty = {} /\ h.passed \subseteq {Float}
  BY DEF IInv, PhaseInv, TypeOK
<1>2. ToVisit(h) = {}
  BY <1>1 DEF ToVisit, Ahead
<1> QED
  BY <1>1, <1>2 DEF IInv

LEMMA HeldItems ==
  ASSUME NEW g, NEW out, Shaped(g, out), NEW R, NEW D, NEW V, Sheltered(g, R, D, V)
  PROVE  R \in SUBSET Item /\ D \in SUBSET Item
BY ObjectsOf DEF Shaped, Sheltered

\* Outside a collection, steps change the allocators and what the program
\* refers to.
LEMMA RunStep ==
  ASSUME IInv, pc = "run", pc' = pc, UNCHANGED <<collecting, instance, closing, pass>>,
         marking' \in BOOLEAN,
         Shaped(h', {None}), Budgeted(h'), h'.empty = {}, h'.passed \subseteq {Float},
         Tinted(h', FALSE, marking', {}), Sheltered(h', held', destroyed', {})
  PROVE  IInv'
<1>1. /\ at = None /\ next = None /\ todo = <<>> /\ doomed = {} /\ collecting = FALSE
  BY RunState
<1>2. /\ at' = None /\ next' = None /\ todo' = <<>> /\ doomed' = {} /\ collecting' = FALSE
      /\ pc' = "run" /\ instance' = instance /\ closing' = closing
      /\ putOnFreeList' = putOnFreeList
  BY <1>1 DEF pass
<1>3. TypeOK'
  <2>1. h' \in AllocatorState
    BY DEF Shaped
  <2>2. held' \in SUBSET Item /\ destroyed' \in SUBSET Item
    BY HeldItems
  <2>3. /\ closing \in BOOLEAN /\ putOnFreeList \in BOOLEAN
        /\ instance \in Instances /\ todo \in Remainders(instance.order)
    BY DEF IInv, TypeOK
  <2> QED
    BY <1>1, <1>2, <2>1, <2>2, <2>3 DEF TypeOK
<1>4. PhaseInv'
  BY <1>2 DEF PhaseInv
<1>5. ToVisit(h)' = {}
  BY <1>2 DEF ToVisit, Ahead
<1>6. Cursor(h, destroyed)'
  BY <1>2 DEF Cursor
<1>7. Found(h)'
  BY <1>2 DEF Found
<1> QED
  BY <1>2, <1>3, <1>4, <1>5, <1>6, <1>7, Assemble

LEMMA QuickStep ==
  ASSUME IInv, NEW a \in Small, AllocFromQuickList(a)
  PROVE  IInv'
<1>1. PICK i \in h.quick[a] : Become(Pop(h, a, i, "none"), held \cup {i}, destroyed \ {i})
  BY DEF AllocFromQuickList
<1>2. pc = "run"
  BY <1>1 DEF IInv, PhaseInv
<1>3. /\ h.empty = {} /\ h.passed \subseteq {Float} /\ Shaped(h, {None}) /\ Budgeted(h)
      /\ Tinted(h, FALSE, marking, {}) /\ Sheltered(h, held, destroyed, {})
  BY <1>2, RunState
<1> DEFINE z == Pop(h, a, i, "none")
<1>4. Popped(h, a, i, "none", z) /\ Budgeted(z)
  <2>1. \A d \in Small : IF d = a THEN h.budget[d] >= 0 ELSE h.budget[d] > 0
    BY <1>3, Fields DEF Budgeted, Shaped
  <2> QED
    BY <1>3, <2>1, PopFields DEF Budgeted
<1> HIDE DEF z
<1>5. /\ Shaped(z, {None}) /\ Tinted(z, FALSE, marking, {})
      /\ Sheltered(z, held \cup {i}, destroyed \ {i}, {})
  <2>1. Sound(h, {None}, FALSE, marking, {}, held, destroyed) /\ Tint("none", i, {})
    BY <1>3 DEF Sound, Tint
  <2>2. Sound(z, {None}, FALSE, marking, {}, held \cup {i}, destroyed \ {i})
    BY <1>4, <2>1, PopSound
  <2> QED
    BY <2>2 DEF Sound
<1>6. z.empty = {} /\ z.passed \subseteq {Float}
  BY <1>3, <1>4 DEF Popped, Kept
<1>7. h' = z /\ held' = held \cup {i} /\ destroyed' = destroyed \ {i}
  <2>1. destroyed \ {i} \subseteq Objects(z)
    BY <1>5 DEF Sheltered
  <2> QED
    BY <1>1, <2>1 DEF Become, z
<1>8. pc' = pc /\ UNCHANGED <<collecting, instance, closing, pass>> /\ marking' = marking
  BY DEF AllocFromQuickList, phase
<1>9. marking \in BOOLEAN
  BY DEF IInv, TypeOK
<1> QED
  BY <1>2, <1>4, <1>5, <1>6, <1>7, <1>8, <1>9, RunStep

LEMMA DropStep ==
  ASSUME IInv, Drop
  PROVE  IInv'
<1>1. PICK i \in held : held' = held \ {i}
  BY DEF Drop
<1>2. /\ pc = "run" /\ pc' = pc /\ UNCHANGED <<collecting, instance, closing, pass>>
      /\ marking' = marking /\ h' = h /\ destroyed' = destroyed
  BY DEF Drop, phase
<1>3. /\ h.empty = {} /\ h.passed \subseteq {Float} /\ Shaped(h, {None}) /\ Budgeted(h)
      /\ Tinted(h, FALSE, marking, {}) /\ Sheltered(h, held, destroyed, {})
  BY <1>2, RunState
<1>4. Sheltered(h, held', destroyed, {})
  BY <1>1, <1>3 DEF Sheltered
<1>5. marking \in BOOLEAN
  BY DEF IInv, TypeOK
<1> QED
  BY <1>2, <1>3, <1>4, <1>5, RunStep

LEMMA StartStep ==
  ASSUME IInv, StartIncrementalMark
  PROVE  IInv'
<1>1. PICK g \in SweepNeedsSweeping(h) : Become(g, held, destroyed)
  BY DEF StartIncrementalMark
<1>2. /\ pc = "run" /\ ~marking /\ marking' = TRUE
      /\ pc' = pc /\ UNCHANGED <<collecting, instance, closing, pass>>
  BY DEF StartIncrementalMark
<1>3. /\ h.empty = {} /\ h.passed \subseteq {Float} /\ Shaped(h, {None}) /\ Budgeted(h)
      /\ Tinted(h, FALSE, marking, {}) /\ Sheltered(h, held, destroyed, {})
  BY <1>2, RunState
<1>4. /\ Shaped(g, {None}) /\ Tinted(g, FALSE, marking, {})
      /\ Sheltered(g, held, destroyed \cap Objects(g), {})
      /\ Budgeted(g) /\ g.empty = h.empty /\ g.passed = h.passed /\ SweepOf(g) = {}
  BY <1>3, SweepNeedsSweepingSound
<1>5. Tinted(g, FALSE, marking', {})
  BY <1>2, <1>4 DEF Tinted
<1>6. h' = g /\ held' = held /\ destroyed' = destroyed \cap Objects(g)
  BY <1>1 DEF Become
<1> QED
  BY <1>2, <1>3, <1>4, <1>5, <1>6, RunStep

\* x is g with other bits, none of which make or unmake a free item.
Rebitted(g, x) ==
  /\ Kept(g, x) /\ x.avail = g.avail /\ x.free = g.free /\ x.quick = g.quick
  /\ x.budget = g.budget /\ x.obtained = g.obtained /\ x.fin \subseteq g.fin
  /\ \A i \in Item : x.bits[i] = "free" <=> g.bits[i] = "free"
  /\ \A i \in Item : x.bits[i] \in {"mark", "queued"} => i \in Objects(g)

LEMMA RebitSound ==
  ASSUME NEW g, NEW out, Shaped(g, out), NEW x, Rebitted(g, x)
  PROVE  /\ Shaped(x, out) /\ Objects(x) = Objects(g)
         /\ SmallBlocks(x) = SmallBlocks(g) /\ SweepOf(x) = SweepOf(g)
         /\ Budgeted(g) => Budgeted(x)
<1>1. g \in AllocatorState /\ Listed(g) /\ Placed(g, out) /\ Owned(g)
  BY DEF Shaped
<1>2. /\ Kept(g, x) /\ x.avail = g.avail /\ x.free = g.free /\ x.quick = g.quick
      /\ x.budget = g.budget /\ x.obtained = g.obtained
      /\ \A i \in Item : x.bits[i] = "free" <=> g.bits[i] = "free"
      /\ \A i \in Item : x.bits[i] \in {"mark", "queued"} => i \in Objects(g)
  BY DEF Rebitted
<1>3. /\ \A d \in Allocs : Own(x, d) = Own(g, d)
      /\ SmallBlocks(x) = SmallBlocks(g) /\ SweepOf(x) = SweepOf(g) /\ Listed(x)
  BY <1>1, <1>2, KeptLists
<1>4. x \in AllocatorState /\ x.sweep = g.sweep /\ x.seen = g.seen /\ x.empty = g.empty
  BY <1>2 DEF Kept
<1>5. Objects(x) = Objects(g)
  <2>1. \A j \in Item : j \in Objects(x) <=> j \in Objects(g)
    BY <1>1, <1>2, <1>3, <1>4, Kinds, ObjectsOf
  <2> QED
    BY <1>1, <1>4, <2>1, ObjectsOf
<1>6. Owned(x)
  <2>1. ASSUME NEW b \in Own(x, Large)
        PROVE  x.bits[<<b, 1>>] # "free"
    <3>1. b \in Own(g, Large) /\ <<b, 1>> \in Item
      BY <1>1, <1>3, OwnType, Kinds, ItemOf
    <3> QED
      BY <1>1, <1>2, <3>1 DEF Owned
  <2> QED
    BY <1>1, <1>2, <1>3, <1>4, <1>5, <2>1 DEF Owned
<1>7. ASSUME NEW d \in Small, NEW b \in Own(x, d), NEW k \in 1..N
      PROVE  /\ ~(<<b, k>> \in x.quick[d] /\ k \in x.free[b])
             /\ x.bits[<<b, k>>] = "free" <=> <<b, k>> \in x.quick[d] \/ k \in x.free[b]
  <2>1. b \in Own(g, d) /\ b \in Block /\ <<b, k>> \in Item
    BY <1>1, <1>3, OwnType, Kinds, ItemOf
  <2>2. /\ ~(<<b, k>> \in g.quick[d] /\ k \in g.free[b])
        /\ g.bits[<<b, k>>] = "free" <=> <<b, k>> \in g.quick[d] \/ k \in g.free[b]
    BY <1>1, <2>1 DEF Placed
  <2>3. x.bits[<<b, k>>] = "free" <=> g.bits[<<b, k>>] = "free"
    BY <1>2, <2>1
  <2> QED
    BY <1>2, <2>2, <2>3
<1>8. \A d \in Small : Own(x, d) = Own(g, d)
  BY <1>3, Kinds
<1>9. Placed(x, out)
  BY <1>1, <1>2, <1>4, <1>7, <1>8 DEF Placed
<1>10. Budgeted(g) => Budgeted(x)
  BY <1>2 DEF Budgeted, Accounted
<1> QED
  BY <1>3, <1>4, <1>5, <1>6, <1>9, <1>10 DEF Shaped

\* What must not be freed now loses its destructor, and counts as destroyed.
LEMMA AbortSound ==
  ASSUME NEW g, NEW out, Shaped(g, out), NEW i \in Objects(g), NEW x, x = AbortFree(g, i),
         NEW c, NEW m, NEW V, Tinted(g, c, m, V), NEW R, NEW D, Sheltered(g, R, D, V)
  PROVE  /\ Kept(g, x) /\ x.free = g.free /\ x.avail = g.avail /\ x.quick = g.quick
         /\ x.bits = g.bits /\ Objects(x) = Objects(g)
         /\ Shaped(x, out) /\ Tinted(x, c, m, V)
         /\ Sheltered(x, R \ {i}, (D \cup {i}) \cap Objects(x), V)
         /\ Budgeted(g) => Budgeted(x)
<1>1. g \in AllocatorState /\ Owned(g)
  BY DEF Shaped
<1>2. x = [g EXCEPT !.fin = @ \ {i}] /\ g.fin \ {i} \in SUBSET Item
  BY <1>1, Fields DEF AbortFree
<1>3. /\ x \in AllocatorState /\ x.bits = g.bits /\ x.fin = g.fin \ {i}
      /\ x.list = g.list /\ x.sweep = g.sweep /\ x.seen = g.seen
      /\ x.passed = g.passed /\ x.empty = g.empty /\ x.avail = g.avail /\ x.free = g.free
      /\ x.quick = g.quick /\ x.budget = g.budget /\ x.obtained = g.obtained
  BY <1>1, <1>2 DEF AllocatorState
<1>4. Rebitted(g, x)
  BY <1>1, <1>3 DEF Rebitted, Kept, Owned
<1>5. /\ Shaped(x, out) /\ Objects(x) = Objects(g)
      /\ SmallBlocks(x) = SmallBlocks(g) /\ SweepOf(x) = SweepOf(g)
      /\ Budgeted(g) => Budgeted(x)
  BY <1>4, RebitSound
<1>6. Tinted(x, c, m, V)
  BY <1>3, <1>5 DEF Tinted
<1>7. Sheltered(x, R \ {i}, (D \cup {i}) \cap Objects(x), V)
  BY <1>3, <1>5 DEF Sheltered
<1> QED
  BY <1>3, <1>5, <1>6, <1>7 DEF Kept

LEMMA MarkStep ==
  ASSUME IInv, MarkObject
  PROVE  IInv'
<1>1. PICK i \in Objects(h) : h.bits[i] = "none" /\ h' = [h EXCEPT !.bits[i] = "queued"]
  BY DEF MarkObject
<1>2. /\ pc = "run" /\ marking /\ pc' = pc /\ UNCHANGED <<collecting, instance, closing, pass>>
      /\ marking' = marking /\ held' = held /\ destroyed' = destroyed
  BY DEF MarkObject, phase
<1>3. /\ h.empty = {} /\ h.passed \subseteq {Float} /\ Shaped(h, {None}) /\ Budgeted(h)
      /\ Tinted(h, FALSE, marking, {}) /\ Sheltered(h, held, destroyed, {})
  BY <1>2, RunState
<1>4. h \in AllocatorState /\ i \in Item
  BY <1>3, ObjectsOf DEF Shaped
<1> DEFINE bits == [h.bits EXCEPT ![i] = "queued"]
<1>5. /\ bits \in [Item -> {"none", "mark", "queued", "free"}]
      /\ \A j \in Item : bits[j] = IF j = i THEN "queued" ELSE h.bits[j]
      /\ h' = [h EXCEPT !.bits = bits]
  BY <1>1, <1>4, Fields DEF AllocatorState
<1> HIDE DEF bits
<1>6. /\ h' \in AllocatorState /\ h'.bits = bits
      /\ h'.list = h.list /\ h'.sweep = h.sweep /\ h'.seen = h.seen
      /\ h'.passed = h.passed /\ h'.empty = h.empty /\ h'.avail = h.avail /\ h'.free = h.free
      /\ h'.quick = h.quick /\ h'.budget = h.budget /\ h'.obtained = h.obtained /\ h'.fin = h.fin
  BY <1>4, <1>5 DEF AllocatorState
<1>7. Rebitted(h, h')
  <2>1. \A j \in Item : h.bits[j] \in {"mark", "queued"} => j \in Objects(h)
    BY <1>3 DEF Shaped, Owned
  <2> QED
    BY <1>1, <1>5, <1>6, <2>1 DEF Rebitted, Kept
<1>8. /\ Shaped(h', {None}) /\ Objects(h') = Objects(h)
      /\ SmallBlocks(h') = SmallBlocks(h) /\ SweepOf(h') = SweepOf(h) /\ Budgeted(h')
  BY <1>3, <1>7, RebitSound
<1>9. SweepOf(h) = {}
  BY <1>2, <1>3 DEF Tinted
<1>10. Tinted(h', FALSE, marking', {})
  BY <1>2, <1>3, <1>5, <1>6, <1>8 DEF Tinted
<1>11. Sheltered(h', held', destroyed', {})
  BY <1>2, <1>3, <1>6, <1>8, <1>9 DEF Sheltered
<1>12. marking \in BOOLEAN
  BY DEF IInv, TypeOK
<1> QED
  BY <1>2, <1>3, <1>6, <1>8, <1>10, <1>11, <1>12, RunStep

LEMMA ProvideCases ==
  ASSUME NEW g, NEW a, NEW x \in Provide(g, a), g.avail[a] = {}
  PROVE  \E S \in IF collecting THEN {{}} ELSE SUBSET g.sweep[a] :
           x = Sweep(g, S) \/ (x \in CreateChunk(Sweep(g, S), a) /\ Sweep(g, S).avail[a] = {})
<1> DEFINE tries == IF collecting THEN {{}} ELSE SUBSET g.sweep[a]
           swept == {Sweep(g, S) : S \in tries}
<1>1. Provide(g, a) = {y \in swept : Cardinality(y.avail[a]) = 1}
                        \cup UNION {CreateChunk(y, a) : y \in
                               {w \in swept : w.avail[a] = {} /\ (collecting \/ w.sweep[a] = {})}}
  BY DEF Provide
<1>2. x \in swept \/ \E y \in swept : y.avail[a] = {} /\ x \in CreateChunk(y, a)
  BY <1>1
<1> QED
  BY <1>2

LEMMA ProvideRun ==
  ASSUME IInv, pc = "run", NEW a \in Small \cap Using, NEW x \in Provide(h, a)
  PROVE  /\ Shaped(x, {None}) /\ Budgeted(x) /\ x.empty = {} /\ x.passed \subseteq {Float}
         /\ x.quick = h.quick
         /\ Tinted(x, FALSE, marking, {})
         /\ Sheltered(x, held, destroyed \cap Objects(x), {})
<1>1. /\ h.empty = {} /\ h.passed \subseteq {Float} /\ Shaped(h, {None}) /\ Budgeted(h)
      /\ Tinted(h, FALSE, marking, {}) /\ Sheltered(h, held, destroyed, {}) /\ collecting = FALSE
  BY RunState
<1>2. ASSUME NEW S \in SUBSET h.sweep[a], NEW y, y = Sweep(h, S)
      PROVE  /\ Shaped(y, {None}) /\ Budgeted(y) /\ y.empty = {} /\ y.passed \subseteq {Float}
             /\ y.quick = h.quick
             /\ Tinted(y, FALSE, marking, {})
             /\ Sheltered(y, held, destroyed \cap Objects(y), {})
  <2>1. S \in SUBSET SweepOf(h)
    BY DEF SweepOf
  <2>2. h \in AllocatorState /\ Listed(h) /\ Placed(h, {None})
    BY <1>1 DEF Shaped
  <2>3. \E bs : Swept(h, S, y, bs)
    BY <1>2, <2>1, <2>2, SweepPlaced
  <2>4. /\ y.quick = h.quick /\ y.budget = h.budget /\ y.obtained = h.obtained
        /\ y.empty = h.empty /\ y.passed = h.passed
    BY <2>3 DEF Swept, GivesBack
  <2>5. Budgeted(y)
    BY <1>1, <2>4 DEF Budgeted, Accounted
  <2> QED
    BY <1>1, <1>2, <2>1, <2>4, <2>5, SweepSound
<1>3. ASSUME NEW S \in SUBSET h.sweep[a], x \in CreateChunk(Sweep(h, S), a)
      PROVE  /\ Shaped(x, {None}) /\ Budgeted(x) /\ x.empty = {} /\ x.passed \subseteq {Float}
             /\ x.quick = h.quick
             /\ Tinted(x, FALSE, marking, {})
             /\ Sheltered(x, held, destroyed \cap Objects(x), {})
  <2> DEFINE y == Sweep(h, S)
  <2>1. /\ Shaped(y, {None}) /\ Budgeted(y) /\ y.empty = {} /\ y.passed \subseteq {Float}
        /\ y.quick = h.quick
        /\ Tinted(y, FALSE, marking, {})
        /\ Sheltered(y, held, destroyed \cap Objects(y), {})
    BY <1>2
  <2> HIDE DEF y
  <2>2. PICK b \in Spare(y) : Created(y, a, b, FALSE, x)
    <3>1. y \in AllocatorState
      BY <2>1 DEF Shaped
    <3>2. PICK b \in Spare(y) : Created(y, a, b, collecting /\ a \in y.passed, x)
      BY <1>3, <3>1, CreateFields DEF y
    <3>3. (collecting /\ a \in y.passed) = FALSE
      BY <1>1
    <3> QED
      BY <3>2, <3>3
  <2>3. b \in Block /\ b \notin AllBlocks(y) \cup y.empty
    BY Kinds DEF Spare, InUse, AllBlocks, SmallBlocks
  <2>4. /\ Shaped(x, {None}) /\ Tinted(x, FALSE, marking, {})
        /\ Sheltered(x, held, destroyed \cap Objects(y), {})
        /\ Objects(x) = Objects(y)
    <3> DEFINE D == destroyed \cap Objects(y)
    <3>1. Fits(FALSE, FALSE, b, {}, {}) /\ b \notin AllBlocks(y) \cup y.empty \cup {}
      BY <2>3 DEF Fits
    <3>2. Sound(y, {None}, FALSE, marking, {}, held, D)
      BY <2>1 DEF Sound
    <3> HIDE DEF D
    <3>3. Sound(x, {None}, FALSE, marking, {}, held, D) /\ Joined(y, {}, x)
      BY <2>2, <2>3, <3>1, <3>2, CreateSound
    <3> QED
      BY <3>3 DEF Sound, Joined, D
  <2>5. /\ x.quick = y.quick /\ x.budget = y.budget /\ x.obtained = y.obtained
        /\ x.empty = y.empty /\ x.passed = y.passed
    BY <2>2 DEF Created
  <2>6. Budgeted(x)
    BY <2>1, <2>5 DEF Budgeted, Accounted
  <2> QED
    BY <2>1, <2>4, <2>5, <2>6
<1>4. CASE h.avail[a] # {}
  <2>1. x = h
    BY <1>4 DEF Provide
  <2>2. destroyed \cap Objects(h) = destroyed
    BY <1>1 DEF Sheltered
  <2> QED
    BY <1>1, <2>1, <2>2
<1>5. CASE h.avail[a] = {}
  <2>1. \E S \in SUBSET h.sweep[a] : x = Sweep(h, S) \/ x \in CreateChunk(Sweep(h, S), a)
    BY <1>1, <1>5, ProvideCases
  <2> QED
    BY <1>2, <1>3, <2>1
<1> QED
  BY <1>4, <1>5

LEMMA SlowRunStep ==
  ASSUME IInv, pc = "run", NEW a \in Small, AllocSlow(a)
  PROVE  IInv'
<1>1. collecting = FALSE /\ marking \in BOOLEAN
  BY RunState DEF IInv, TypeOK
<1>2. /\ a \in Using /\ h.quick[a] = {}
      /\ pc' = pc /\ UNCHANGED <<collecting, instance, closing, pass>> /\ marking' = marking
  BY DEF AllocSlow, phase
<1>3. PICK x \in Provide(h, a) : \E b \in x.avail[a] : \E y \in FillQuickList(x, a, b) :
        \E i \in y.quick[a] :
          Become(Pop(y, a, i, NewBits(y, i)), held \cup {i}, destroyed \ {i})
  BY <1>1 DEF AllocSlow
<1>4. PICK b \in x.avail[a] : \E y \in FillQuickList(x, a, b) : \E i \in y.quick[a] :
        Become(Pop(y, a, i, NewBits(y, i)), held \cup {i}, destroyed \ {i})
  BY <1>3
<1>5. PICK y \in FillQuickList(x, a, b) : \E i \in y.quick[a] :
        Become(Pop(y, a, i, NewBits(y, i)), held \cup {i}, destroyed \ {i})
  BY <1>4
<1>6. PICK i \in y.quick[a] :
        Become(Pop(y, a, i, NewBits(y, i)), held \cup {i}, destroyed \ {i})
  BY <1>5
<1>7. /\ Shaped(x, {None}) /\ Budgeted(x) /\ x.empty = {} /\ x.passed \subseteq {Float}
      /\ x.quick = h.quick
      /\ Tinted(x, FALSE, marking, {})
      /\ Sheltered(x, held, destroyed \cap Objects(x), {})
  BY <1>2, ProvideRun
<1>8. /\ Filled(x, a, b, y) /\ Accounted(y)
      /\ \A d \in Small : IF d = a THEN y.budget[d] >= 0 ELSE y.budget[d] > 0
  BY <1>2, <1>7, FillFields
<1>9. /\ Shaped(y, {None}) /\ Tinted(y, FALSE, marking, {})
      /\ Sheltered(y, held, destroyed \cap Objects(x), {})
      /\ Objects(y) = Objects(x)
  BY <1>2, <1>7, FillSound
<1> DEFINE z == Pop(y, a, i, NewBits(y, i))
<1>10. NewBits(y, i) = "none"
  BY <1>1 DEF NewBits
<1>11. Popped(y, a, i, "none", z) /\ Budgeted(z)
  BY <1>8, <1>9, <1>10, PopFields
<1> HIDE DEF z
<1>12. /\ Shaped(z, {None}) /\ Tinted(z, FALSE, marking, {})
       /\ Sheltered(z, held \cup {i}, (destroyed \cap Objects(x)) \ {i}, {})
       /\ Objects(z) = Objects(y) \cup {i}
  <2> DEFINE D == destroyed \cap Objects(x)
  <2>1. Sound(y, {None}, FALSE, marking, {}, held, D) /\ Tint("none", i, {})
    BY <1>9 DEF Sound, Tint
  <2> HIDE DEF D
  <2>2. Sound(z, {None}, FALSE, marking, {}, held \cup {i}, D \ {i}) /\ Joined(y, {i}, z)
    BY <1>11, <2>1, PopSound
  <2> QED
    BY <2>2 DEF Sound, Joined, D
<1>13. z.empty = {} /\ z.passed \subseteq {Float}
  BY <1>7, <1>8, <1>11 DEF Popped, Filled, Kept
<1>14. h' = z /\ held' = held \cup {i} /\ destroyed' = (destroyed \cap Objects(x)) \ {i}
  <2>1. (destroyed \ {i}) \cap Objects(z) = (destroyed \cap Objects(x)) \ {i}
    BY <1>9, <1>12
  <2> QED
    BY <1>6, <2>1 DEF Become, z
<1> QED
  BY <1>1, <1>2, <1>11, <1>12, <1>13, <1>14, RunStep

LEMMA FreeSmallRunStep ==
  ASSUME IInv, pc = "run", NEW a \in Small, FreeSmall(a)
  PROVE  IInv'
<1>1. /\ pc' = pc /\ UNCHANGED <<collecting, instance, closing, pass>> /\ marking' = marking
      /\ marking \in BOOLEAN
  BY DEF FreeSmall, phase, IInv, TypeOK
<1>2. PICK i \in Deletable : /\ i[1] \in Own(h, a)
        /\ \E g \in IF MustAbort(i) THEN {AbortFree(h, i)} ELSE FreeItem(h, a, i) :
             Become(g, held \ {i}, destroyed \cup {i})
  BY DEF FreeSmall
<1>3. PICK g \in IF MustAbort(i) THEN {AbortFree(h, i)} ELSE FreeItem(h, a, i) :
        Become(g, held \ {i}, destroyed \cup {i})
  BY <1>2
<1>4. i \in held /\ i \in Objects(h)
  BY DEF Deletable
<1>5. /\ h.empty = {} /\ h.passed \subseteq {Float} /\ Shaped(h, {None}) /\ Budgeted(h)
      /\ Tinted(h, FALSE, marking, {}) /\ Sheltered(h, held, destroyed, {})
  BY RunState
<1>6. h' = g /\ held' = held \ {i} /\ destroyed' = (destroyed \cup {i}) \cap Objects(g)
  BY <1>3 DEF Become
<1>7. /\ Shaped(g, {None}) /\ Budgeted(g) /\ g.empty = {} /\ g.passed \subseteq {Float}
      /\ Tinted(g, FALSE, marking, {})
      /\ Sheltered(g, held \ {i}, (destroyed \cup {i}) \cap Objects(g), {})
  <2>1. CASE MustAbort(i)
    <3>1. g = AbortFree(h, i)
      BY <1>3, <2>1
    <3>2. /\ Shaped(g, {None}) /\ Tinted(g, FALSE, marking, {}) /\ Budgeted(g) /\ Kept(h, g)
          /\ Sheltered(g, held \ {i}, (destroyed \cup {i}) \cap Objects(g), {})
      BY <1>4, <1>5, <3>1, AbortSound
    <3>3. g.empty = {} /\ g.passed \subseteq {Float}
      BY <1>5, <3>2 DEF Kept
    <3> QED
      BY <3>2, <3>3
  <2>2. CASE ~MustAbort(i)
    <3>1. g \in FreeItem(h, a, i)
      BY <1>3, <2>2
    <3> QED
      BY <1>2, <1>4, <1>5, <3>1, FreeItemSound
  <2> QED
    BY <2>1, <2>2
<1> QED
  BY <1>1, <1>5, <1>6, <1>7, RunStep
=============================================================================
