----------------------------- MODULE MarkStack ------------------------------
(***************************************************************************)
(* GCMarkStack (MMgc/GCStack.h, .cpp, -inlines.h): the explicit stack of   *)
(* the marker.  It is a list of segments of one block each; a new segment  *)
(* comes from the heap and may be refused, and the last emptied segment is *)
(* cached in m_extraSegment.                                               *)
(*                                                                         *)
(* A stack is a record: its items from the bottom up, the base of each     *)
(* segment (the number of items below it) from the bottom up, and whether  *)
(* a segment is cached.  The length of a segment is counted in items,      *)
(* where the code counts the one to four words of each item.               *)
(***************************************************************************)
EXTENDS Integers, Sequences

\* What ClearItemAt leaves in the place of an item.
Dead == [t |-> "dead", k |-> 0]

EmptyStack == [items |-> <<>>, base |-> <<0>>, extra |-> FALSE]

Count(s) == Len(s.items)
IsEmpty(s) == s.items = <<>>
Items(s) == {s.items[i] : i \in 1..Len(s.items)}
TopItem(s) == s.items[Len(s.items)]
InactiveSegments(s) == Len(s.base) - 1

\* Items in the top segment.
TopCount(s) == Count(s) - s.base[Len(s.base)]

\* PopulateExtraSegment: a segment is cached, or the heap gives one.
HasSegment(s, more) == s.extra \/ more

\* allocSpace finds room in the top segment or pushes a segment.
CanPush(s, limit, more) == TopCount(s) < limit \/ HasSegment(s, more)

Push(s, x, limit) ==
  LET room == TopCount(s) < limit
  IN [items |-> Append(s.items, x),
      base  |-> IF room THEN s.base ELSE Append(s.base, Count(s)),
      extra |-> s.extra /\ room]

\* freeSpace: a segment that gets empty is popped and cached, unless it is
\* the last one.
Pop(s) ==
  LET last == TopCount(s) = 1 /\ Len(s.base) > 1
  IN [items |-> SubSeq(s.items, 1, Len(s.items) - 1),
      base  |-> IF last THEN SubSeq(s.base, 1, Len(s.base) - 1) ELSE s.base,
      extra |-> s.extra \/ last]

ClearItemAt(s, i) == [s EXCEPT !.items[i] = Dead]

\* ClearRootProtectorAndChunkAbove: the protector at i and the first item
\* above it that is in "chunks" die.
ClearWithItemAbove(s, i, chunks) ==
  LET first(j) == j > i /\ s.items[j] \in chunks
                  /\ \A l \in (i + 1)..(j - 1) : s.items[l] \notin chunks
  IN [s EXCEPT !.items = [j \in 1..Len(@) |-> IF j = i \/ first(j) THEN Dead ELSE @[j]]]

\* Segments arrive at the bottom of an empty stack, whose own segment is
\* popped and cached.
Insert(moved) == [items |-> moved.items, base |-> moved.base, extra |-> TRUE]

\* TransferOneInactiveSegmentFrom takes the segment below the top one.
OneBelowTop(other) ==
  LET n == Len(other.base)
  IN [items |-> SubSeq(other.items, other.base[n - 1] + 1, other.base[n]), base |-> <<0>>]

WithoutOneBelowTop(other) ==
  LET n == Len(other.base)
  IN [other EXCEPT
        !.items = SubSeq(@, 1, other.base[n - 1]) \o SubSeq(@, other.base[n] + 1, Len(@)),
        !.base = SubSeq(@, 1, n - 1)]

\* TransferEverythingFrom succeeds only if "other" can be given a segment to
\* replace the ones that are taken from it.
CanTransferEverything(other, more) == IsEmpty(other) \/ HasSegment(other, more)

\* GCMarkStack::Invariants: no segment is too long, and only the last one
\* may be empty.
WellFormed(s, limit) ==
  /\ s.base # <<>> /\ s.base[1] = 0
  /\ \A i \in 2..Len(s.base) : s.base[i] - s.base[i - 1] \in 1..limit
  /\ TopCount(s) \in (IF Len(s.base) > 1 THEN 1 ELSE 0)..limit
=============================================================================
