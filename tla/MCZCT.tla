------------------------------- MODULE MCZCT --------------------------------
\* ZCT for model checking: the memory for objects is interchangeable.
EXTENDS ZCT, TLC

ObjSymmetry == Permutations(Obj)

\* Bound: one object is never reaped, because it is sticky or its count is one
\* too high.
FewStuck ==
  /\ Cardinality(sticky \cup {o \in Obj : excess[o] > 0}) <= 1
  /\ \A o \in Obj : excess[o] <= 1

\* Bound: length of the free list.
FewSpare == spare <= 1
=============================================================================
