------------------------------- MODULE MCMark -------------------------------
\* Mark for model checking: two objects, in heaps that exercise conservative
\* objects of two parts, exact objects of two parts, and roots of two parts.
EXTENDS Mark

CONSTANTS a, L

Heap(large, root, exact, fits) ==
  [parts |-> [b \in Memory |-> CASE b = a -> 1 [] b = L -> large [] b = Root -> root [] b = Stack -> 2],
   exact |-> exact,
   fits |-> fits]

\* The types of the slots: those of a and of the first part of L are given,
\* the second part of L holds an a, others an L first and an a second.
Types(inA, inL) ==
  [b \in Memory |-> [k \in Slot |-> CASE b = a -> inA
                                      [] b = L /\ k = 1 -> inL
                                      [] b # a /\ ~(b = L /\ k = 1) -> IF k = 2 \/ b = L THEN {a} ELSE {L}]]

MCShapes ==
  {Heap(2, 1, {}, Types({L}, {})), Heap(2, 1, {L}, Types({}, {a})), Heap(1, 2, {}, Types({L}, {}))}

MCSplitShapes == {Heap(2, 1, {}, Types({L}, {a}))}
=============================================================================
