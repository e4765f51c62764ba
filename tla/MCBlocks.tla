------------------------------ MODULE MCBlocks ------------------------------
\* Blocks for model checking: the heap's blocks are interchangeable.
EXTENDS Blocks, TLC

CONSTANTS p, f

\* The allocators that meet in one instance.
MCInstances ==
  {[order |-> <<f>>, blocks |-> 3, queue |-> 0]}
    \cup [order : {<<f>>, <<f, p>>, <<p, f>>, <<f, Large>>, <<p, Large>>},
          blocks : {2}, queue : {1}]
OneAllocator == {[order |-> <<f>>, blocks |-> 3, queue |-> 1]}
BlockSymmetry == Permutations(Block)
=============================================================================
