---------------------------- MODULE MCSafepoint ----------------------------
(* Safepoint for TLC. *)
EXTENDS Safepoint, TLC

Symmetry == Permutations(Thread) \cup Permutations(Manager)
=============================================================================
