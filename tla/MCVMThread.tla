----------------------------- MODULE MCVMThread -----------------------------
(* VMThread for TLC: the constants are given in the .cfg files. *)
EXTENDS VMThread
=============================================================================
