------------------------------ MODULE MCBrain ------------------------------
(***************************************************************************)
(* brain.py on small trees, for TLC.  No action tells two folders apart,   *)
(* so that they may be permuted; the two tests differ in what they leave   *)
(* behind.                                                                 *)
(***************************************************************************)
EXTENDS Brain, TLC

Symmetry == Permutations(Syscalls)

=============================================================================
