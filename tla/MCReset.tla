------------------------------ MODULE MCReset ------------------------------
(* Reset, Convert and RmComment for TLC: the folders are symmetric.        *)
EXTENDS Reset

Symmetry == Permutations(Folders)

=============================================================================
