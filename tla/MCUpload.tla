------------------------------ MODULE MCUpload ------------------------------
(***************************************************************************)
(* Instances of Upload for TLC: the symmetry of its worker threads.        *)
(***************************************************************************)
EXTENDS Upload, TLC

\* Worker threads only differ by name.
Symmetry == Permutations(Threads)
=============================================================================
