---------------------------- MODULE MCFileWriter ----------------------------
(* Two uploads to two paths; the uploads are alike.                        *)
EXTENDS FileWriter, TLC

Symmetry == Permutations(Writers)
=============================================================================
