----------------------------- MODULE MCFileStore -----------------------------
(* Instances of FileStore for TLC: model values and their symmetry.        *)
EXTENDS FileStore, TLC

Symmetry == Permutations(Files) \cup Permutations(Slots)
=============================================================================
