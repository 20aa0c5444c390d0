----------------------------- MODULE MCWorkspace -----------------------------
(* Instances of Workspace for TLC: model values and their symmetry.        *)
EXTENDS AccountView, TLC

Symmetry ==
    Permutations(Users) \cup Permutations(Sessions)
    \cup Permutations(Files) \cup Permutations(Slots)
=============================================================================
