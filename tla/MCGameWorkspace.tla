---------------------------- MODULE MCGameWorkspace ----------------------------
(* Symmetry for the runs of GameWorkspace.                                 *)
EXTENDS GameWorkspace, TLC

Symmetry == Permutations(Callers) \cup Permutations(Files) \cup Permutations(Passages)
=============================================================================
