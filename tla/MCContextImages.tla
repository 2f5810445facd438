---------------------------- MODULE MCContextImages ----------------------------
(* Symmetry for the runs of ContextImages.                                 *)
EXTENDS ContextImages, TLC

Symmetry == Permutations(Urls)
=============================================================================
