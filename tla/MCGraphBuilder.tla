---------------------------- MODULE MCGraphBuilder ----------------------------
(* GraphBuilder for TLC.  Callers are interchangeable: the symmetry is for *)
(* larger instances without EveryCallReturns, which TLC must not check     *)
(* under a symmetry.                                                       *)
EXTENDS GraphBuilder, TLC

Symmetry == Permutations(Callers)
===============================================================================
