------------------------------ MODULE MCMemCache ------------------------------
(* MemCache for TLC.  Threads are interchangeable, and so are keys, and no *)
(* property names one.                                                     *)
EXTENDS MemCache, TLC

Symmetry == Permutations(Threads) \cup Permutations(Keys)
===============================================================================
