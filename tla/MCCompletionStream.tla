-------------------------- MODULE MCCompletionStream --------------------------
(* CompletionStream for TLC.  Requests differ in nothing but their name and *)
(* so do conversations, and no property names one: both are symmetric.      *)
EXTENDS CompletionStream, TLC

Symmetry == Permutations(Requests) \cup Permutations(Conversations)
===============================================================================
