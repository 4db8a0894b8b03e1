---------------------------- MODULE MCRequestPath ----------------------------
(* Two request threads are interchangeable. *)
EXTENDS RequestPath, TLC

Symmetry == Permutations(Threads)
==============================================================================
