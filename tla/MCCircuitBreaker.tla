--------------------------- MODULE MCCircuitBreaker ---------------------------
(* Instances of CircuitBreaker for TLC. *)
EXTENDS CircuitBreaker, TLC

\* Threads are interchangeable.
Symmetry == Permutations(Threads)
===============================================================================
