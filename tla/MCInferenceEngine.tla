------------------------- MODULE MCInferenceEngine -------------------------
EXTENDS InferenceEngine, TLC

\* All threads in the first process.
MCProcessOf == [t \in Threads |-> "p1"]

Symmetry == Permutations(Threads)
============================================================================
