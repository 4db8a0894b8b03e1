-------------------------- MODULE MCTrainingPipeline --------------------------
(* Instances of TrainingPipeline for TLC. *)
EXTENDS TrainingPipeline, TLC

\* Pool threads and clients are interchangeable.
Symmetry == Permutations(Workers) \cup Permutations(Clients)
===============================================================================
