-------------------------- MODULE MCAnalysisSystem --------------------------
(* AnalysisSystem on small instances: the sets are model values of the .cfg. *)
EXTENDS AnalysisSystem, TLC

Symmetry == Permutations(Attempts) \cup Permutations(Versions)
              \cup Permutations(Workers)
=============================================================================
