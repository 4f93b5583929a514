--------------------------- MODULE MCAnalysisStore ---------------------------
(* AnalysisStore on small instances: the sets are model values of the .cfg. *)
EXTENDS AnalysisStore, TLC

\* Attempt ids and versions are interchangeable: no action compares them
\* otherwise than for equality.
Symmetry == Permutations(Attempts) \cup Permutations(Versions)
==============================================================================
