---------------------------- MODULE MCAnalysisApi ----------------------------
(* Small instances of AnalysisApi for TLC. *)
EXTENDS AnalysisApi, TLC

HourOnly == {"analysis:hour"}
One == [w \in HourOnly |-> 1]

\* The hour allows one creation and the day two.
HourAndDay == {"analysis:hour", "analysis:day"}
OneAndTwo == [w \in HourAndDay |-> IF w = "analysis:hour" THEN 1 ELSE 2]

Symmetry == Permutations(Requests) \cup Permutations(Targets) \cup Permutations(Versions)
=============================================================================
