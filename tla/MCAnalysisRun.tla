---------------------------- MODULE MCAnalysisRun ----------------------------
(* A small instance of AnalysisRun for TLC. *)
EXTENDS AnalysisRun

A(s, c) == [score |-> s, confidence |-> c]

\* 0.29495 becomes 30 by rounding twice; with the text alone a confidence of 0.69
\* or 0.7 lies on either side of the threshold.
SomeAnswers == {A(29495, 69000), A(59950, 70000), A(100000, 100000)}
=============================================================================
