------------------------------- MODULE Scoring -------------------------------
(***************************************************************************)
(* aggregate_detector_outputs: from the outputs of the three detectors to  *)
(* the published score, confidence and label.  Decimals are integers:      *)
(* weights and material factors in tenths, what a detector answers in      *)
(* Unit-ths, which leaves a decimal more than the code keeps internally.   *)
(***************************************************************************)
EXTENDS Integers, Functions

Unit == 100000

Weight == [text |-> 5, visual |-> 4, metadata |-> 1]
Kinds == DOMAIN Weight

\* An output after _safe_detector: a detector without material, or one that
\* failed, has the material factor 0.
Output(s, c, f) == [score |-> s, confidence |-> c, factor |-> f]
Unavailable == Output(0, 0, 0)

\* Decimal.quantize with ROUND_HALF_UP of n/d, for n >= 0.
HalfUp(n, d) == (2 * n + d) \div (2 * d)

\* Mutant: a detector that failed counts with its score of zero.
AvailableAll(outputs) == Kinds

\* material_factor > 0.
Available(outputs) == {k \in Kinds : outputs[k].factor > 0}

\* Both in ten-thousandths, as the code retains them.
NormalizedScore(outputs) ==
    LET A == Available(outputs)
        weighted == [k \in Kinds |-> Weight[k] * outputs[k].score]
    IN  IF A = {} THEN 0
        ELSE HalfUp(SumFunctionOnSet(weighted, A), 10 * SumFunctionOnSet(Weight, A))

InternalConfidence(outputs) ==
    LET part == [k \in Kinds |-> Weight[k] * outputs[k].confidence * outputs[k].factor]
    IN  HalfUp(SumFunctionOnSet(part, Available(outputs)), 1000)

LabelForScore(s) ==
    CASE s < 30 -> "none"
      [] s \in 30..59 -> "light"
      [] s \in 60..79 -> "medium"
      [] OTHER -> "high"

NoLabel == "null"
Labels == {NoLabel, "none", "light", "medium", "high"}

\* Mutant: the published confidence is compared with the threshold.
LabelOfRounded(score, confidence) ==
    IF HalfUp(confidence, 100) < 40 THEN NoLabel ELSE LabelForScore(score)

\* The confidence of four decimals is.
Label(score, confidence) ==
    IF confidence < 4000 THEN NoLabel ELSE LabelForScore(score)

\* Score and confidence in hundredths.
Aggregate(outputs) ==
    LET score == HalfUp(NormalizedScore(outputs), 100)
        confidence == InternalConfidence(outputs)
    IN  [score |-> score, confidence |-> HalfUp(confidence, 100),
         label |-> Label(score, confidence)]

\* detect_metadata: a declaration, or the AI markers found in the texts.
MetadataOutput(declared, markers) ==
    Output(IF declared \/ markers >= 3 THEN Unit ELSE markers * 35000,
           IF declared THEN Unit ELSE IF markers > 0 THEN 70000 ELSE 50000,
           10)
=============================================================================
