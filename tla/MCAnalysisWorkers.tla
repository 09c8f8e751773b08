------------------------- MODULE MCAnalysisWorkers -------------------------
(* Two samples, interchangeable, for the checks of AnalysisWorkers.         *)
EXTENDS AnalysisWorkers, TLC

CONSTANTS f1, f2   \* model values
TwoSamples == {f1, f2}
SampleSymmetry == Permutations(TwoSamples)

=============================================================================
