-------------------------- MODULE MCDefectAnalysis --------------------------
(* TLC's view of DefectAnalysis; the configurations give every constant.      *)
EXTENDS DefectAnalysis
=============================================================================
