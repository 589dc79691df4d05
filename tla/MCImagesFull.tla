---------------------------- MODULE MCImagesFull ----------------------------
(* The instance in which every module has its symbols and each rebuild keeps *)
(* to the lines' segments: what the theorems about all points presuppose.    *)
EXTENDS MCImages

ASSUME FullAssumption == AllSymbols /\ LinesStay
===============================================================================
