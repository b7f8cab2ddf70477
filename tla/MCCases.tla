------------------------------ MODULE MCCases ------------------------------
(* Instances of Casework for TLC.                                          *)
EXTENDS Casework, TLC

(* Analysts and cases are interchangeable.                                 *)
Symmetry == Permutations(Analysts) \cup Permutations(CaseIds)
=============================================================================
