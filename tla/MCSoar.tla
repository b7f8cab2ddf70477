------------------------------- MODULE MCSoar -------------------------------
(* Instances of Soar for TLC.                                              *)
EXTENDS Soar, TLC

Symmetry == Permutations(Tasks) \cup Permutations(Executions)
=============================================================================
