---------------------------- MODULE MCIncidents ----------------------------
(* Instances of Incidents for TLC.                                         *)
EXTENDS Incidents, TLC

(* Threads and uuids are interchangeable.                                  *)
Symmetry == Permutations(Threads) \cup Permutations(Ids)
=============================================================================
