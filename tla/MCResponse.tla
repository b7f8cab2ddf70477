---------------------------- MODULE MCResponse ----------------------------
(* Instances of Countermeasures for TLC.                                   *)
EXTENDS Countermeasures, TLC

OtherEvents == {[kind |-> "DetectionTriggered"]}
Symmetry == Permutations(Tasks) \cup Permutations(Requests)
===========================================================================
