------------------------------- MODULE MCNdr -------------------------------
(* Instances of Ndr for TLC.                                               *)
EXTENDS Ndr, TLC

(* Flows between one pair of hosts, to two of the ports of one of them.    *)
MCFlows == {[dest |-> "web", pair |-> "p", alarm |-> "none"],
            [dest |-> "smb", pair |-> "p", alarm |-> "lateral_movement"]}

(* Threads are interchangeable.                                            *)
Symmetry == Permutations(Threads)
=============================================================================
