--------------------------- MODULE MCAttackGraph ---------------------------
(* Instances of AttackGraph for TLC.                                       *)
EXTENDS AttackGraph

CONSTANTS a, b, c  \* two hosts and an identity

E(s, t, w) == [source |-> s, target |-> t, weight |-> w, network |-> {s, t} \subseteq Devices]

(* Both ways between any two, a loop, and a parallel edge that weighs more.*)
AllEdges == ({E(s, t, 1) : s, t \in {a, b, c}} \ {E(b, b, 1), E(c, c, 1)})
              \cup {E(a, b, 3)}
============================================================================
