----------------------------- MODULE MCPipeline -----------------------------
(* Instances of Pipeline for TLC.                                          *)
EXTENDS Pipeline, TLC

CONSTANTS A1, B1,    \* two tenants
          d1, d2,    \* their triggers
          q1, q0     \* a technique, and an id that is not built in

MCTenantOf == (d1 :> A1) @@ (d2 :> B1)
MCClaimed  == (d1 :> <<q0, q1>>) @@ (d2 :> <<>>)

Symmetry == Permutations(Deliverers) \cup Permutations(Ids)
=============================================================================
