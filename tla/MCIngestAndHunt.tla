-------------------------- MODULE MCIngestAndHunt --------------------------
(* Instances of IngestAndHunt for TLC.                                     *)
EXTENDS IngestAndHunt, TLC

CONSTANTS A, B,  \* two tenants
          h1, h2, h3, h4

(* A process that is suspicious for two reasons, and a file that is not.   *)
Shell == [family |-> "process", facts |-> {"no_parent", "suspicious_command"}]
Note  == [family |-> "file", facts |-> {}]

MCTelemetry == {Shell, Note}
MCShipped == [e \in MCTelemetry |->
                [tenant |-> A, kind |-> e.family, text |-> "evil"]]

(* Behaviour of both tenants comes from elsewhere.                         *)
MCOthers == {[tenant |-> t, kind |-> "behavior", text |-> "evil"] : t \in {A, B}}

HuntFor(s) == [tenant |-> A, search |-> s, kinds |-> {"process"}, texts |-> {"evil"},
               pair |-> <<"process", "behavior">>]
MCOf == (h1 :> HuntFor("Historical")) @@ (h2 :> HuntFor("Ioc"))
          @@ (h3 :> HuntFor("Behavioral")) @@ (h4 :> HuntFor("Correlation"))

Symmetry == Permutations(Agents) \cup Permutations(Hunters)
============================================================================
