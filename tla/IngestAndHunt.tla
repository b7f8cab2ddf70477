--------------------------- MODULE IngestAndHunt ---------------------------
(***************************************************************************)
(* Endpoint telemetry and threat hunting together, the way a controller    *)
(* uses the platform (sdk/src/platform.rs) in                              *)
(* tests/tests/platform_integration.rs: an event goes to the endpoint      *)
(* engine and then into the data lake, where hunts look for it, while a    *)
(* consumer drains the announcements.                                      *)
(***************************************************************************)
EXTENDS Naturals, Sequences, FiniteSets

CONSTANTS
  Agents, Telemetry, MaxCopies,              \* see Edr
  Hunters, Hunts, Of, MaxLake, MaxHunts, MaxRuns,  \* see Hunting
  Others,                                    \* the records of other producers
  Shipped,                                   \* event -> its record in the lake
  None

ASSUME ShippedAssumption ==
  /\ \A e \in Telemetry : Shipped[e] \notin Others /\ Shipped[e].kind = e.family
  /\ \A e, f \in Telemetry : Shipped[e] = Shipped[f] => e = f

VARIABLES
  stored, pending, drained, call,                  \* see Edr
  status, completed, results, lake, runs, run,     \* see Hunting
  outbox                                           \* agent -> the event to ship

evars == <<stored, pending, drained, call>>
hvars == <<status, completed, results, lake, runs, run>>
vars  == <<stored, pending, drained, call, status, completed, results, lake, runs, run, outbox>>

D == INSTANCE Edr
H == INSTANCE Hunting WITH Records <- Others \cup {Shipped[e] : e \in Telemetry}

(* There are finitely many threads.                                        *)
ASSUME AgentsAssumption == IsFiniteSet(Agents)

ASSUME EngineAssumptions == D!Assumption /\ H!Assumption

Init == D!Init /\ H!Init /\ outbox = [a \in Agents |-> None]

Ingest(a, e) ==
  /\ outbox[a] = None /\ D!Analyze(a, e)
  /\ UNCHANGED <<hvars, outbox>>

Store(a) ==
  /\ D!Store(a)
  /\ outbox' = [outbox EXCEPT ![a] = call[a]]
  /\ UNCHANGED hvars

Ship(a) ==
  /\ outbox[a] # None /\ H!Ingest(Shipped[outbox[a]])
  /\ outbox' = [outbox EXCEPT ![a] = None]
  /\ UNCHANGED evars

Drain == D!Drain /\ UNCHANGED <<hvars, outbox>>

Hunt(x) == H!Continue(x) /\ UNCHANGED <<evars, outbox>>

Next ==
  \/ \E a \in Agents : Store(a) \/ Ship(a) \/ \E e \in Telemetry : Ingest(a, e)
  \/ Drain
  \/ /\ \/ \E r \in Others : H!Ingest(r)
        \/ \E h \in Hunts : H!CreateHunt(h) \/ \E x \in Hunters : H!Begin(x, h)
     /\ UNCHANGED <<evars, outbox>>
  \/ \E x \in Hunters : Hunt(x)

Spec == Init /\ [][Next]_vars

-----------------------------------------------------------------------------
TypeOK == D!TypeOK /\ H!TypeOK /\ outbox \in [Agents -> Telemetry \cup {None}]

(* See Hunting: a timeline is what the finished runs had to find.          *)
ResultsExact == H!ResultsExact

(* See Hunting: the status of a hunt tells whether somebody runs it.       *)
StatusHonest == H!StatusHonest

(* See Edr: a drain neither loses nor repeats a finding, and an event is   *)
(* announced before it is stored.  What a hunt can find was stored before, *)
(* so that the consumer of the announcements knows of its finding already. *)
FindingsDelivered ==
  /\ TypeOK
  /\ D!Delivered
  /\ \A e \in Telemetry :
       Cardinality({n \in 1..Len(lake) : lake[n] = Shipped[e]})
         + Cardinality({a \in Agents : outbox[a] = e}) = stored[e]
=============================================================================
