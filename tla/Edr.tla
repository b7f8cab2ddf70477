-------------------------------- MODULE Edr --------------------------------
(***************************************************************************)
(* The endpoint engine (edr/src/engine.rs) and the collecting emitter it   *)
(* reports to (xdr-core/src/emitter.rs).  The analysis of an event looks at*)
(* nothing else, announces at most one finding and comes before the event  *)
(* is stored; a consumer drains what was announced at any time.            *)
(***************************************************************************)
EXTENDS Naturals, Sequences, FiniteSets

CONSTANTS
  Agents,     \* the threads that ingest telemetry
  Telemetry,  \* the events they may ingest, see TelemetryType
  None,       \* no finding, no event
  MaxCopies   \* bound: how often one event is ingested

Families == {"process", "file", "registry", "service", "driver"}

(* What the analysis reads off an event.                                   *)
Facts == {"no_parent", "named_system", "suspicious_command", "malicious_hash",
          "set", "run_key", "create", "start", "load"}

(* What is assumed of the constants; a module that uses this one assumes it*)
Assumption ==
  /\ \A e \in Telemetry : e.family \in Families /\ e.facts \subseteq Facts
  /\ None \notin Telemetry
  /\ MaxCopies \in Nat

VARIABLES
  stored,   \* event -> how often it is in the vector of its family
  pending,  \* what the emitter holds
  drained,  \* what the consumer has taken out, batch after batch
  call      \* agent -> the event it has analysed and is about to store

Init ==
  /\ stored = [e \in Telemetry |-> 0]
  /\ pending = <<>> /\ drained = <<>>
  /\ call = [a \in Agents |-> None]

-----------------------------------------------------------------------------
SuspiciousProcess(e) == "suspicious_command" \in e.facts
OrphanProcess(e) == "no_parent" \in e.facts /\ "named_system" \notin e.facts
RunKeySet(e) == {"set", "run_key"} \subseteq e.facts

(* The one finding an event gives rise to; a command line counts before a  *)
(* missing parent.                                                         *)
Finding(e) ==
  CASE e.family = "process" /\ SuspiciousProcess(e)          -> "suspicious_command_line"
    [] e.family = "process" /\ ~SuspiciousProcess(e) /\ OrphanProcess(e) -> "orphan_process"
    [] e.family = "file" /\ "malicious_hash" \in e.facts     -> "malicious_execution"
    [] e.family = "registry" /\ RunKeySet(e)                 -> "registry_run_key"
    [] e.family = "service" /\ e.facts \cap {"create", "start"} # {} -> "service"
    [] e.family = "driver" /\ "load" \in e.facts             -> "driver"
    [] OTHER                                                 -> None

InFlight(e) == Cardinality({a \in Agents : call[a] = e})

(* ingest_process and its four siblings: the analysis, with its emission.  *)
Analyze(a, e) ==
  /\ call[a] = None /\ stored[e] + InFlight(e) < MaxCopies
  /\ pending' = IF Finding(e) = None THEN pending
                ELSE Append(pending, [kind |-> Finding(e), of |-> e])
  /\ call' = [call EXCEPT ![a] = e]
  /\ UNCHANGED <<stored, drained>>

(* ... and the push under the write lock.                                  *)
Store(a) ==
  /\ call[a] # None
  /\ stored' = [stored EXCEPT ![call[a]] = @ + 1]
  /\ call' = [call EXCEPT ![a] = None]
  /\ UNCHANGED <<pending, drained>>

(* Mutant of Drain: the list is copied out and left where it is.           *)
DrainCopy ==
  /\ pending # <<>>
  /\ drained' = drained \o pending
  /\ UNCHANGED <<stored, pending, call>>

(* drain_events: everything there is, at once.                             *)
Drain ==
  /\ pending # <<>>
  /\ drained' = drained \o pending /\ pending' = <<>>
  /\ UNCHANGED <<stored, call>>

-----------------------------------------------------------------------------
Announcement == [kind : {Finding(e) : e \in Telemetry} \ {None}, of : Telemetry]

TypeOK ==
  /\ stored \in [Telemetry -> Nat]
  /\ pending \in Seq(Announcement) /\ drained \in Seq(Announcement)
  /\ call \in [Agents -> Telemetry \cup {None}]

(* How often the consumer has been told of a finding about e, or will be by*)
(* the next drain.                                                         *)
Told(e) == LET all == drained \o pending
           IN  Cardinality({n \in 1..Len(all) : all[n].of = e})

(* Whoever ingests and drains at the same time: an event with a finding is *)
(* announced once each time it is stored, and before it is stored; one     *)
(* without is never announced; and a drain neither loses nor repeats an    *)
(* announcement.                                                           *)
Delivered ==
  \A e \in Telemetry :
    Told(e) = IF Finding(e) = None THEN 0 ELSE stored[e] + InFlight(e)
=============================================================================
