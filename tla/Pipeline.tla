------------------------------ MODULE Pipeline ------------------------------
(***************************************************************************)
(* The platform at work, from a trigger to a summary: what the caller of   *)
(* tests/tests/detection_to_incident.rs does with the engines that         *)
(* sdk/src/platform.rs puts side by side, here with several callers.       *)
(* A deliverer takes a trigger through the incident manager, the analytics *)
(* and the MITRE engine; a trigger may be delivered again.  Meanwhile      *)
(* analysts move the incidents on, and may record what they were returned. *)
(***************************************************************************)
EXTENDS Naturals, Sequences, FiniteSets, Bags, Functions

CONSTANTS
  Deliverers, Analysts,  \* the threads
  Ids,                   \* the uuids of incidents
  None,
  TenantOf, Critical,    \* of triggers, see Analytics
  Techniques, Claimed,   \* see Mitre
  MaxDeliveries,         \* bound: how often one trigger is delivered
  MaxMoves,              \* bound: transitions logged after which none begins
  MaxMappings            \* bound, see Mitre

ASSUME SameTriggers  == DOMAIN TenantOf = DOMAIN Claimed
ASSUME RolesDistinct == Deliverers \cap Analysts = {}

(* Threads, uuids of incidents and ids of detections are finitely many.    *)
ASSUME Finitely ==
  /\ IsFiniteSet(Deliverers) /\ IsFiniteSet(Analysts)
  /\ IsFiniteSet(Ids) /\ IsFiniteSet(DOMAIN TenantOf)

Triggers == DOMAIN TenantOf
Threads  == Deliverers \cup Analysts

VARIABLES
  status, resolvedAt, timeline, artifacts, events, call,  \* of Incidents
  mappings, hits, announced, mcall,                       \* of Mitre
  copies, detections, techniques,                         \* of Analytics
  origin,  \* incident -> detection_id: the trigger it was created for
  job      \* thread -> the engine it is to call next or is in, the incident
           \* it was returned and its status, the techniques left to record

I == INSTANCE Incidents WITH MaxArtifacts <- 0
M == INSTANCE Mitre WITH Callers <- Deliverers
A == INSTANCE Analytics

ASSUME EngineAssumptions ==
  None \notin Ids \cup I!Statuses /\ M!Assumption /\ A!Assumption
ASSUME BoundAssumption   == MaxDeliveries \in Nat /\ MaxMoves \in Nat

ivars == <<status, resolvedAt, timeline, artifacts, events, call>>
mvars == <<mappings, hits, announced, mcall>>
avars == <<copies, detections, techniques>>
vars  == <<ivars, mvars, avars, origin, job>>

Idle == [pc |-> "idle", id |-> None, status |-> None, found |-> <<>>]

Init ==
  /\ I!Init /\ M!Init /\ A!Init
  /\ origin = [i \in Ids |-> None]
  /\ job = [t \in Threads |-> Idle]

At(t, pc) == job[t].pc = pc
Goto(t, pc) == job' = [job EXCEPT ![t].pc = pc]
DetectionOf(t) == origin[job[t].id]
CreatedFor(d) == {i \in Ids : origin[i] = d}
Moves(i) == {n \in 1..Len(timeline[i]) : timeline[i][n] # "Open"}
Moved == SumFunction([i \in Ids |-> Cardinality(Moves(i))])

-----------------------------------------------------------------------------
(***************************************************************************)
(* The incident manager.                                                   *)
(***************************************************************************)
Deliver(t, d, i) ==
  /\ At(t, "idle") /\ Cardinality(CreatedFor(d)) < MaxDeliveries
  /\ I!Create(t, i)
  /\ origin' = [origin EXCEPT ![i] = d]
  /\ job' = [job EXCEPT ![t] = [pc |-> "incidents", id |-> i, status |-> "Open", found |-> <<>>]]
  /\ UNCHANGED <<mvars, avars>>

Move(t, i, to) ==
  /\ At(t, "idle") /\ Moved < MaxMoves
  /\ I!Transition(t, i, to)
  /\ job' = [job EXCEPT ![t] = [pc |-> "incidents", id |-> i, status |-> to, found |-> <<>>]]
  /\ UNCHANGED <<mvars, avars, origin>>

InIncidents(t) ==
  /\ I!CreatePush(t) \/ I!TransitionRecord(t) \/ I!Emit(t)
  /\ UNCHANGED <<mvars, avars, origin, job>>

(* The call has returned its clone of the incident.                        *)
Returned(t) == At(t, "incidents") /\ call[t].pc = "idle"

-----------------------------------------------------------------------------
(***************************************************************************)
(* The analytics.                                                          *)
(***************************************************************************)
RecordIncident(t) ==
  /\ Returned(t)
  /\ A!RecordIncident(job[t].id, job[t].status, DetectionOf(t))
  /\ IF t \in Deliverers THEN Goto(t, "detection") ELSE job' = [job EXCEPT ![t] = Idle]
  /\ UNCHANGED <<ivars, mvars, origin>>

(* The analytics are not told of a transition unless its caller does it.   *)
KeepToOneself(t) ==
  /\ t \in Analysts /\ Returned(t)
  /\ job' = [job EXCEPT ![t] = Idle]
  /\ UNCHANGED <<ivars, mvars, avars, origin>>

RecordDetection(t) ==
  /\ At(t, "detection")
  /\ A!RecordDetection(DetectionOf(t))
  /\ Goto(t, "mitre")
  /\ UNCHANGED <<ivars, mvars, origin>>

RecordTechnique(t) ==
  /\ At(t, "techniques") /\ job[t].found # <<>>
  /\ A!RecordTechnique(Head(job[t].found))
  /\ job' = [job EXCEPT ![t].found = Tail(@)]
  /\ UNCHANGED <<ivars, mvars, origin>>

Finish(t) ==
  /\ At(t, "techniques") /\ job[t].found = <<>>
  /\ job' = [job EXCEPT ![t] = Idle]
  /\ UNCHANGED <<ivars, mvars, avars, origin>>

-----------------------------------------------------------------------------
(***************************************************************************)
(* The MITRE engine.                                                       *)
(***************************************************************************)
CallMitre(t) ==
  /\ At(t, "mitre")
  /\ M!Trigger(t, DetectionOf(t))
  /\ UNCHANGED <<ivars, avars, origin, job>>

InMitre(t) == M!Work(t) /\ UNCHANGED <<ivars, avars, origin, job>>

TakeTechniques(t) ==
  /\ M!Return(t)
  /\ job' = [job EXCEPT ![t].pc = "techniques", ![t].found = mcall[t].found]
  /\ UNCHANGED <<ivars, avars, origin>>

MapDetection(q) == M!MapDetection(q) /\ UNCHANGED <<ivars, avars, origin, job>>

-----------------------------------------------------------------------------
Next ==
  \/ \E t \in Deliverers : \/ \E d \in Triggers, i \in Ids : Deliver(t, d, i)
                           \/ RecordDetection(t) \/ RecordTechnique(t) \/ Finish(t)
                           \/ CallMitre(t) \/ InMitre(t) \/ TakeTechniques(t)
  \/ \E t \in Analysts : \/ \E i \in Ids, to \in I!Statuses : Move(t, i, to)
                         \/ KeepToOneself(t)
  \/ \E t \in Threads : InIncidents(t) \/ RecordIncident(t)
  \/ \E q \in Techniques : MapDetection(q)

Spec == Init /\ [][Next]_vars

-----------------------------------------------------------------------------
(***************************************************************************)
(* Properties.                                                             *)
(***************************************************************************)
TypeOK ==
  /\ I!TypeOK /\ M!TypeOK
  /\ \A c \in DOMAIN copies : c.id \in Ids /\ c.status \in I!Statuses /\ c.detection \in Triggers
  /\ DOMAIN detections \subseteq Triggers /\ DOMAIN techniques \subseteq Techniques
  /\ origin \in [Ids -> Triggers \cup {None}]
  /\ job \in [Threads -> [pc : {"idle", "incidents", "detection", "mitre", "techniques"},
                          id : Ids \cup {None}, status : I!Statuses \cup {None},
                          found : Seq(Techniques)]]

Tenants == {TenantOf[d] : d \in Triggers}
Busy(pc, d) == {t \in Deliverers : At(t, pc) /\ DetectionOf(t) = d}
Claims(d) == {n \in 1..Len(Claimed[d]) : Claimed[d][n] \in Techniques}
Times(d) == IF d \in DOMAIN detections THEN detections[d] ELSE 0
Found == [t \in Deliverers |-> Len(mcall[t].found)]

(* The bookkeeping of three engines agrees at every moment, but for what   *)
(* the threads have in hand: each delivery of a trigger, a repeated one    *)
(* too, makes one incident, one recorded incident, one recorded detection  *)
(* and one technique detection for each claim that is known, all of them   *)
(* announced; a tenant's detections are all found through its incidents,   *)
(* because these are recorded first (detection_to_incident.rs, summarize). *)
SummaryAddsUp ==
  /\ TypeOK
  /\ \A d \in Triggers :
       LET recorded == Cardinality({i \in Ids : A!Copy(i, "Open", d) \in DOMAIN copies})
       IN  /\ recorded + Cardinality(Busy("incidents", d)) = Cardinality(CreatedFor(d))
           /\ Times(d) + Cardinality(Busy("detection", d)) = recorded
           /\ LET started == Times(d)
                               - Cardinality({t \in Busy("mitre", d) : mcall[t].trigger = None})
                  within  == {t \in Busy("mitre", d) : mcall[t].trigger # None}
              IN  SumFunctionOnSet(announced, {d} \X Techniques)
                    = (started - Cardinality(within)) * Cardinality(Claims(d))
                        + SumFunctionOnSet(Found, within)
  /\ \A p \in DOMAIN hits : hits[p] =
       announced[p] + Cardinality({t \in Deliverers : /\ mcall[t].emit
                                                      /\ p = M!Claim(t)})
  /\ A!TechniquesDetected
       + SumFunction([t \in Deliverers |-> Len(job[t].found) + Found[t]])
     = SumFunction(announced)
  /\ \A tn \in Tenants :
       A!TotalDetections(tn) =
         SumFunctionOnSet(detections, {d \in DOMAIN detections : TenantOf[d] = tn})
  /\ M!Coverage <= 100

(* The copies are stale, but true: each shows a status its incident has    *)
(* really been given, no status twice, so that a tenant's total is inflated*)
(* by later copies only; and however stale, they never hide an incident    *)
(* that is still open: a summary counts at least those (record_incident).  *)
CopiesHonest ==
  /\ \A c \in DOMAIN copies : /\ copies[c] = 1
                              /\ c.status \in I!AuditedOf(c.id) /\ c.detection = origin[c.id]
  /\ \A tn \in Tenants :
       LET of   == {i \in Ids : \E c \in A!TenantCopies(tn) : c.id = i}
           open == {i \in Ids : /\ status[i] \in {"Open", "Investigating"}
                                /\ origin[i] # None /\ TenantOf[origin[i]] = tn
                                /\ ~\E t \in Deliverers : At(t, "incidents") /\ job[t].id = i}
       IN  Cardinality(open) <= A!OpenIncidents(tn) /\ Cardinality(of) <= A!TotalIncidents(tn)

(* The threat score of a tenant never comes down, whatever its analysts    *)
(* contain, resolve or close and record: every copy counts for good        *)
(* (record_incident, compute_threat_score).                                *)
ScoreNeverFalls == [][\A tn \in Tenants : A!ThreatScore(tn)' >= A!ThreatScore(tn)]_vars
=============================================================================
