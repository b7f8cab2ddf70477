----------------------------- MODULE Incidents -----------------------------
(***************************************************************************)
(* The incident manager (incidents/src/engine.rs).  One value shared by    *)
(* every thread; each operation takes the write lock several times, so an  *)
(* operation is a sequence of steps, one per critical section or emission, *)
(* and the steps of different threads interleave.                          *)
(***************************************************************************)
EXTENDS Naturals, Sequences

CONSTANTS
  Threads,      \* the threads that call the manager
  Ids,          \* the uuids create_incident draws, each at most once
  None,         \* "not there": no incident, no time stamp, no argument
  MaxArtifacts  \* bound: artifacts per incident after which none is added

Statuses == {"Open", "Investigating", "Contained", "Resolved", "Closed"}

ASSUME NoneAssumption == None \notin Ids /\ None \notin Statuses
ASSUME BoundAssumption == MaxArtifacts \in Nat

VARIABLES
  status,      \* incidents: id -> status, None before the push into the vector
  resolvedAt,  \* id -> resolved_at, as the status whose transition stamped it
  timeline,    \* id -> the statuses its entries of the log name, in order;
               \* the entry "created" is the one for "Open"
  artifacts,   \* id -> number of artifacts filed for it
  events,      \* id -> the notices about it the emitter received, in order
  call         \* thread -> the operation it is in, and where

vars == <<status, resolvedAt, timeline, artifacts, events, call>>

Kinds == {"IncidentCreated", "IncidentEscalated", "IncidentResolved"}
Notice == [kind : Kinds, status : Statuses]
PCs   == {"idle", "push", "record", "notify", "attach"}
Idle  == [pc |-> "idle", id |-> None, to |-> None]

Init ==
  /\ status     = [i \in Ids |-> None]
  /\ resolvedAt = [i \in Ids |-> None]
  /\ timeline   = [i \in Ids |-> <<>>]
  /\ artifacts  = [i \in Ids |-> 0]
  /\ events     = [i \in Ids |-> <<>>]
  /\ call       = [t \in Threads |-> Idle]

At(t, pc) == call[t].pc = pc
Goto(t, pc) == call' = [call EXCEPT ![t].pc = pc]
Return(t) == call' = [call EXCEPT ![t] = Idle]

(* record_timeline: one entry, under a write lock of its own.              *)
RecordTimeline(i, s) == timeline' = [timeline EXCEPT ![i] = Append(@, s)]

(* A uuid is fresh: no incident has it and no call is creating one.        *)
Fresh(i) == status[i] = None /\ \A t \in Threads : call[t].id # i

(***************************************************************************)
(* create_incident and on_detection_triggered: log, store, announce.       *)
(***************************************************************************)
Create(t, i) ==
  /\ At(t, "idle") /\ Fresh(i)
  /\ RecordTimeline(i, "Open")
  /\ call' = [call EXCEPT ![t] = [pc |-> "push", id |-> i, to |-> "Open"]]
  /\ UNCHANGED <<status, resolvedAt, artifacts, events>>

(* Mutant of CreatePush: return without announcing the incident.           *)
CreatePushSilently(t) ==
  /\ At(t, "push")
  /\ status' = [status EXCEPT ![call[t].id] = "Open"]
  /\ Return(t)
  /\ UNCHANGED <<resolvedAt, timeline, artifacts, events>>

CreatePush(t) ==
  /\ At(t, "push")
  /\ status' = [status EXCEPT ![call[t].id] = "Open"]
  /\ Goto(t, "notify")
  /\ UNCHANGED <<resolvedAt, timeline, artifacts, events>>

(***************************************************************************)
(* transition: validate and store under one write lock, then log, then     *)
(* announce.  An unknown id and an illegal edge return an error unchanged. *)
(***************************************************************************)
Edges == {<<"Open", "Investigating">>, <<"Investigating", "Contained">>,
          <<"Contained", "Resolved">>, <<"Resolved", "Closed">>,
          <<"Open", "Closed">>}

(* Mutants of ValidTransition: a repeated request is accepted as a no-op;  *)
(* an incident may be contained without having been investigated.          *)
ValidOrSame(from, to) == from = to \/ <<from, to>> \in Edges
ValidOrSkip(from, to) == <<from, to>> \in Edges \cup {<<"Open", "Contained">>}

ValidTransition(from, to) == <<from, to>> \in Edges

Stamped(i, to) == IF to \in {"Resolved", "Closed"} THEN to ELSE resolvedAt[i]

(* Mutant of Transition: the change is announced but never logged.         *)
TransitionUnlogged(t, i, to) ==
  /\ At(t, "idle")
  /\ status[i] # None
  /\ ValidTransition(status[i], to)
  /\ status' = [status EXCEPT ![i] = to]
  /\ resolvedAt' = [resolvedAt EXCEPT ![i] = Stamped(i, to)]
  /\ call' = [call EXCEPT ![t] = [pc |-> "notify", id |-> i, to |-> to]]
  /\ UNCHANGED <<timeline, artifacts, events>>

Transition(t, i, to) ==
  /\ At(t, "idle")
  /\ status[i] # None
  /\ ValidTransition(status[i], to)
  /\ status' = [status EXCEPT ![i] = to]
  /\ resolvedAt' = [resolvedAt EXCEPT ![i] = Stamped(i, to)]
  /\ call' = [call EXCEPT ![t] = [pc |-> "record", id |-> i, to |-> to]]
  /\ UNCHANGED <<timeline, artifacts, events>>

(* Mutant of TransitionRecord: return after logging, announcing nothing.   *)
TransitionRecordSilently(t) ==
  /\ At(t, "record")
  /\ RecordTimeline(call[t].id, call[t].to)
  /\ Return(t)
  /\ UNCHANGED <<status, resolvedAt, artifacts, events>>

TransitionRecord(t) ==
  /\ At(t, "record")
  /\ RecordTimeline(call[t].id, call[t].to)
  /\ Goto(t, "notify")
  /\ UNCHANGED <<status, resolvedAt, artifacts, events>>

(* Mutant of EventKind: an event kind the emitter does not know.           *)
EventKindPerStatus(s) ==
  CASE s = "Open" -> "IncidentCreated"
    [] s = "Resolved" -> "IncidentResolved"
    [] s = "Closed" -> "IncidentClosed"
    [] OTHER -> "IncidentEscalated"

(* The event carries the clone taken under the lock: the status the call   *)
(* set, which other threads may have moved on from by now.                 *)
EventKind(s) ==
  CASE s = "Open" -> "IncidentCreated"
    [] s \in {"Resolved", "Closed"} -> "IncidentResolved"
    [] OTHER -> "IncidentEscalated"

Emit(t) ==
  /\ At(t, "notify")
  /\ events' = [events EXCEPT ![call[t].id] =
       Append(@, [kind |-> EventKind(call[t].to), status |-> call[t].to])]
  /\ Return(t)
  /\ UNCHANGED <<status, resolvedAt, timeline, artifacts>>

(***************************************************************************)
(* add_artifact: look the incident up under a read lock, release it, then  *)
(* file the artifact under a write lock.                                   *)
(***************************************************************************)
(* Mutant of AddArtifact: the look-up is dropped.                          *)
AddArtifactUnchecked(t, i) ==
  /\ At(t, "idle")
  /\ artifacts[i] < MaxArtifacts
  /\ call' = [call EXCEPT ![t] = [pc |-> "attach", id |-> i, to |-> None]]
  /\ UNCHANGED <<status, resolvedAt, timeline, artifacts, events>>

AddArtifact(t, i) ==
  /\ At(t, "idle")
  /\ status[i] # None
  /\ artifacts[i] < MaxArtifacts
  /\ call' = [call EXCEPT ![t] = [pc |-> "attach", id |-> i, to |-> None]]
  /\ UNCHANGED <<status, resolvedAt, timeline, artifacts, events>>

Attach(t) ==
  /\ At(t, "attach")
  /\ artifacts' = [artifacts EXCEPT ![call[t].id] = @ + 1]
  /\ Return(t)
  /\ UNCHANGED <<status, resolvedAt, timeline, events>>

Continue(t) ==
  CreatePush(t) \/ TransitionRecord(t) \/ Emit(t) \/ Attach(t)

Next ==
  \E t \in Threads :
    \/ \E i \in Ids : Create(t, i) \/ AddArtifact(t, i)
    \/ \E i \in Ids, to \in Statuses : Transition(t, i, to)
    \/ Continue(t)

Spec == Init /\ [][Next]_vars

(* A call that has begun goes on: its thread is scheduled and no step waits*)
(* for anything but a lock that is held for a few instructions.  Nobody is *)
(* obliged to begin a call.                                                *)
FairSpec == Spec /\ \A t \in Threads : WF_vars(Continue(t))

-----------------------------------------------------------------------------
(***************************************************************************)
(* Properties.                                                             *)
(***************************************************************************)

TypeOK ==
  /\ status     \in [Ids -> Statuses \cup {None}]
  /\ resolvedAt \in [Ids -> {"Resolved", "Closed", None}]
  /\ timeline   \in [Ids -> Seq(Statuses)]
  /\ artifacts  \in [Ids -> Nat]
  /\ events     \in [Ids -> Seq(Notice)]
  /\ call \in [Threads -> [pc : PCs, id : Ids \cup {None},
                           to : Statuses \cup {None}]]

(* The statuses of i the log shows, the ones announced, and the ones some  *)
(* thread has set and is about to log.                                     *)
AuditedOf(i)   == {timeline[i][n] : n \in 1..Len(timeline[i])}
AnnouncedOf(i) == {events[i][n].status : n \in 1..Len(events[i])}
OwedOf(i)      == {s \in Statuses :
                    \E t \in Threads : At(t, "record") /\ call[t].id = i /\ call[t].to = s}
EnteredOf(i)   == AuditedOf(i) \cup OwedOf(i)

(* The sets of statuses an incident may have gone through to be in s.      *)
LegalTrails(s) ==
  CASE s = None            -> {{}, {"Open"}}
    [] s = "Open"          -> {{"Open"}}
    [] s = "Investigating" -> {{"Open", "Investigating"}}
    [] s = "Contained"     -> {{"Open", "Investigating", "Contained"}}
    [] s = "Resolved"      -> {Statuses \ {"Closed"}}
    [] s = "Closed"        -> {Statuses, {"Open", "Closed"}}

(* Whatever the interleaving, the audit log of an incident together with   *)
(* the entries still in flight is exactly one legal walk of the lifecycle  *)
(* that ends in its present status: no change of status goes unlogged, and *)
(* nothing is logged that did not happen (transition, create_incident).    *)
AuditTrail == \A i \in Ids : EnteredOf(i) \in LegalTrails(status[i])

(* Two threads that race to make the same change cannot both succeed: no   *)
(* change of status is logged twice or announced twice.                    *)
AuditOnce ==
  \A i \in Ids :
    /\ \A m, n \in 1..Len(timeline[i]) : timeline[i][m] = timeline[i][n] => m = n
    /\ \A m, n \in 1..Len(events[i]) :
         events[i][m].status = events[i][n].status => m = n

(* The log of an incident starts with its creation, because create_incident*)
(* logs before it stores: no thread can move an incident that is unlogged. *)
CreatedFirst ==
  \A i \in Ids : timeline[i] # <<>> => timeline[i][1] = "Open"

(* Announcements follow the log: what has been announced was logged, and   *)
(* what is logged has been announced or will be by a thread on its way.    *)
AnnouncedAfterAudit ==
  \A i \in Ids : \A s \in Statuses :
    s \in AuditedOf(i) <=>
      \/ s \in AnnouncedOf(i)
      \/ \E t \in Threads : call[t].pc \in {"push", "notify"}
                          /\ call[t].id = i /\ call[t].to = s

(* resolved_at is set exactly while the incident is resolved or closed;    *)
(* closing a resolved incident stamps it again, so from then on it is the  *)
(* time of the closing (and the analytics measure MTTR up to it).          *)
ResolvedStamped ==
  \A i \in Ids :
    resolvedAt[i] = IF status[i] \in {"Resolved", "Closed"} THEN status[i] ELSE None

(* Artifacts, events and log entries belong to an incident that is in the  *)
(* vector, the log entry of one being created excepted: the unlocked gap   *)
(* in add_artifact and the early log entry of create_incident do no harm.  *)
NoOrphans ==
  \A i \in Ids :
    /\ artifacts[i] > 0 \/ events[i] # <<>> => status[i] # None
    /\ timeline[i] # <<>> =>
         status[i] # None \/ \E t \in Threads : At(t, "push") /\ call[t].id = i

(* Every status an incident reaches is eventually announced downstream.    *)
EveryChangeAnnounced ==
  \A i \in Ids, s \in Statuses : status[i] = s ~> s \in AnnouncedOf(i)

(* The manager implements the abstract audited store.                      *)
Audited == INSTANCE AuditedLifecycle WITH
             Records <- Ids, Initial <- "Open",
             entered <- [i \in Ids |-> EnteredOf(i)],
             audited <- [i \in Ids |-> AuditedOf(i)],
             announced <- [i \in Ids |-> AnnouncedOf(i)]
ImplementsAudited == Audited!ASpec
=============================================================================
