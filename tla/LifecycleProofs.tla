-------------------------- MODULE LifecycleProofs --------------------------
(***************************************************************************)
(* Theorems about the components that take a record through its life: the  *)
(* incident manager, for any sets of threads and uuids, case management,   *)
(* for any analysts and any cases, and the response engine, for any finite *)
(* set of tasks and any requests and events of other engines.              *)
(***************************************************************************)
EXTENDS Incidents, Casework, Countermeasures, SiftingLemmas

(* What each step preserves.  A thread between two critical sections knows *)
(* something of the incident it works for that no other thread can change. *)
CallAgrees(t) ==
  /\ At(t, "idle") => call[t] = Idle
  /\ ~At(t, "idle") => call[t].id \in Ids
  /\ call[t].pc \in {"push", "record", "notify"} => call[t].to \in Statuses
  /\ At(t, "push") => /\ call[t].to = "Open"
                      /\ status[call[t].id] = None
                      /\ timeline[call[t].id] = <<"Open">>
  /\ call[t].pc \in {"record", "notify", "attach"} => status[call[t].id] # None
  /\ At(t, "record") => call[t].to \notin AuditedOf(call[t].id)
  /\ At(t, "notify") => /\ call[t].to \in AuditedOf(call[t].id)
                        /\ call[t].to \notin AnnouncedOf(call[t].id)
CallsAgree == \A t \in Threads : CallAgrees(t)

(* No two threads are on their way with the same change of status.         *)
OneOwner ==
  \A t, u \in Threads :
    /\ t # u
    /\ call[t].pc \in {"push", "record", "notify"}
    /\ call[u].pc \in {"push", "record", "notify"}
    /\ call[t].id = call[u].id
    => call[t].to # call[u].to

(* Nothing is known of an incident that is not stored, save the log entry  *)
(* its creator made; and one that is stored has been logged.               *)
KnownOf(i) ==
  /\ status[i] = None => /\ events[i] = <<>> /\ artifacts[i] = 0
                         /\ \/ timeline[i] = <<>>
                            \/ \E t \in Threads : At(t, "push") /\ call[t].id = i
  /\ status[i] # None => timeline[i] # <<>>
Known == \A i \in Ids : KnownOf(i)

(* The three invariants that speak of every incident, for one of them.     *)
TrailOf(i) == EnteredOf(i) \in LegalTrails(status[i])
AnnouncementOf(i, s) ==
  s \in AuditedOf(i) <=>
    \/ s \in AnnouncedOf(i)
    \/ \E t \in Threads : call[t].pc \in {"push", "notify"} /\ call[t].id = i /\ call[t].to = s

-----------------------------------------------------------------------------
(* The set of calls a thread may be in.                                    *)
Calls == [pc : PCs, id : Ids \cup {None}, to : Statuses \cup {None}]

(* What Append does to a sequence.                                         *)
LEMMA AppendFacts ==
  ASSUME NEW S, NEW q \in Seq(S), NEW e \in S
  PROVE  /\ Append(q, e) \in Seq(S)
         /\ Len(q) \in Nat /\ Len(Append(q, e)) = Len(q) + 1
         /\ Append(q, e)[Len(q) + 1] = e
         /\ \A n \in 1..Len(q) : Append(q, e)[n] = q[n]
         /\ Append(q, e) # <<>>
  OBVIOUS

(* The initial state and every step preserve the types.                    *)
LEMMA InitType == Init => TypeOK
  BY DEF Init, TypeOK, Idle, PCs

(* The event of a status is of a kind the emitter knows.                   *)
LEMMA EventType ==
  ASSUME NEW s \in Statuses
  PROVE  [kind |-> EventKind(s), status |-> s] \in Notice
  BY DEF EventKind, Notice, Kinds

(* An emission needs to know that the thread has a status to announce.     *)
HasStatus ==
  \A t \in Threads : call[t].pc \in {"push", "record", "notify", "attach"} =>
    call[t].id \in Ids /\ (~At(t, "attach") => call[t].to \in Statuses)

(* TypeOK alone is not inductive: the step that logs a status relies on the*)
(* thread having one.                                                      *)
LEMMA TypeStep == TypeOK /\ HasStatus /\ [Next]_vars => TypeOK' /\ HasStatus'
<1> SUFFICES ASSUME TypeOK, HasStatus, [Next]_vars PROVE TypeOK' /\ HasStatus'
  OBVIOUS
<1>. USE NoneAssumption, BoundAssumption
<1>1. ASSUME NEW t \in Threads, NEW i \in Ids, Create(t, i) PROVE TypeOK' /\ HasStatus'
  BY <1>1 DEF Create, RecordTimeline, TypeOK, HasStatus, At, PCs, Statuses
<1>2. ASSUME NEW t \in Threads, CreatePush(t) PROVE TypeOK' /\ HasStatus'
  BY <1>2 DEF CreatePush, Goto, TypeOK, HasStatus, At, PCs, Statuses
<1>3. ASSUME NEW t \in Threads, NEW i \in Ids, NEW to \in Statuses, Transition(t, i, to)
      PROVE TypeOK' /\ HasStatus'
  BY <1>3 DEF Transition, Stamped, TypeOK, HasStatus, At, PCs, Statuses
<1>4. ASSUME NEW t \in Threads, TransitionRecord(t) PROVE TypeOK' /\ HasStatus'
  <2>1. call[t].id \in Ids /\ call[t].to \in Statuses
    BY <1>4 DEF TransitionRecord, At, HasStatus
  <2>2. timeline' \in [Ids -> Seq(Statuses)]
    BY <1>4, <2>1, AppendFacts DEF TransitionRecord, RecordTimeline, TypeOK
  <2>3. call' \in [Threads -> Calls] /\ HasStatus'
    BY <1>4, <2>1 DEF TransitionRecord, Goto, TypeOK, HasStatus, At, PCs, Calls
  <2>. QED BY <1>4, <2>2, <2>3 DEF TransitionRecord, TypeOK, Calls
<1>5. ASSUME NEW t \in Threads, Emit(t) PROVE TypeOK' /\ HasStatus'
  <2>1. [kind |-> EventKind(call[t].to), status |-> call[t].to] \in Notice
    BY <1>5, EventType DEF Emit, At, HasStatus
  <2>. QED BY <1>5, <2>1 DEF Emit, Return, Idle, TypeOK, HasStatus, At, PCs
<1>6. ASSUME NEW t \in Threads, NEW i \in Ids, AddArtifact(t, i) PROVE TypeOK' /\ HasStatus'
  BY <1>6 DEF AddArtifact, TypeOK, HasStatus, At, PCs
<1>7. ASSUME NEW t \in Threads, Attach(t) PROVE TypeOK' /\ HasStatus'
  BY <1>7 DEF Attach, Return, Idle, TypeOK, HasStatus, At, PCs
<1>8. CASE UNCHANGED vars
  BY <1>8 DEF vars, TypeOK, HasStatus, At
<1>. QED
  BY <1>1, <1>2, <1>3, <1>4, <1>5, <1>6, <1>7, <1>8 DEF Next, Continue

(* The state of the manager is well typed, whatever its threads do.        *)
THEOREM TypeCorrect == Spec => []TypeOK
<1>1. Init => TypeOK /\ HasStatus
  BY InitType DEF Init, HasStatus, Idle, At
<1>2. TypeOK /\ HasStatus /\ [Next]_vars => TypeOK' /\ HasStatus'
  BY TypeStep
<1>. QED BY <1>1, <1>2, PTL DEF Spec

-----------------------------------------------------------------------------
(* The elements of a sequence, after Append.                               *)
LEMMA ElementsAppend ==
  ASSUME NEW S, NEW q \in Seq(S), NEW e \in S
  PROVE  {Append(q, e)[n] : n \in 1..Len(Append(q, e))} = {q[n] : n \in 1..Len(q)} \cup {e}
<1> DEFINE p == Append(q, e)
<1>1. /\ Len(q) \in Nat /\ Len(p) = Len(q) + 1 /\ p[Len(q) + 1] = e
      /\ \A n \in 1..Len(q) : p[n] = q[n]
  BY AppendFacts
<1> HIDE DEF p
<1>2. ASSUME NEW n \in 1..Len(p) PROVE p[n] = e \/ \E m \in 1..Len(q) : p[n] = q[m]
  <2>1. n \in 1..Len(q) \/ n = Len(q) + 1
    BY <1>1
  <2>. QED BY <1>1, <2>1
<1>3. ASSUME NEW m \in 1..Len(q) PROVE \E n \in 1..Len(p) : p[n] = q[m]
  <2>1. m \in 1..Len(p)
    BY <1>1
  <2>. QED BY <1>1, <2>1
<1>4. \E n \in 1..Len(p) : p[n] = e
  <2>1. Len(q) + 1 \in 1..Len(p)
    BY <1>1
  <2>. QED BY <1>1, <2>1
<1>5. {p[n] : n \in 1..Len(p)} = {q[n] : n \in 1..Len(q)} \cup {e}
  <2>1. ASSUME NEW x \in {p[n] : n \in 1..Len(p)} PROVE x \in {q[n] : n \in 1..Len(q)} \cup {e}
    BY <1>2, <2>1
  <2>2. ASSUME NEW x \in {q[n] : n \in 1..Len(q)} \cup {e} PROVE x \in {p[n] : n \in 1..Len(p)}
    BY <1>3, <1>4, <2>2
  <2>. QED BY <2>1, <2>2
<1>. QED BY <1>5 DEF p

(* Appending what is not there yet keeps the elements distinct.            *)
LEMMA DistinctAppend ==
  ASSUME NEW S, NEW q \in Seq(S), NEW e \in S, e \notin {q[n] : n \in 1..Len(q)},
         \A m, n \in 1..Len(q) : q[m] = q[n] => m = n
  PROVE  \A m, n \in 1..Len(Append(q, e)) : Append(q, e)[m] = Append(q, e)[n] => m = n
<1> DEFINE p == Append(q, e)
<1>1. /\ Len(q) \in Nat /\ Len(p) = Len(q) + 1 /\ p[Len(q) + 1] = e
      /\ \A n \in 1..Len(q) : p[n] = q[n]
  BY AppendFacts
<1> HIDE DEF p
<1>2. \A m \in 1..Len(p) : m \in 1..Len(q) \/ m = Len(q) + 1
  BY <1>1
<1>3. \A m \in 1..Len(q) : p[m] # e
  BY <1>1
<1>4. \A m, n \in 1..Len(p) : p[m] = p[n] => m = n
  BY <1>1, <1>2, <1>3
<1>. QED BY <1>4 DEF p

-----------------------------------------------------------------------------
(* What a log entry and an announcement add to the sets of statuses, and   *)
(* that a new one keeps the entries distinct.                              *)
LEMMA LogEntry ==
  ASSUME TypeOK, NEW i \in Ids, NEW s \in Statuses, RecordTimeline(i, s)
  PROVE  /\ AuditedOf(i)' = AuditedOf(i) \cup {s}
         /\ \A j \in Ids \ {i} : AuditedOf(j)' = AuditedOf(j)
         /\ timeline'[i] # <<>>
         /\ timeline[i] # <<>> => timeline'[i][1] = timeline[i][1]
         /\ timeline[i] = <<>> => timeline'[i] = <<s>>
<1>1. /\ timeline[i] \in Seq(Statuses) /\ timeline'[i] = Append(timeline[i], s)
      /\ \A j \in Ids \ {i} : timeline'[j] = timeline[j]
  BY DEF TypeOK, RecordTimeline
<1>2. AuditedOf(i)' = AuditedOf(i) \cup {s}
  BY <1>1, ElementsAppend DEF AuditedOf
<1>3. \A j \in Ids \ {i} : AuditedOf(j)' = AuditedOf(j)
  BY <1>1 DEF AuditedOf
<1>4. timeline'[i] # <<>>
  BY <1>1, AppendFacts
<1>5. timeline[i] # <<>> => timeline'[i][1] = timeline[i][1]
  BY <1>1
<1>6. timeline[i] = <<>> => timeline'[i] = <<s>>
  BY <1>1
<1>. QED BY <1>2, <1>3, <1>4, <1>5, <1>6

LEMMA LogDistinct ==
  ASSUME TypeOK, NEW i \in Ids, NEW s \in Statuses, RecordTimeline(i, s),
         s \notin AuditedOf(i), AuditOnce
  PROVE  \A j \in Ids : \A m, n \in 1..Len(timeline'[j]) :
           timeline'[j][m] = timeline'[j][n] => m = n
<1> TAKE j \in Ids
<1>1. timeline[i] \in Seq(Statuses) /\ timeline'[i] = Append(timeline[i], s)
  BY DEF TypeOK, RecordTimeline
<1>2. CASE j # i
  BY <1>2 DEF TypeOK, RecordTimeline, AuditOnce
<1>3. CASE j = i
  <2>1. s \notin {timeline[i][n] : n \in 1..Len(timeline[i])}
    BY DEF AuditedOf
  <2>2. \A m, n \in 1..Len(timeline[i]) : timeline[i][m] = timeline[i][n] => m = n
    BY DEF AuditOnce
  <2>3. \A m, n \in 1..Len(Append(timeline[i], s)) :
          Append(timeline[i], s)[m] = Append(timeline[i], s)[n] => m = n
    BY <1>1, <2>1, <2>2, DistinctAppend
  <2>. QED BY <1>1, <1>3, <2>3
<1>. QED BY <1>2, <1>3

LEMMA EventEntry ==
  ASSUME TypeOK, NEW i \in Ids, NEW s \in Statuses,
         events' = [events EXCEPT ![i] = Append(@, [kind |-> EventKind(s), status |-> s])]
  PROVE  /\ AnnouncedOf(i)' = AnnouncedOf(i) \cup {s}
         /\ \A j \in Ids \ {i} : AnnouncedOf(j)' = AnnouncedOf(j)
         /\ s \notin AnnouncedOf(i) /\ AuditOnce =>
              \A j \in Ids : \A m, n \in 1..Len(events'[j]) :
                events'[j][m].status = events'[j][n].status => m = n
<1> DEFINE e == [kind |-> EventKind(s), status |-> s]
<1>1. /\ e \in Notice /\ e.status = s
      /\ events[i] \in Seq(Notice) /\ events'[i] = Append(events[i], e)
      /\ \A j \in Ids \ {i} : events'[j] = events[j]
  BY EventType DEF TypeOK
<1> HIDE DEF e
<1>2. AnnouncedOf(i)' = AnnouncedOf(i) \cup {s}
  BY <1>1, AppendFacts DEF AnnouncedOf
<1>3. \A j \in Ids \ {i} : AnnouncedOf(j)' = AnnouncedOf(j)
  BY <1>1 DEF AnnouncedOf
<1>4. ASSUME s \notin AnnouncedOf(i), AuditOnce, NEW j \in Ids
      PROVE  \A m, n \in 1..Len(events'[j]) : events'[j][m].status = events'[j][n].status => m = n
  <2>1. CASE j # i
    BY <1>1, <1>4, <2>1 DEF AuditOnce
  <2>2. CASE j = i
    BY <1>1, <1>4, <2>2, AppendFacts DEF AuditOnce, AnnouncedOf
  <2>. QED BY <2>1, <2>2
<1>. QED BY <1>2, <1>3, <1>4

(* The legal trails, status by status.                                     *)
LEMMA Trails ==
  /\ LegalTrails(None) = {{}, {"Open"}}
  /\ LegalTrails("Open") = {{"Open"}}
  /\ LegalTrails("Investigating") = {{"Open", "Investigating"}}
  /\ LegalTrails("Contained") = {{"Open", "Investigating", "Contained"}}
  /\ LegalTrails("Resolved") = {{"Open", "Investigating", "Contained", "Resolved"}}
  /\ LegalTrails("Closed") = {Statuses, {"Open", "Closed"}}
  BY NoneAssumption DEF LegalTrails, Statuses

(* A legal step of the lifecycle enters a status that is not on the trail, *)
(* and the trail with it is a legal one again.                             *)
LEMMA TrailStep ==
  ASSUME NEW from \in Statuses, NEW to \in Statuses, ValidTransition(from, to),
         NEW T \in LegalTrails(from)
  PROVE  to \notin T /\ T \cup {to} \in LegalTrails(to)
  BY Trails DEF ValidTransition, Edges, Statuses

-----------------------------------------------------------------------------
(* The invariant, without the types; each step preserves it.               *)
Safe == /\ CallsAgree /\ OneOwner /\ Known
        /\ AuditTrail /\ AuditOnce /\ CreatedFirst /\ AnnouncedAfterAudit /\ ResolvedStamped

(* The sets of statuses depend on the logs and the calls alone.            *)
LEMMA SameLog ==
  ASSUME NEW i, timeline'[i] = timeline[i]
  PROVE  AuditedOf(i)' = AuditedOf(i)
  BY DEF AuditedOf

LEMMA SameEvents ==
  ASSUME NEW i, events'[i] = events[i]
  PROVE  AnnouncedOf(i)' = AnnouncedOf(i)
  BY DEF AnnouncedOf

LEMMA CreateStep ==
  ASSUME TypeOK, TypeOK', Safe, NEW t \in Threads, NEW i \in Ids, Create(t, i)
  PROVE  Safe'
<1>. USE NoneAssumption
<1>1. /\ call[t] = Idle /\ status[i] = None /\ \A u \in Threads : call[u].id # i
      /\ call' = [call EXCEPT ![t] = [pc |-> "push", id |-> i, to |-> "Open"]]
      /\ RecordTimeline(i, "Open")
      /\ UNCHANGED <<status, resolvedAt, artifacts, events>>
  BY DEF Create, Fresh, Safe, CallsAgree, At, CallAgrees
<1>2. timeline[i] = <<>> /\ events[i] = <<>> /\ AuditedOf(i) = {} /\ AnnouncedOf(i) = {}
  <2>1. timeline[i] = <<>> /\ events[i] = <<>>
    BY <1>1 DEF Safe, Known, KnownOf
  <2>. QED BY <2>1 DEF AuditedOf, AnnouncedOf
<1>3. "Open" \in Statuses
  BY DEF Statuses
<1>4. /\ AuditedOf(i)' = {"Open"} /\ timeline'[i] = <<"Open">>
      /\ \A j \in Ids \ {i} : AuditedOf(j)' = AuditedOf(j) /\ timeline'[j] = timeline[j]
      /\ \A j \in Ids : AnnouncedOf(j)' = AnnouncedOf(j)
  <2>1. /\ AuditedOf(i)' = AuditedOf(i) \cup {"Open"} /\ timeline'[i] = <<"Open">>
        /\ \A j \in Ids \ {i} : AuditedOf(j)' = AuditedOf(j)
    BY <1>1, <1>2, <1>3, LogEntry
  <2>2. \A j \in Ids \ {i} : timeline'[j] = timeline[j]
    BY <1>1 DEF RecordTimeline, TypeOK
  <2>3. \A j \in Ids : AnnouncedOf(j)' = AnnouncedOf(j)
    BY <1>1, SameEvents
  <2>. QED BY <1>2, <2>1, <2>2, <2>3
<1>5. /\ call'[t] = [pc |-> "push", id |-> i, to |-> "Open"]
      /\ \A u \in Threads \ {t} : call'[u] = call[u]
  BY <1>1 DEF TypeOK
<1>6. CallsAgree'
  BY <1>1, <1>3, <1>4, <1>5 DEF Safe, CallsAgree, At, CallAgrees
<1>7. OneOwner'
  BY <1>1, <1>5 DEF Safe, OneOwner
<1>8. Known'
  <2> SUFFICES ASSUME NEW j \in Ids PROVE KnownOf(j)'
    BY DEF Known
  <2>1. CASE j = i
    BY <1>1, <1>5, <2>1 DEF Safe, Known, At, KnownOf
  <2>2. CASE j # i
    BY <1>1, <1>4, <1>5, <2>2 DEF Safe, Known, At, Idle, KnownOf
  <2>. QED BY <2>1, <2>2
<1>9. AuditTrail'
  <2> SUFFICES ASSUME NEW j \in Ids PROVE TrailOf(j)'
    BY DEF AuditTrail, TrailOf
  <2>1. CASE j = i
    <3>1. OwedOf(j)' = {}
      BY <1>1, <1>5, <2>1 DEF OwedOf, At
    <3>. QED BY <1>1, <1>4, <2>1, <3>1, Trails DEF EnteredOf, LegalTrails, TrailOf
  <2>2. CASE j # i
    <3>1. OwedOf(j)' = OwedOf(j)
      BY <1>1, <1>5, <2>2 DEF OwedOf, At, Idle
    <3>. QED BY <1>1, <1>4, <2>2, <3>1 DEF EnteredOf, Safe, AuditTrail, LegalTrails, TrailOf
  <2>. QED BY <2>1, <2>2
<1>10. AuditOnce'
  BY <1>1, <1>2, <1>3, LogDistinct DEF Safe, AuditOnce
<1>11. CreatedFirst'
  BY <1>4 DEF Safe, CreatedFirst
<1>12. AnnouncedAfterAudit'
  <2> SUFFICES ASSUME NEW j \in Ids, NEW s \in Statuses PROVE AnnouncementOf(j, s)'
    BY DEF AnnouncedAfterAudit, AnnouncementOf
  <2>1. CASE j = i
    BY <1>1, <1>2, <1>4, <1>5, <2>1 DEF AnnouncementOf
  <2>2. CASE j # i
    BY <1>1, <1>4, <1>5, <2>2 DEF Safe, AnnouncedAfterAudit, Idle, AnnouncementOf
  <2>. QED BY <2>1, <2>2
<1>13. ResolvedStamped'
  BY <1>1 DEF Safe, ResolvedStamped
<1>. QED BY <1>6, <1>7, <1>8, <1>9, <1>10, <1>11, <1>12, <1>13 DEF Safe

LEMMA CreatePushStep ==
  ASSUME TypeOK, TypeOK', Safe, NEW t \in Threads, CreatePush(t)
  PROVE  Safe'
<1>. USE NoneAssumption
<1> DEFINE i == call[t].id
<1>1. /\ i \in Ids /\ call[t].id = i /\ timeline[i] # <<>> /\ call[t].pc = "push"
      /\ call[t].to = "Open" /\ "Open" \in Statuses
      /\ status[i] = None /\ timeline[i] = <<"Open">> /\ events[i] = <<>> /\ artifacts[i] = 0
  BY DEF CreatePush, Safe, CallsAgree, Known, At, Statuses, CallAgrees, KnownOf
<1>2. /\ status' = [status EXCEPT ![i] = "Open"]
      /\ call' = [call EXCEPT ![t].pc = "notify"]
      /\ UNCHANGED <<resolvedAt, timeline, artifacts, events>>
  BY DEF CreatePush, Goto
<1>3. /\ AuditedOf(i) = {"Open"} /\ AnnouncedOf(i) = {}
      /\ \A j \in Ids : AuditedOf(j)' = AuditedOf(j) /\ AnnouncedOf(j)' = AnnouncedOf(j)
  <2>1. AuditedOf(i) = {"Open"} /\ AnnouncedOf(i) = {}
    BY <1>1 DEF AuditedOf, AnnouncedOf
  <2>. QED BY <1>2, <2>1, SameLog, SameEvents
<1>4. /\ call'[t].pc = "notify" /\ call'[t].id = i /\ call'[t].to = "Open"
      /\ \A u \in Threads \ {t} : call'[u] = call[u]
  BY <1>1, <1>2 DEF TypeOK
<1>5. \A u \in Threads \ {t} : call[u].pc \in {"push", "record", "notify", "attach"} => call[u].id # i
  BY <1>1 DEF Safe, CallsAgree, OneOwner, At, CallAgrees
<1>. HIDE DEF i
<1>6. CallsAgree'
  <2> SUFFICES ASSUME NEW u \in Threads PROVE CallAgrees(u)'
    BY DEF CallsAgree
  <2>1. CASE u = t
    BY <1>1, <1>2, <1>3, <1>4, <2>1 DEF TypeOK, At, CallAgrees
  <2>2. CASE u # t
    BY <1>1, <1>2, <1>3, <1>4, <1>5, <2>2 DEF TypeOK, Safe, CallsAgree, At, PCs, CallAgrees
  <2>. QED BY <2>1, <2>2
<1>7. OneOwner'
  BY <1>1, <1>4, <1>5 DEF Safe, OneOwner
<1>8. Known'
  <2> SUFFICES ASSUME NEW j \in Ids PROVE KnownOf(j)'
    BY DEF Known
  <2>1. CASE j = i
    BY <1>1, <1>2, <2>1 DEF TypeOK, KnownOf
  <2>2. CASE j # i
    BY <1>1, <1>2, <1>4, <2>2 DEF TypeOK, Safe, Known, At, KnownOf
  <2>. QED BY <2>1, <2>2
<1>9. AuditTrail'
  <2> SUFFICES ASSUME NEW j \in Ids PROVE TrailOf(j)'
    BY DEF AuditTrail, TrailOf
  <2>1. CASE j = i
    <3>1. OwedOf(j)' = {}
      BY <1>4, <1>5, <2>1 DEF OwedOf, At
    <3>2. status'[j] = "Open"
      BY <1>1, <1>2, <2>1 DEF TypeOK
    <3>. QED BY <1>1, <1>3, <2>1, <3>1, <3>2, Trails DEF EnteredOf, LegalTrails, TrailOf
  <2>2. CASE j # i
    <3>1. OwedOf(j)' = OwedOf(j)
      BY <1>1, <1>4, <2>2 DEF OwedOf, At
    <3>2. status'[j] = status[j]
      BY <1>2, <2>2 DEF TypeOK
    <3>. QED BY <1>3, <3>1, <3>2 DEF EnteredOf, Safe, AuditTrail, LegalTrails, TrailOf
  <2>. QED BY <2>1, <2>2
<1>10. AuditOnce'
  BY <1>2 DEF Safe, AuditOnce
<1>11. CreatedFirst'
  BY <1>2 DEF Safe, CreatedFirst
<1>12. AnnouncedAfterAudit'
  <2> SUFFICES ASSUME NEW j \in Ids, NEW s \in Statuses PROVE AnnouncementOf(j, s)'
    BY DEF AnnouncedAfterAudit, AnnouncementOf
  <2>. QED BY <1>1, <1>3, <1>4 DEF Safe, AnnouncedAfterAudit, AnnouncementOf
<1>13. ResolvedStamped'
  BY <1>1, <1>2 DEF TypeOK, Safe, ResolvedStamped
<1>. QED BY <1>6, <1>7, <1>8, <1>9, <1>10, <1>11, <1>12, <1>13 DEF Safe

LEMMA TransitionStep ==
  ASSUME TypeOK, TypeOK', Safe, NEW t \in Threads, NEW i \in Ids, NEW to \in Statuses,
         Transition(t, i, to)
  PROVE  Safe'
<1>. USE NoneAssumption
<1>1. /\ call[t] = Idle /\ status[i] \in Statuses /\ ValidTransition(status[i], to)
      /\ status' = [status EXCEPT ![i] = to]
      /\ resolvedAt' = [resolvedAt EXCEPT ![i] = Stamped(i, to)]
      /\ UNCHANGED <<timeline, artifacts, events>>
  BY DEF Transition, Safe, CallsAgree, At, TypeOK, CallAgrees
<1>2. /\ status'[i] = to /\ status[i] # None /\ to # None
      /\ \A j \in Ids \ {i} : status'[j] = status[j]
  BY <1>1 DEF TypeOK
<1>3. \A j \in Ids : AuditedOf(j)' = AuditedOf(j) /\ AnnouncedOf(j)' = AnnouncedOf(j)
  BY <1>1, SameLog, SameEvents
<1>4. /\ call'[t].pc = "record" /\ call'[t].id = i /\ call'[t].to = to
      /\ \A u \in Threads \ {t} : call'[u] = call[u]
  BY DEF TypeOK, Transition
<1>5. /\ to \notin EnteredOf(i) /\ to \notin AuditedOf(i)
      /\ EnteredOf(i) \cup {to} \in LegalTrails(to)
  <2>1. to \notin EnteredOf(i) /\ EnteredOf(i) \cup {to} \in LegalTrails(to)
    BY <1>1, TrailStep DEF Safe, AuditTrail
  <2>. QED BY <2>1 DEF EnteredOf
<1>14. \A u \in Threads \ {t} :
         call[u].pc \in {"push", "record", "notify"} /\ call[u].id = i => call[u].to # to
  <2> SUFFICES ASSUME NEW u \in Threads \ {t}, call[u].pc \in {"push", "record", "notify"},
                      call[u].id = i, call[u].to = to
               PROVE  FALSE
    OBVIOUS
  <2>1. CASE call[u].pc = "push"
    BY <1>2, <2>1 DEF Safe, CallsAgree, At, CallAgrees
  <2>2. CASE call[u].pc = "record"
    BY <1>5, <2>2 DEF EnteredOf, OwedOf, At
  <2>3. CASE call[u].pc = "notify"
    BY <1>5, <2>3 DEF Safe, CallsAgree, At, CallAgrees
  <2>. QED BY <2>1, <2>2, <2>3
<1>6. CallsAgree'
  <2> SUFFICES ASSUME NEW u \in Threads PROVE CallAgrees(u)'
    BY DEF CallsAgree
  <2>1. CASE u = t
    BY <1>2, <1>3, <1>4, <1>5, <2>1 DEF At, CallAgrees
  <2>2. CASE u # t
    BY <1>1, <1>2, <1>3, <1>4, <2>2 DEF TypeOK, Safe, CallsAgree, At, PCs, CallAgrees
  <2>. QED BY <2>1, <2>2
<1>7. OneOwner'
  BY <1>4, <1>14 DEF Safe, OneOwner
<1>8. Known'
  <2> SUFFICES ASSUME NEW j \in Ids PROVE KnownOf(j)'
    BY DEF Known
  <2>1. CASE j = i
    BY <1>1, <1>2, <2>1 DEF Safe, Known, KnownOf
  <2>2. CASE j # i
    BY <1>1, <1>2, <1>4, <2>2 DEF Safe, Known, At, Idle, KnownOf
  <2>. QED BY <2>1, <2>2
<1>9. AuditTrail'
  <2> SUFFICES ASSUME NEW j \in Ids PROVE TrailOf(j)'
    BY DEF AuditTrail, TrailOf
  <2>1. CASE j = i
    <3>1. OwedOf(j)' = OwedOf(j) \cup {to}
      BY <1>1, <1>4, <2>1 DEF OwedOf, At, Idle
    <3>2. EnteredOf(j)' = EnteredOf(j) \cup {to}
      BY <1>3, <3>1 DEF EnteredOf
    <3>. QED BY <1>2, <1>5, <2>1, <3>2 DEF LegalTrails, TrailOf
  <2>2. CASE j # i
    <3>1. OwedOf(j)' = OwedOf(j)
      BY <1>1, <1>4, <2>2 DEF OwedOf, At, Idle
    <3>. QED BY <1>2, <1>3, <2>2, <3>1 DEF EnteredOf, Safe, AuditTrail, LegalTrails, TrailOf
  <2>. QED BY <2>1, <2>2
<1>10. AuditOnce'
  BY <1>1 DEF Safe, AuditOnce
<1>11. CreatedFirst'
  BY <1>1 DEF Safe, CreatedFirst
<1>12. AnnouncedAfterAudit'
  <2> SUFFICES ASSUME NEW j \in Ids, NEW s \in Statuses PROVE AnnouncementOf(j, s)'
    BY DEF AnnouncedAfterAudit, AnnouncementOf
  <2>. QED BY <1>1, <1>3, <1>4 DEF Safe, AnnouncedAfterAudit, Idle, AnnouncementOf
<1>13. ResolvedStamped'
  <2> SUFFICES ASSUME NEW j \in Ids
               PROVE  resolvedAt'[j] = IF status'[j] \in {"Resolved", "Closed"} THEN status'[j] ELSE None
    BY DEF ResolvedStamped
  <2>1. CASE j = i
    BY <1>1, <1>2, <2>1 DEF TypeOK, Safe, ResolvedStamped, Stamped, ValidTransition, Edges
  <2>2. CASE j # i
    BY <1>1, <1>2, <2>2 DEF TypeOK, Safe, ResolvedStamped
  <2>. QED BY <2>1, <2>2
<1>. QED BY <1>6, <1>7, <1>8, <1>9, <1>10, <1>11, <1>12, <1>13 DEF Safe

LEMMA RecordStep ==
  ASSUME TypeOK, TypeOK', Safe, NEW t \in Threads, TransitionRecord(t)
  PROVE  Safe'
<1>. USE NoneAssumption
<1>0. PICK i \in Ids, to \in Statuses : call[t].id = i /\ call[t].to = to
  BY DEF TransitionRecord, Safe, CallsAgree, At, CallAgrees
<1>1. /\ i \in Ids /\ call[t].id = i /\ call[t].to = to /\ call[t].pc = "record"
      /\ to \in Statuses /\ to \notin AuditedOf(i) /\ status[i] # None /\ timeline[i] # <<>>
      /\ RecordTimeline(i, to)
      /\ UNCHANGED <<status, resolvedAt, artifacts, events>>
  BY <1>0 DEF TransitionRecord, Safe, CallsAgree, Known, At, CallAgrees, KnownOf
<1>4. /\ call'[t].pc = "notify" /\ call'[t].id = i /\ call'[t].to = to
      /\ \A u \in Threads \ {t} : call'[u] = call[u]
  BY <1>1 DEF TypeOK, TransitionRecord, Goto
<1>2. /\ AuditedOf(i)' = AuditedOf(i) \cup {to}
      /\ \A j \in Ids \ {i} : AuditedOf(j)' = AuditedOf(j)
      /\ timeline'[i] # <<>> /\ timeline'[i][1] = timeline[i][1]
  BY <1>1, LogEntry
<1>3. /\ \A j \in Ids \ {i} : timeline'[j] = timeline[j]
      /\ \A j \in Ids : AnnouncedOf(j)' = AnnouncedOf(j)
  <2>1. \A j \in Ids \ {i} : timeline'[j] = timeline[j]
    BY <1>1 DEF RecordTimeline, TypeOK
  <2>. QED BY <1>1, <2>1, SameEvents
<1>5. /\ \A u \in Threads \ {t} :
           call[u].pc \in {"push", "record", "notify"} /\ call[u].id = i => call[u].to # to
      /\ \A u \in Threads : call[u].pc = "push" => call[u].id # i
      /\ to \notin AnnouncedOf(i)
  <2>1. \A u \in Threads \ {t} :
           call[u].pc \in {"push", "record", "notify"} /\ call[u].id = i => call[u].to # to
    BY <1>1 DEF Safe, OneOwner
  <2>2. \A u \in Threads : call[u].pc = "push" => call[u].id # i
    BY <1>1 DEF Safe, CallsAgree, At, CallAgrees
  <2>3. to \notin AnnouncedOf(i)
    BY <1>1 DEF Safe, AnnouncedAfterAudit
  <2>. QED BY <2>1, <2>2, <2>3
<1>6. CallsAgree'
  <2> SUFFICES ASSUME NEW u \in Threads PROVE CallAgrees(u)'
    BY DEF CallsAgree
  <2>1. CASE u = t
    BY <1>1, <1>2, <1>3, <1>4, <1>5, <2>1 DEF At, CallAgrees
  <2>2. CASE u # t
    <3>1. CASE call[u].id = i
      BY <1>1, <1>2, <1>3, <1>4, <1>5, <2>2, <3>1 DEF TypeOK, Safe, CallsAgree, At, PCs, CallAgrees
    <3>2. CASE call[u].id # i
      BY <1>1, <1>2, <1>3, <1>4, <2>2, <3>2 DEF TypeOK, Safe, CallsAgree, At, PCs, CallAgrees
    <3>. QED BY <3>1, <3>2
  <2>. QED BY <2>1, <2>2
<1>7. OneOwner'
  BY <1>4, <1>5 DEF Safe, OneOwner
<1>8. Known'
  <2> SUFFICES ASSUME NEW j \in Ids PROVE KnownOf(j)'
    BY DEF Known
  <2>1. CASE j = i
    BY <1>1, <1>2, <2>1 DEF KnownOf
  <2>2. CASE j # i
    BY <1>1, <1>3, <1>4, <2>2 DEF Safe, Known, At, KnownOf
  <2>. QED BY <2>1, <2>2
<1>9. AuditTrail'
  <2> SUFFICES ASSUME NEW j \in Ids PROVE TrailOf(j)'
    BY DEF AuditTrail, TrailOf
  <2>1. CASE j = i
    <3>1. OwedOf(j) = OwedOf(j)' \cup {to}
      BY <1>1, <1>4, <2>1 DEF OwedOf, At
    <3>2. EnteredOf(j)' = EnteredOf(j)
      BY <1>2, <2>1, <3>1 DEF EnteredOf
    <3>. QED BY <1>1, <3>2 DEF Safe, AuditTrail, LegalTrails, TrailOf
  <2>2. CASE j # i
    <3>1. OwedOf(j)' = OwedOf(j)
      BY <1>1, <1>4, <2>2 DEF OwedOf, At
    <3>. QED BY <1>1, <1>2, <2>2, <3>1 DEF EnteredOf, Safe, AuditTrail, LegalTrails, TrailOf
  <2>. QED BY <2>1, <2>2
<1>10. AuditOnce'
  BY <1>1, LogDistinct DEF Safe, AuditOnce
<1>11. CreatedFirst'
  BY <1>1, <1>2, <1>3 DEF Safe, CreatedFirst
<1>12. AnnouncedAfterAudit'
  <2> SUFFICES ASSUME NEW j \in Ids, NEW s \in Statuses PROVE AnnouncementOf(j, s)'
    BY DEF AnnouncedAfterAudit, AnnouncementOf
  <2>1. CASE j = i
    BY <1>1, <1>2, <1>3, <1>4, <2>1 DEF Safe, AnnouncedAfterAudit, AnnouncementOf
  <2>2. CASE j # i
    BY <1>1, <1>2, <1>3, <1>4, <2>2 DEF Safe, AnnouncedAfterAudit, AnnouncementOf
  <2>. QED BY <2>1, <2>2
<1>13. ResolvedStamped'
  BY <1>1 DEF Safe, ResolvedStamped
<1>. QED BY <1>6, <1>7, <1>8, <1>9, <1>10, <1>11, <1>12, <1>13 DEF Safe

LEMMA EmitStep ==
  ASSUME TypeOK, TypeOK', Safe, NEW t \in Threads, Emit(t)
  PROVE  Safe'
<1>. USE NoneAssumption
<1>0. PICK i \in Ids, to \in Statuses : call[t].id = i /\ call[t].to = to
  BY DEF Emit, Safe, CallsAgree, At, CallAgrees
<1>1. /\ call[t].id = i /\ call[t].to = to /\ call[t].pc = "notify"
      /\ to \in AuditedOf(i) /\ to \notin AnnouncedOf(i) /\ status[i] # None
      /\ events' = [events EXCEPT ![i] = Append(@, [kind |-> EventKind(to), status |-> to])]
      /\ UNCHANGED <<status, resolvedAt, timeline, artifacts>>
  BY <1>0 DEF Emit, Safe, CallsAgree, At, CallAgrees
<1>2. /\ AnnouncedOf(i)' = AnnouncedOf(i) \cup {to}
      /\ \A j \in Ids \ {i} : AnnouncedOf(j)' = AnnouncedOf(j)
      /\ \A j \in Ids : \A m, n \in 1..Len(events'[j]) :
                events'[j][m].status = events'[j][n].status => m = n
  BY <1>1, EventEntry DEF Safe
<1>3. /\ \A j \in Ids : AuditedOf(j)' = AuditedOf(j)
      /\ \A j \in Ids \ {i} : events'[j] = events[j]
  <2>1. \A j \in Ids : AuditedOf(j)' = AuditedOf(j)
    BY <1>1, SameLog
  <2>. QED BY <1>1, <2>1 DEF TypeOK
<1>4. call'[t] = Idle /\ \A u \in Threads \ {t} : call'[u] = call[u]
  BY DEF TypeOK, Emit, Return
<1>5. \A u \in Threads \ {t} :
         call[u].pc \in {"push", "record", "notify"} /\ call[u].id = i => call[u].to # to
  BY <1>1 DEF Safe, OneOwner
<1>6. CallsAgree'
  <2> SUFFICES ASSUME NEW u \in Threads PROVE CallAgrees(u)'
    BY DEF CallsAgree
  <2>1. CASE u = t
    BY <1>4, <2>1 DEF At, Idle, CallAgrees
  <2>2. CASE u # t
    <3>1. CASE call[u].id = i
      BY <1>1, <1>2, <1>3, <1>4, <1>5, <2>2, <3>1 DEF TypeOK, Safe, CallsAgree, At, PCs, CallAgrees
    <3>2. CASE call[u].id # i
      BY <1>1, <1>2, <1>3, <1>4, <2>2, <3>2 DEF TypeOK, Safe, CallsAgree, At, PCs, CallAgrees
    <3>. QED BY <3>1, <3>2
  <2>. QED BY <2>1, <2>2
<1>7. OneOwner'
  BY <1>4 DEF Safe, OneOwner, Idle
<1>8. Known'
  <2> SUFFICES ASSUME NEW j \in Ids PROVE KnownOf(j)'
    BY DEF Known
  <2>1. CASE j = i
    BY <1>1, <2>1 DEF Safe, Known, KnownOf
  <2>2. CASE j # i
    BY <1>1, <1>3, <1>4, <2>2 DEF Safe, Known, At, KnownOf
  <2>. QED BY <2>1, <2>2
<1>9. AuditTrail'
  <2> SUFFICES ASSUME NEW j \in Ids PROVE TrailOf(j)'
    BY DEF AuditTrail, TrailOf
  <2>1. OwedOf(j)' = OwedOf(j)
    BY <1>1, <1>4 DEF OwedOf, At, Idle, TrailOf
  <2>. QED BY <1>1, <1>3, <2>1 DEF EnteredOf, Safe, AuditTrail, LegalTrails, TrailOf
<1>10. AuditOnce'
  BY <1>1, <1>2 DEF Safe, AuditOnce
<1>11. CreatedFirst'
  BY <1>1 DEF Safe, CreatedFirst
<1>12. AnnouncedAfterAudit'
  <2> SUFFICES ASSUME NEW j \in Ids, NEW s \in Statuses PROVE AnnouncementOf(j, s)'
    BY DEF AnnouncedAfterAudit, AnnouncementOf
  <2>1. CASE j = i
    BY <1>1, <1>2, <1>3, <1>4, <2>1 DEF Safe, AnnouncedAfterAudit, Idle, AnnouncementOf
  <2>2. CASE j # i
    BY <1>1, <1>2, <1>3, <1>4, <2>2 DEF Safe, AnnouncedAfterAudit, Idle, AnnouncementOf
  <2>. QED BY <2>1, <2>2
<1>13. ResolvedStamped'
  BY <1>1 DEF Safe, ResolvedStamped
<1>. QED BY <1>6, <1>7, <1>8, <1>9, <1>10, <1>11, <1>12, <1>13 DEF Safe

LEMMA ArtifactStep ==
  ASSUME TypeOK, TypeOK', Safe, NEW t \in Threads,
         (\E i \in Ids : AddArtifact(t, i)) \/ Attach(t)
  PROVE  Safe'
<1>. USE NoneAssumption
<1>1. /\ UNCHANGED <<status, resolvedAt, timeline, events>>
      /\ \A u \in Threads \ {t} : call'[u] = call[u]
      /\ call[t].pc \in {"idle", "attach"} /\ call'[t].pc \in {"idle", "attach"}
      /\ call'[t].pc = "idle" => call'[t] = Idle
      /\ call'[t].pc = "attach" => call'[t].id \in Ids /\ status[call'[t].id] # None
  BY DEF AddArtifact, Attach, Return, Idle, At, TypeOK
<1>2. \A j \in Ids : artifacts'[j] = artifacts[j] \/ status[j] # None
  BY DEF AddArtifact, Attach, Safe, CallsAgree, At, TypeOK, CallAgrees
<1>3. \A j \in Ids : AuditedOf(j)' = AuditedOf(j) /\ AnnouncedOf(j)' = AnnouncedOf(j)
  BY <1>1, SameLog, SameEvents
<1>6. CallsAgree'
  <2> SUFFICES ASSUME NEW u \in Threads PROVE CallAgrees(u)'
    BY DEF CallsAgree
  <2>1. CASE u = t
    BY <1>1, <2>1 DEF At, CallAgrees
  <2>2. CASE u # t
    BY <1>1, <1>3, <2>2 DEF TypeOK, Safe, CallsAgree, At, PCs, CallAgrees
  <2>. QED BY <2>1, <2>2
<1>7. OneOwner'
  BY <1>1 DEF Safe, OneOwner
<1>8. Known'
  BY <1>1, <1>2 DEF Safe, Known, At, KnownOf
<1>9. AuditTrail'
  <2> SUFFICES ASSUME NEW j \in Ids PROVE TrailOf(j)'
    BY DEF AuditTrail, TrailOf
  <2>1. OwedOf(j)' = OwedOf(j)
    BY <1>1 DEF OwedOf, At, TrailOf
  <2>. QED BY <1>1, <1>3, <2>1 DEF EnteredOf, Safe, AuditTrail, LegalTrails, TrailOf
<1>10. AuditOnce'
  BY <1>1 DEF Safe, AuditOnce
<1>11. CreatedFirst'
  BY <1>1 DEF Safe, CreatedFirst
<1>12. AnnouncedAfterAudit'
  <2> SUFFICES ASSUME NEW j \in Ids, NEW s \in Statuses PROVE AnnouncementOf(j, s)'
    BY DEF AnnouncedAfterAudit, AnnouncementOf
  <2>. QED BY <1>1, <1>3 DEF Safe, AnnouncedAfterAudit, AnnouncementOf
<1>13. ResolvedStamped'
  BY <1>1 DEF Safe, ResolvedStamped
<1>. QED BY <1>6, <1>7, <1>8, <1>9, <1>10, <1>11, <1>12, <1>13 DEF Safe

LEMMA StutterStep == Safe /\ UNCHANGED vars => Safe'
<1> SUFFICES ASSUME Safe, UNCHANGED vars PROVE Safe'
  OBVIOUS
<1>1. \A j : AuditedOf(j)' = AuditedOf(j) /\ AnnouncedOf(j)' = AnnouncedOf(j) /\ OwedOf(j)' = OwedOf(j)
  BY DEF vars, AuditedOf, AnnouncedOf, OwedOf, At
<1>2. CallsAgree' /\ OneOwner' /\ Known' /\ AuditOnce' /\ CreatedFirst' /\ ResolvedStamped'
  BY <1>1 DEF vars, Safe, CallsAgree, OneOwner, Known, At, AuditOnce, CreatedFirst, ResolvedStamped, CallAgrees, KnownOf
<1>3. AuditTrail'
  BY <1>1 DEF vars, Safe, AuditTrail, EnteredOf, LegalTrails, TrailOf
<1>4. AnnouncedAfterAudit'
  BY <1>1 DEF vars, Safe, AnnouncedAfterAudit, AnnouncementOf
<1>. QED BY <1>2, <1>3, <1>4 DEF Safe

-----------------------------------------------------------------------------
IInv == TypeOK /\ Safe

LEMMA InitInv == Init => IInv
<1> SUFFICES ASSUME Init PROVE IInv
  OBVIOUS
<1>. USE NoneAssumption
<1>1. TypeOK
  BY InitType
<1>2. \A i \in Ids : AuditedOf(i) = {} /\ AnnouncedOf(i) = {} /\ OwedOf(i) = {}
  BY DEF Init, AuditedOf, AnnouncedOf, OwedOf, At, Idle
<1>3. CallsAgree /\ OneOwner /\ Known
  BY DEF Init, CallsAgree, OneOwner, Known, At, Idle, CallAgrees, KnownOf
<1>4. AuditTrail
  BY <1>2, Trails DEF Init, AuditTrail, EnteredOf
<1>5. AuditOnce /\ CreatedFirst
  BY DEF Init, AuditOnce, CreatedFirst
<1>6. AnnouncedAfterAudit
  BY <1>2 DEF Init, AnnouncedAfterAudit, Idle
<1>7. ResolvedStamped
  BY DEF Init, ResolvedStamped
<1>. QED BY <1>1, <1>3, <1>4, <1>5, <1>6, <1>7 DEF IInv, Safe

LEMMA StepInv == IInv /\ [Next]_vars => IInv'
<1> SUFFICES ASSUME IInv, [Next]_vars PROVE IInv'
  OBVIOUS
<1>1. TypeOK /\ Safe
  BY DEF IInv
<1>2. TypeOK'
  <2>1. HasStatus
    BY <1>1 DEF Safe, CallsAgree, HasStatus, At, CallAgrees
  <2>. QED BY <1>1, <2>1, TypeStep
<1>3. ASSUME NEW t \in Threads, NEW i \in Ids, Create(t, i) PROVE Safe'
  BY <1>1, <1>2, <1>3, CreateStep
<1>4. ASSUME NEW t \in Threads, CreatePush(t) PROVE Safe'
  BY <1>1, <1>2, <1>4, CreatePushStep
<1>5. ASSUME NEW t \in Threads, NEW i \in Ids, NEW to \in Statuses, Transition(t, i, to) PROVE Safe'
  BY <1>1, <1>2, <1>5, TransitionStep
<1>6. ASSUME NEW t \in Threads, TransitionRecord(t) PROVE Safe'
  BY <1>1, <1>2, <1>6, RecordStep
<1>7. ASSUME NEW t \in Threads, Emit(t) PROVE Safe'
  BY <1>1, <1>2, <1>7, EmitStep
<1>8. ASSUME NEW t \in Threads, (\E i \in Ids : AddArtifact(t, i)) \/ Attach(t) PROVE Safe'
  BY <1>1, <1>2, <1>8, ArtifactStep
<1>9. ASSUME UNCHANGED vars PROVE Safe'
  BY <1>1, <1>9, StutterStep
<1>10. Safe'
  BY <1>3, <1>4, <1>5, <1>6, <1>7, <1>8, <1>9 DEF Next, Continue
<1>. QED BY <1>2, <1>10 DEF IInv

(* The inductive invariant holds for any number of threads and incidents.  *)
THEOREM Invariance == Spec => []IInv
  BY InitInv, StepInv, PTL DEF Spec

(* The log of every incident, with the entries in flight, is a legal walk  *)
(* of the lifecycle that ends in its present status (transition).          *)
THEOREM AuditTrailHolds == Spec => []AuditTrail
<1>1. IInv => AuditTrail
  BY DEF IInv, Safe
<1>. QED BY Invariance, <1>1, PTL

(* No race of two threads logs or announces one change of status twice.    *)
THEOREM AuditOnceHolds == Spec => []AuditOnce
<1>1. IInv => AuditOnce
  BY DEF IInv, Safe
<1>. QED BY Invariance, <1>1, PTL

(* Every log starts with the creation of its incident (create_incident).   *)
THEOREM CreatedFirstHolds == Spec => []CreatedFirst
<1>1. IInv => CreatedFirst
  BY DEF IInv, Safe
<1>. QED BY Invariance, <1>1, PTL

(* What is logged has been announced or is about to be; nothing else is.   *)
THEOREM AnnouncedAfterAuditHolds == Spec => []AnnouncedAfterAudit
<1>1. IInv => AnnouncedAfterAudit
  BY DEF IInv, Safe
<1>. QED BY Invariance, <1>1, PTL

(* An incident is stamped exactly while it is resolved or closed.          *)
THEOREM ResolvedStampedHolds == Spec => []ResolvedStamped
<1>1. IInv => ResolvedStamped
  BY DEF IInv, Safe
<1>. QED BY Invariance, <1>1, PTL

(* Nothing is filed for an incident that is not there.                     *)
THEOREM NoOrphansHolds == Spec => []NoOrphans
<1>1. IInv => NoOrphans
  BY DEF IInv, TypeOK, Safe, Known, NoOrphans, KnownOf
<1>. QED BY Invariance, <1>1, PTL

-----------------------------------------------------------------------------
(* The refinement: each step is one of the abstract store or none.         *)
EnteredF   == [i \in Ids |-> EnteredOf(i)]
AuditedF   == [i \in Ids |-> AuditedOf(i)]
AnnouncedF == [i \in Ids |-> AnnouncedOf(i)]

LEMMA CreateRefines ==
  ASSUME IInv, NEW t \in Threads, NEW i \in Ids, Create(t, i)
  PROVE  Audited!Born(i)
<1>1. /\ TypeOK /\ call[t] = Idle /\ status[i] = None
      /\ \A u \in Threads : call[u].id # i
      /\ call' = [call EXCEPT ![t] = [pc |-> "push", id |-> i, to |-> "Open"]]
      /\ RecordTimeline(i, "Open") /\ UNCHANGED events /\ "Open" \in Statuses
  BY DEF Create, Fresh, IInv, Safe, CallsAgree, At, Statuses, CallAgrees
<1>2. AuditedOf(i) = {}
  <2>1. timeline[i] = <<>>
    BY <1>1 DEF IInv, Safe, Known, KnownOf
  <2>. QED BY <2>1 DEF AuditedOf
<1>3. /\ AuditedOf(i)' = {"Open"}
      /\ \A j \in Ids \ {i} : AuditedOf(j)' = AuditedOf(j)
      /\ \A j \in Ids : AnnouncedOf(j)' = AnnouncedOf(j)
  BY <1>1, <1>2, LogEntry, SameEvents
<1>4. /\ \A j \in Ids : OwedOf(j)' = OwedOf(j)
      /\ OwedOf(i) = {}
  BY <1>1 DEF OwedOf, At, TypeOK, Idle
<1>5. /\ EnteredOf(i) = {} /\ EnteredOf(i)' = {"Open"}
      /\ \A j \in Ids \ {i} : EnteredOf(j)' = EnteredOf(j)
  BY <1>2, <1>3, <1>4 DEF EnteredOf
<1>6. /\ EnteredF' = [EnteredF EXCEPT ![i] = {"Open"}]
      /\ AuditedF' = [AuditedF EXCEPT ![i] = {"Open"}]
      /\ AnnouncedF' = AnnouncedF
  BY <1>3, <1>5 DEF EnteredF, AuditedF, AnnouncedF
<1>. QED BY <1>5, <1>6 DEF Audited!Born, EnteredF, AuditedF, AnnouncedF

LEMMA TransitionRefines ==
  ASSUME IInv, NEW t \in Threads, NEW i \in Ids, NEW to \in Statuses, Transition(t, i, to)
  PROVE  Audited!Advance(i, status[i], to)
<1>1. /\ TypeOK /\ call[t] = Idle /\ status[i] \in Statuses /\ ValidTransition(status[i], to)
      /\ call' = [call EXCEPT ![t] = [pc |-> "record", id |-> i, to |-> to]]
      /\ UNCHANGED <<timeline, events>>
  BY DEF Transition, IInv, Safe, CallsAgree, At, TypeOK, CallAgrees
<1>2. \A j \in Ids : AuditedOf(j)' = AuditedOf(j) /\ AnnouncedOf(j)' = AnnouncedOf(j)
  BY <1>1, SameLog, SameEvents
<1>3. /\ EnteredOf(i) \in LegalTrails(status[i])
      /\ to \notin EnteredOf(i)
  BY <1>1, TrailStep DEF IInv, Safe, AuditTrail
<1>4. status[i] \in EnteredOf(i) /\ \A s \in EnteredOf(i) : <<status[i], s>> \notin Edges
  BY <1>1, <1>3, Trails DEF ValidTransition, Edges, Statuses
<1>5. /\ OwedOf(i)' = OwedOf(i) \cup {to}
      /\ \A j \in Ids \ {i} : OwedOf(j)' = OwedOf(j)
  BY <1>1 DEF OwedOf, At, TypeOK, Idle
<1>6. /\ EnteredOf(i)' = EnteredOf(i) \cup {to}
      /\ \A j \in Ids \ {i} : EnteredOf(j)' = EnteredOf(j)
  BY <1>2, <1>5 DEF EnteredOf
<1>7. /\ EnteredF' = [EnteredF EXCEPT ![i] = @ \cup {to}]
      /\ AuditedF' = AuditedF /\ AnnouncedF' = AnnouncedF
  BY <1>2, <1>6 DEF EnteredF, AuditedF, AnnouncedF
<1>. QED BY <1>1, <1>3, <1>4, <1>7 DEF Audited!Advance, EnteredF, AuditedF, AnnouncedF, ValidTransition

LEMMA RecordRefines ==
  ASSUME IInv, NEW t \in Threads, TransitionRecord(t)
  PROVE  \E i \in Ids, s \in Statuses : Audited!Audit(i, s)
<1>0. PICK i \in Ids, to \in Statuses : call[t].id = i /\ call[t].to = to
  BY DEF TransitionRecord, IInv, Safe, CallsAgree, At, CallAgrees
<1>1. /\ TypeOK /\ call[t].pc = "record" /\ to \notin AuditedOf(i)
      /\ RecordTimeline(i, to) /\ call' = [call EXCEPT ![t].pc = "notify"] /\ UNCHANGED events
  BY <1>0 DEF TransitionRecord, Goto, IInv, Safe, CallsAgree, At, CallAgrees
<1>2. /\ AuditedOf(i)' = AuditedOf(i) \cup {to}
      /\ \A j \in Ids \ {i} : AuditedOf(j)' = AuditedOf(j)
      /\ \A j \in Ids : AnnouncedOf(j)' = AnnouncedOf(j)
  BY <1>1, LogEntry, SameEvents
<1>3. call'[t].pc = "notify" /\ \A u \in Threads \ {t} : call'[u] = call[u]
  BY <1>1 DEF TypeOK
<1>4. /\ OwedOf(i) = OwedOf(i)' \cup {to}
      /\ \A j \in Ids \ {i} : OwedOf(j)' = OwedOf(j)
  BY <1>0, <1>1, <1>3 DEF OwedOf, At
<1>5. \A j \in Ids : EnteredOf(j)' = EnteredOf(j)
  <2>1. EnteredOf(i)' = EnteredOf(i)
    BY <1>2, <1>4 DEF EnteredOf
  <2>2. \A j \in Ids \ {i} : EnteredOf(j)' = EnteredOf(j)
    BY <1>2, <1>4 DEF EnteredOf
  <2>. QED BY <2>1, <2>2
<1>6. to \in EnteredOf(i) \ AuditedOf(i)
  BY <1>1, <1>4 DEF EnteredOf
<1>7. /\ AuditedF' = [AuditedF EXCEPT ![i] = @ \cup {to}]
      /\ EnteredF' = EnteredF /\ AnnouncedF' = AnnouncedF
  BY <1>2, <1>5 DEF EnteredF, AuditedF, AnnouncedF
<1>8. Audited!Audit(i, to)
  BY <1>6, <1>7 DEF Audited!Audit, EnteredF, AuditedF, AnnouncedF
<1>. QED BY <1>8

LEMMA EmitRefines ==
  ASSUME IInv, NEW t \in Threads, Emit(t)
  PROVE  \E i \in Ids, s \in Statuses : Audited!Announce(i, s)
<1>0. PICK i \in Ids, to \in Statuses : call[t].id = i /\ call[t].to = to
  BY DEF Emit, IInv, Safe, CallsAgree, At, CallAgrees
<1>1. /\ TypeOK /\ call[t].pc = "notify" /\ to \in AuditedOf(i) /\ to \notin AnnouncedOf(i)
      /\ events' = [events EXCEPT ![i] = Append(@, [kind |-> EventKind(to), status |-> to])]
      /\ UNCHANGED timeline /\ call' = [call EXCEPT ![t] = Idle]
  BY <1>0 DEF Emit, Return, IInv, Safe, CallsAgree, At, CallAgrees
<1>2. /\ AnnouncedOf(i)' = AnnouncedOf(i) \cup {to}
      /\ \A j \in Ids \ {i} : AnnouncedOf(j)' = AnnouncedOf(j)
      /\ \A j \in Ids : AuditedOf(j)' = AuditedOf(j)
  BY <1>1, EventEntry, SameLog
<1>3. \A j \in Ids : OwedOf(j)' = OwedOf(j)
  BY <1>1 DEF OwedOf, At, TypeOK, Idle
<1>4. \A j \in Ids : EnteredOf(j)' = EnteredOf(j)
  BY <1>2, <1>3 DEF EnteredOf
<1>5. /\ AnnouncedF' = [AnnouncedF EXCEPT ![i] = @ \cup {to}]
      /\ EnteredF' = EnteredF /\ AuditedF' = AuditedF
  BY <1>2, <1>4 DEF EnteredF, AuditedF, AnnouncedF
<1>6. Audited!Announce(i, to)
  BY <1>1, <1>5 DEF Audited!Announce, EnteredF, AuditedF, AnnouncedF
<1>. QED BY <1>6

(* The steps that log and announce nothing are invisible.                  *)
LEMMA OtherStutters ==
  ASSUME IInv, UNCHANGED <<timeline, events>>,
         \A u \in Threads : (call'[u].pc = "record" \/ call[u].pc = "record") => call'[u] = call[u]
  PROVE  UNCHANGED Audited!avars
<1>1. \A j \in Ids : AuditedOf(j)' = AuditedOf(j) /\ AnnouncedOf(j)' = AnnouncedOf(j)
  BY SameLog, SameEvents
<1>2. \A j \in Ids : OwedOf(j)' = OwedOf(j)
  BY DEF OwedOf, At
<1>3. \A j \in Ids : EnteredOf(j)' = EnteredOf(j)
  BY <1>1, <1>2 DEF EnteredOf
<1>. QED BY <1>1, <1>3 DEF Audited!avars

(* The incident manager implements the audited record store.               *)
THEOREM Refinement == Spec => ImplementsAudited
<1>1. Init => Audited!AInit
  <2> SUFFICES ASSUME Init PROVE Audited!AInit
    OBVIOUS
  <2>1. \A i \in Ids : AuditedOf(i) = {} /\ AnnouncedOf(i) = {} /\ OwedOf(i) = {} /\ EnteredOf(i) = {}
    BY DEF Init, AuditedOf, AnnouncedOf, OwedOf, EnteredOf, At, Idle
  <2>. QED BY <2>1 DEF Audited!AInit
<1>2. IInv /\ [Next]_vars => [Audited!ANext]_(Audited!avars)
  <2> SUFFICES ASSUME IInv, [Next]_vars PROVE [Audited!ANext]_(Audited!avars)
    OBVIOUS
  <2>1. ASSUME NEW t \in Threads, NEW i \in Ids, Create(t, i) PROVE Audited!ANext
    BY <2>1, CreateRefines DEF Audited!ANext
  <2>2. ASSUME NEW t \in Threads, NEW i \in Ids, NEW to \in Statuses, Transition(t, i, to)
        PROVE  Audited!ANext
    <3>1. status[i] \in Statuses
      BY <2>2 DEF Transition, IInv, TypeOK
    <3>. QED BY <2>2, <3>1, TransitionRefines DEF Audited!ANext
  <2>3. ASSUME NEW t \in Threads, TransitionRecord(t) PROVE Audited!ANext
    BY <2>3, RecordRefines DEF Audited!ANext
  <2>4. ASSUME NEW t \in Threads, Emit(t) PROVE Audited!ANext
    BY <2>4, EmitRefines DEF Audited!ANext
  <2>5. ASSUME NEW t \in Threads, CreatePush(t) \/ Attach(t) \/ \E i \in Ids : AddArtifact(t, i)
        PROVE  UNCHANGED Audited!avars
    <3>1. /\ UNCHANGED <<timeline, events>>
          /\ \A u \in Threads : (call'[u].pc = "record" \/ call[u].pc = "record") => call'[u] = call[u]
      BY <2>5 DEF CreatePush, Attach, AddArtifact, Goto, Return, At, Idle, IInv, TypeOK
    <3>. QED BY <3>1, OtherStutters
  <2>6. ASSUME UNCHANGED vars PROVE UNCHANGED Audited!avars
    <3>1. UNCHANGED <<timeline, events, call>>
      BY <2>6 DEF vars
    <3>. QED BY <3>1, OtherStutters
  <2>. QED BY <2>1, <2>2, <2>3, <2>4, <2>5, <2>6 DEF Next, Continue
<1>. QED BY Invariance, <1>1, <1>2, PTL DEF ImplementsAudited, Audited!ASpec, Spec

-----------------------------------------------------------------------------
(***************************************************************************)
(* Case management, for any analysts and any cases.                        *)
(***************************************************************************)
(* Why an assigned case is closed only out of a review: a case somebody was*)
(* ever assigned to is not new any more, and never becomes new again.      *)
AssignedIsNotNew ==
  \A c \in CaseIds : investigator[c] # Nobody => workflow[c] \notin {Nobody, "New"}

CasesInv == C!TypeOK /\ C!NoOrphans /\ AssignedIsNotNew

-----------------------------------------------------------------------------
LEMMA CasesInit == C!Assumption /\ C!Init => CasesInv
  <1> SUFFICES ASSUME C!Assumption, C!Init PROVE CasesInv
    OBVIOUS
  <1>1. C!TypeOK
    BY DEF C!Init, C!TypeOK, C!States
  <1>2. C!NoOrphans
    <2> SUFFICES ASSUME NEW c \in CaseIds, NEW s \in C!Shelves, NEW a \in Analysts
                 PROVE  ~(filed[s][c] > 0) /\ filing[a] # <<s, c>>
      BY DEF C!NoOrphans, C!Init
    <2>1. filed[s][c] = 0 /\ filing[a] = Nobody
      BY DEF C!Init
    <2>2. <<s, c>> \in C!Shelves \X CaseIds
      OBVIOUS
    <2> QED
      BY <2>1, <2>2 DEF C!Assumption, C!States
  <1>3. AssignedIsNotNew
    BY DEF C!Init, AssignedIsNotNew
  <1> QED
    BY <1>1, <1>2, <1>3 DEF CasesInv

(* The steps that touch the workflow and no shelf.                         *)
LEMMA CaseCreated ==
  ASSUME C!Assumption, CasesInv, NEW a \in Analysts, NEW c \in CaseIds, C!Create(a, c)
  PROVE  CasesInv'
  <1> USE DEF CasesInv, C!Create, C!Exists
  <1>1. C!TypeOK'
    BY DEF C!TypeOK, C!States
  <1>2. \A d \in CaseIds : workflow[d] # Nobody => workflow'[d] # Nobody
    BY DEF C!TypeOK, C!States, C!Assumption
  <1>3. C!NoOrphans'
    BY <1>2 DEF C!NoOrphans
  <1>4. AssignedIsNotNew'
    BY DEF C!TypeOK, AssignedIsNotNew
  <1> QED
    BY <1>1, <1>3, <1>4

LEMMA CaseAssigned ==
  ASSUME C!Assumption, CasesInv, NEW a \in Analysts, NEW c \in CaseIds, NEW who \in Analysts,
         C!Assign(a, c, who)
  PROVE  CasesInv'
  <1> USE DEF CasesInv, C!Assign, C!Exists
  <1>1. C!TypeOK'
    BY DEF C!TypeOK, C!States
  <1>2. \A d \in CaseIds : workflow[d] # Nobody => workflow'[d] # Nobody
    BY DEF C!TypeOK, C!States, C!Assumption
  <1>3. C!NoOrphans'
    BY <1>2 DEF C!NoOrphans
  <1>4. AssignedIsNotNew'
    BY DEF C!TypeOK, AssignedIsNotNew, C!States, C!Assumption
  <1> QED
    BY <1>1, <1>3, <1>4

(* No edge of the workflow leads back to a new case.                       *)
LEMMA CaseEdges ==
  ASSUME NEW from, NEW to, C!ValidTransition(from, to)
  PROVE  /\ from \in C!States /\ to \in C!States \ {"New"}
         /\ from # "Closed"
         /\ to = "Closed" => from \in {"New", "InReview"}
  BY DEF C!ValidTransition, C!Edges, C!States

LEMMA CaseMoved ==
  ASSUME C!Assumption, CasesInv, NEW a \in Analysts, NEW c \in CaseIds, NEW to \in C!States,
         C!Transition(a, c, to)
  PROVE  CasesInv'
  <1> USE DEF CasesInv, C!Transition, C!Exists
  <1>1. to \in C!States \ {"New"}
    BY CaseEdges
  <1>2. C!TypeOK'
    BY DEF C!TypeOK
  <1>3. \A d \in CaseIds : workflow[d] # Nobody => workflow'[d] # Nobody
    BY DEF C!TypeOK, C!Assumption, C!States
  <1>4. C!NoOrphans'
    BY <1>3 DEF C!NoOrphans
  <1>5. AssignedIsNotNew'
    BY <1>1 DEF C!TypeOK, AssignedIsNotNew, C!Assumption, C!States
  <1> QED
    BY <1>2, <1>4, <1>5

(* The two steps of a filing: what was looked up still exists when it is   *)
(* filed, because no case is ever removed.                                 *)
LEMMA CaseLookedUp ==
  ASSUME C!Assumption, CasesInv, NEW a \in Analysts, NEW s \in C!Shelves, NEW c \in CaseIds,
         C!LookUp(a, s, c)
  PROVE  CasesInv'
  <1> USE DEF CasesInv, C!LookUp
  <1>1. C!TypeOK'
    BY DEF C!TypeOK
  <1>2. C!NoOrphans'
    <2> SUFFICES ASSUME NEW d \in CaseIds, NEW r \in C!Shelves, NEW b \in Analysts,
                        filed'[r][d] > 0 \/ filing'[b] = <<r, d>>
                 PROVE  C!Exists(d)'
      BY DEF C!NoOrphans
    <2>1. CASE filed'[r][d] > 0 \/ filing[b] = <<r, d>>
      BY <2>1 DEF C!NoOrphans, C!Exists
    <2>2. CASE filing'[b] = <<r, d>> /\ filing[b] # <<r, d>>
      <3>1. b = a /\ filing'[b] = <<s, c>>
        BY <2>2 DEF C!TypeOK
      <3> QED
        BY <2>2, <3>1 DEF C!Exists
    <2> QED
      BY <2>1, <2>2
  <1>3. AssignedIsNotNew'
    BY DEF AssignedIsNotNew
  <1> QED
    BY <1>1, <1>2, <1>3

LEMMA CaseFiled ==
  ASSUME C!Assumption, CasesInv, NEW a \in Analysts, C!File(a)
  PROVE  CasesInv'
  <1> USE DEF CasesInv, C!File
  <1>1. PICK s \in C!Shelves, c \in CaseIds : filing[a] = <<s, c>>
    BY DEF C!TypeOK, C!Free
  <1>2. filed' = [filed EXCEPT ![s][c] = @ + 1]
    BY <1>1
  <1>3. C!TypeOK'
    <2>1. filed' \in [C!Shelves -> [CaseIds -> Nat]]
      BY <1>2 DEF C!TypeOK
    <2> QED
      BY <2>1 DEF C!TypeOK
  <1>4. C!NoOrphans'
    <2> SUFFICES ASSUME NEW d \in CaseIds, NEW r \in C!Shelves, NEW b \in Analysts,
                        filed'[r][d] > 0 \/ filing'[b] = <<r, d>>
                 PROVE  C!Exists(d)'
      BY DEF C!NoOrphans
    <2>1. CASE r = s /\ d = c
      BY <1>1, <2>1 DEF C!NoOrphans, C!Exists
    <2>2. CASE ~(r = s /\ d = c) /\ filed'[r][d] > 0
      <3>1. filed'[r][d] = filed[r][d]
        BY <1>2, <2>2 DEF C!TypeOK
      <3> QED
        BY <2>2, <3>1 DEF C!NoOrphans, C!Exists
    <2>3. CASE filing'[b] = <<r, d>>
      <3>1. <<r, d>> \in C!Shelves \X CaseIds
        OBVIOUS
      <3>2. filing[b] = <<r, d>>
        BY <2>3, <3>1 DEF C!TypeOK, C!Assumption, C!States
      <3> QED
        BY <3>2 DEF C!NoOrphans, C!Exists
    <2> QED
      BY <2>1, <2>2, <2>3
  <1>5. AssignedIsNotNew'
    BY DEF AssignedIsNotNew
  <1> QED
    BY <1>3, <1>4, <1>5

LEMMA CasesStep == C!Assumption /\ CasesInv /\ [C!Next]_(C!vars) => CasesInv'
  <1> SUFFICES ASSUME C!Assumption, CasesInv, [C!Next]_(C!vars) PROVE CasesInv'
    OBVIOUS
  <1>1. CASE UNCHANGED C!vars
    BY <1>1 DEF C!vars, CasesInv, C!TypeOK, C!NoOrphans, AssignedIsNotNew, C!Exists
  <1>2. CASE C!Next
    BY <1>2, CaseCreated, CaseAssigned, CaseMoved, CaseLookedUp, CaseFiled DEF C!Next
  <1> QED
    BY <1>1, <1>2

(* The inductive invariant: types, no orphans, assigned cases are not new. *)
LEMMA CasesInvariance ==
  CaseSpec => []CasesInv
  BY CaseworkAssumption, CasesInit, CasesStep, PTL DEF CaseSpec, C!Spec

(* CaseTypeOK: the engine's state is well typed in every reachable state.  *)
THEOREM CasesTypeCorrect == CaseSpec => []CaseTypeOK
  <1>1. CasesInv => CaseTypeOK
    BY DEF CasesInv, CaseTypeOK
  <1> QED
    BY <1>1, CasesInvariance, PTL

(* CaseNoOrphans: comments and evidence belong to cases that exist, in     *)
(* spite of the gap between the look-up and the push of add_comment and    *)
(* add_evidence.                                                           *)
THEOREM CasesNoOrphansHolds == CaseSpec => []CaseNoOrphans
  <1>1. CasesInv => CaseNoOrphans
    BY DEF CasesInv, CaseNoOrphans
  <1> QED
    BY <1>1, CasesInvariance, PTL

-----------------------------------------------------------------------------
(* What a step does to the workflow of a case.                             *)
LEMMA CaseWorkflow ==
  ASSUME C!Assumption, CasesInv, C!Next, NEW c \in CaseIds, workflow'[c] # workflow[c]
  PROVE  \/ workflow[c] = Nobody /\ workflow'[c] = "New"
         \/ workflow'[c] = "Assigned" /\ investigator'[c] \in Analysts
         \/ C!ValidTransition(workflow[c], workflow'[c])
  <1> USE DEF CasesInv, C!TypeOK
  <1>1. ASSUME NEW a \in Analysts, NEW d \in CaseIds, C!Create(a, d)
        PROVE  workflow[c] = Nobody /\ workflow'[c] = "New"
    BY <1>1 DEF C!Create, C!Exists
  <1>2. ASSUME NEW a \in Analysts, NEW d \in CaseIds, NEW who \in Analysts, C!Assign(a, d, who)
        PROVE  workflow'[c] = "Assigned" /\ investigator'[c] \in Analysts
    BY <1>2 DEF C!Assign
  <1>3. ASSUME NEW a \in Analysts, NEW d \in CaseIds, NEW to \in C!States, C!Transition(a, d, to)
        PROVE  C!ValidTransition(workflow[c], workflow'[c])
    <2>1. c = d
      BY <1>3 DEF C!Transition
    <2>2. workflow'[d] = to
      BY <1>3 DEF C!Transition
    <2> QED
      BY <1>3, <2>1, <2>2 DEF C!Transition
  <1>4. \A a \in Analysts, s \in C!Shelves, d \in CaseIds : ~C!LookUp(a, s, d)
    BY DEF C!LookUp
  <1>5. \A a \in Analysts : ~C!File(a)
    BY DEF C!File
  <1> QED
    BY <1>1, <1>2, <1>3, <1>4, <1>5 DEF C!Next

(* NoCloseWithoutReview: a case somebody was ever assigned to is closed    *)
(* only out of a review, however many analysts assign and move it.         *)
THEOREM NoCloseWithoutReviewHolds == CaseSpec => NoCloseWithoutReview
  <1> USE CaseworkAssumption
  <1>1. CasesInv /\ [C!Next]_(C!vars) =>
          [\A c \in CaseIds :
             (investigator[c] # Nobody /\ workflow[c] # "Closed" /\ workflow'[c] = "Closed")
               => workflow[c] = "InReview"]_(C!vars)
    <2> SUFFICES ASSUME CasesInv, C!Next, NEW c \in CaseIds, investigator[c] # Nobody,
                        workflow[c] # "Closed", workflow'[c] = "Closed"
                 PROVE  workflow[c] = "InReview"
      OBVIOUS
    <2>1. C!ValidTransition(workflow[c], workflow'[c])
      BY CaseWorkflow
    <2>2. workflow[c] \in {"New", "InReview"}
      BY <2>1, CaseEdges
    <2>3. workflow[c] # "New"
      BY DEF CasesInv, AssignedIsNotNew
    <2> QED
      BY <2>2, <2>3
  <1> QED
    BY <1>1, CasesInvariance, PTL DEF CaseSpec, C!Spec, NoCloseWithoutReview, C!NoCloseWithoutReview

(* ReopenedByAssignment: a closed case comes back only as an assigned one, *)
(* with an investigator on it.                                             *)
THEOREM ReopenedByAssignmentHolds == CaseSpec => ReopenedByAssignment
  <1> USE CaseworkAssumption
  <1>1. CasesInv /\ [C!Next]_(C!vars) =>
          [\A c \in CaseIds :
             (workflow[c] = "Closed" /\ workflow'[c] # "Closed")
               => workflow'[c] = "Assigned" /\ investigator'[c] # Nobody]_(C!vars)
    <2> SUFFICES ASSUME CasesInv, C!Next, NEW c \in CaseIds,
                        workflow[c] = "Closed", workflow'[c] # "Closed"
                 PROVE  workflow'[c] = "Assigned" /\ investigator'[c] # Nobody
      OBVIOUS
    <2>1. ~C!ValidTransition(workflow[c], workflow'[c])
      BY CaseEdges
    <2>2. workflow[c] # Nobody
      BY DEF C!States, C!Assumption
    <2> QED
      BY <2>1, <2>2, CaseWorkflow DEF C!Assumption, C!States
  <1> QED
    BY <1>1, CasesInvariance, PTL DEF CaseSpec, C!Spec, ReopenedByAssignment, C!ReopenedByAssignment

-----------------------------------------------------------------------------
(***************************************************************************)
(* The response engine.                                                    *)
(***************************************************************************)
(* A task that is not idle has a request, ...                              *)
WorkHasRequest ==
  \A k \in Tasks : ~E!At(k, "idle") => work[k].request \in Requests

(* ... and one that holds an answer "Executed", or is between the act of   *)
(* the backend and its answer, has an act of the backend behind it that no *)
(* result claims yet.                                                      *)
IsActing(w, r) ==
  /\ w.request = r
  /\ w.pc = "acted" \/ (w.pc = "record" /\ w.status = "Executed")
Acting(r) == {k \in Tasks : IsActing(work[k], r)}
ActsCovered ==
  \A r \in Requests :
    E!Count(results, [request |-> r, status |-> "Executed"]) + Cardinality(Acting(r))
      <= E!Count(executed, r)

ResponseInv ==
  /\ E!TypeOK /\ WorkHasRequest
  /\ ActsCovered /\ SubmissionsAccounted /\ ResultsAnnounced

-----------------------------------------------------------------------------
(***************************************************************************)
(* Counting.                                                               *)
(***************************************************************************)
LEMMA CountNat ==
  ASSUME NEW S, NEW seq \in Seq(S), NEW x
  PROVE  E!Count(seq, x) \in Nat
  <1>1. E!Count(seq, x) = Cardinality(Places(seq, {x}))
    BY DEF E!Count, Places, E!Cardinality, Cardinality
  <1> QED BY <1>1, PlacesFinite

LEMMA CountAppend ==
  ASSUME NEW S, NEW seq \in Seq(S), NEW y \in S, NEW x
  PROVE  E!Count(Append(seq, y), x) = E!Count(seq, x) + (IF x = y THEN 1 ELSE 0)
  <1>1. /\ E!Count(seq, x) = Cardinality(Places(seq, {x}))
        /\ E!Count(Append(seq, y), x) = Cardinality(Places(Append(seq, y), {x}))
    BY DEF E!Count, Places, E!Cardinality, Cardinality
  <1>2. Cardinality(Places(Append(seq, y), {x}))
          = Cardinality(Places(seq, {x})) + (IF y \in {x} THEN 1 ELSE 0)
    BY PlacesAppend
  <1> QED BY <1>1, <1>2

SettledIn(res, r) == Cardinality({n \in 1..Len(res) : res[n].request = r})

LEMMA SettledPlaces ==
  ASSUME NEW res \in Seq(E!Results), NEW r
  PROVE  SettledIn(res, r) = Cardinality(Places(res, {x \in E!Results : x.request = r}))
  <1>1. {n \in 1..Len(res) : res[n].request = r} = Places(res, {x \in E!Results : x.request = r})
    BY DEF Places
  <1> QED BY <1>1 DEF SettledIn

LEMMA SettledAppend ==
  ASSUME NEW res \in Seq(E!Results), NEW y \in E!Results, NEW r
  PROVE  SettledIn(Append(res, y), r) = SettledIn(res, r) + (IF r = y.request THEN 1 ELSE 0)
  <1> DEFINE V == {x \in E!Results : x.request = r}
  <1>1. Append(res, y) \in Seq(E!Results) /\ (y \in V <=> r = y.request)
    OBVIOUS
  <1> HIDE DEF V
  <1>2. Cardinality(Places(Append(res, y), V)) = Cardinality(Places(res, V)) + (IF y \in V THEN 1 ELSE 0)
    BY PlacesAppend
  <1>3. SettledIn(res, r) = Cardinality(Places(res, V))
        /\ SettledIn(Append(res, y), r) = Cardinality(Places(Append(res, y), V))
    BY <1>1, SettledPlaces DEF V
  <1> QED BY <1>1, <1>2, <1>3

LEMMA TasksFinite == IsFiniteSet(Tasks)
  BY ResponseAssumption DEF E!Assumption, E!IsFiniteSet, IsFiniteSet

LEMMA ForeignKinds == \A e \in Foreign : e.kind \notin E!OwnKinds
  BY ResponseAssumption DEF E!Assumption

(* The tasks that do something: a step of one of them changes their number *)
(* by one at most.                                                         *)
LEMMA TasksStep ==
  ASSUME NEW S \in SUBSET Tasks, NEW T \in SUBSET Tasks, NEW k \in Tasks, S \ {k} = T \ {k}
  PROVE  /\ Cardinality(S) \in Nat /\ Cardinality(T) \in Nat
         /\ Cardinality(T) + (IF k \in S THEN 1 ELSE 0) = Cardinality(S) + (IF k \in T THEN 1 ELSE 0)
  <1>1. IsFiniteSet(S)
    BY TasksFinite, FS_Subset
  <1> QED BY <1>1, OneOff

IsPending(w, r) == w.pc \in {"await", "acted", "record"} /\ w.request = r
Pending(r) == {k \in Tasks : IsPending(work[k], r)}

IsAnnouncing(w, x) == w.pc = "announce" /\ [request |-> w.request, status |-> w.status] = x
Announcing(x) == {k \in Tasks : IsAnnouncing(work[k], x)}

(* The invariants in these terms.                                          *)
Accounted ==
  \A r \in Requests :
    SettledIn(results, r) + Cardinality(Pending(r)) + dropped[r] = E!Count(requests, r)
Announced ==
  \A x \in E!Results : E!Count(results, x) = E!Count(feed, E!EventOf(x)) + Cardinality(Announcing(x))

LEMMA Restated == (SubmissionsAccounted <=> Accounted) /\ (ResultsAnnounced <=> Announced)
  <1>1. \A r : E!Busy({"await", "acted", "record"}, r) = Cardinality(Pending(r))
    BY DEF E!Busy, Pending, IsPending, E!Cardinality, Cardinality
  <1>2. \A x : {k \in Tasks : E!At(k, "announce") /\ E!ResultOf(k) = x} = Announcing(x)
    BY DEF Announcing, IsAnnouncing, E!At, E!ResultOf
  <1> QED
    BY <1>1, <1>2
       DEF SubmissionsAccounted, ResultsAnnounced, E!SubmissionsAccounted, E!ResultsAnnounced,
           Accounted, Announced, E!Settled, SettledIn, E!Cardinality, Cardinality

(* A step of the task k leaves the others where they are.                  *)
Alone(k) == \A q \in Tasks : q # k => work'[q] = work[q]

LEMMA Moves ==
  ASSUME NEW k \in Tasks, Alone(k)
  PROVE  /\ \A r : /\ Cardinality(Acting(r)) \in Nat /\ Cardinality(Acting(r)') \in Nat
                   /\ Cardinality(Acting(r)') + (IF IsActing(work[k], r) THEN 1 ELSE 0)
                        = Cardinality(Acting(r)) + (IF IsActing(work'[k], r) THEN 1 ELSE 0)
         /\ \A r : /\ Cardinality(Pending(r)) \in Nat /\ Cardinality(Pending(r)') \in Nat
                   /\ Cardinality(Pending(r)') + (IF IsPending(work[k], r) THEN 1 ELSE 0)
                        = Cardinality(Pending(r)) + (IF IsPending(work'[k], r) THEN 1 ELSE 0)
         /\ \A x : /\ Cardinality(Announcing(x)) \in Nat /\ Cardinality(Announcing(x)') \in Nat
                   /\ Cardinality(Announcing(x)') + (IF IsAnnouncing(work[k], x) THEN 1 ELSE 0)
                        = Cardinality(Announcing(x)) + (IF IsAnnouncing(work'[k], x) THEN 1 ELSE 0)
  <1>1. ASSUME NEW r
        PROVE  /\ Acting(r) \subseteq Tasks /\ Acting(r)' \subseteq Tasks
               /\ Acting(r) \ {k} = Acting(r)' \ {k}
               /\ k \in Acting(r) <=> IsActing(work[k], r)
               /\ k \in Acting(r)' <=> IsActing(work'[k], r)
    BY DEF Acting, Alone, IsActing
  <1>2. ASSUME NEW r
        PROVE  /\ Pending(r) \subseteq Tasks /\ Pending(r)' \subseteq Tasks
               /\ Pending(r) \ {k} = Pending(r)' \ {k}
               /\ k \in Pending(r) <=> IsPending(work[k], r)
               /\ k \in Pending(r)' <=> IsPending(work'[k], r)
    BY DEF Pending, Alone, IsPending
  <1>3. ASSUME NEW x
        PROVE  /\ Announcing(x) \subseteq Tasks /\ Announcing(x)' \subseteq Tasks
               /\ Announcing(x) \ {k} = Announcing(x)' \ {k}
               /\ k \in Announcing(x) <=> IsAnnouncing(work[k], x)
               /\ k \in Announcing(x)' <=> IsAnnouncing(work'[k], x)
    BY DEF Announcing, Alone, IsAnnouncing
  <1>4. ASSUME NEW S \in SUBSET Tasks, NEW T \in SUBSET Tasks, S \ {k} = T \ {k}
        PROVE  /\ Cardinality(S) \in Nat /\ Cardinality(T) \in Nat
               /\ Cardinality(T) + (IF k \in S THEN 1 ELSE 0) = Cardinality(S) + (IF k \in T THEN 1 ELSE 0)
    BY <1>4, TasksStep
  <1> QED BY <1>1, <1>2, <1>3, <1>4

-----------------------------------------------------------------------------
(***************************************************************************)
(* The inductive invariant.                                                *)
(***************************************************************************)
LEMMA InitResponse == E!Init => ResponseInv
  <1> SUFFICES ASSUME E!Init PROVE ResponseInv
    OBVIOUS
  <1>1. \A k \in Tasks : work[k] = E!Idle
    BY DEF E!Init
  <1>2. E!TypeOK /\ WorkHasRequest
    BY <1>1 DEF E!Init, E!TypeOK, WorkHasRequest, E!Idle, E!At, E!Statuses
  <1>3. \A x : E!Count(requests, x) = 0 /\ E!Count(executed, x) = 0 /\ E!Count(results, x) = 0
             /\ E!Count(feed, x) = 0
    <2>1. ASSUME NEW x, NEW seq, seq = <<>> PROVE E!Count(seq, x) = 0
      <3>1. {n \in 1..Len(seq) : seq[n] = x} = {}
        BY <2>1
      <3> QED BY <3>1, FS_EmptySet DEF E!Count, E!Cardinality, Cardinality
    <2> QED BY <2>1 DEF E!Init
  <1>4. \A r : E!Settled(r) = 0
    <2>1. \A r : {n \in 1..Len(results) : results[n].request = r} = {}
      BY DEF E!Init
    <2> QED BY <2>1, FS_EmptySet DEF E!Settled, E!Cardinality, Cardinality
  <1>5. \A r : Cardinality(Acting(r)) = 0 /\ Cardinality(Announcing(r)) = 0
             /\ Cardinality(Pending(r)) = 0
    <2>1. \A r : Acting(r) = {} /\ Announcing(r) = {} /\ Pending(r) = {}
      <3>0. E!Idle.pc = "idle"
        BY DEF E!Idle
      <3>1. \A k \in Tasks : work[k].pc = "idle"
        BY <1>1, <3>0
      <3> QED BY <3>1 DEF Acting, Announcing, Pending, IsActing, IsAnnouncing, IsPending
    <2> QED BY <2>1, FS_EmptySet
  <1>6. ActsCovered
    BY <1>3, <1>5 DEF ActsCovered
  <1>7. SubmissionsAccounted
    <2> SUFFICES ASSUME NEW r \in Requests
                 PROVE  E!Settled(r) + E!Busy({"await", "acted", "record"}, r) + dropped[r]
                          = E!Count(requests, r)
      BY DEF SubmissionsAccounted, E!SubmissionsAccounted
    <2>1. dropped[r] = 0
      BY DEF E!Init
    <2>2. E!Busy({"await", "acted", "record"}, r) = 0
      BY <1>5 DEF E!Busy, Pending, IsPending, E!Cardinality, Cardinality
    <2> QED BY <1>3, <1>4, <2>1, <2>2
  <1>8. ResultsAnnounced
    <2>1. Announced
      BY <1>3, <1>5 DEF Announced
    <2> QED BY <2>1, Restated
  <1> QED BY <1>2, <1>6, <1>7, <1>8 DEF ResponseInv

Worker == [pc : {"idle", "await", "acted", "record", "announce", "returned"},
           request : Requests \cup {NoRequest}, status : E!Statuses]

(* What one task does to the work of all.                                  *)
LEMMA WorkStep ==
  ASSUME E!TypeOK, WorkHasRequest, NEW k \in Tasks, NEW w \in Worker,
         w.pc # "idle" => w.request \in Requests,
         work' = [work EXCEPT ![k] = w]
  PROVE  /\ work' \in [Tasks -> Worker] /\ WorkHasRequest'
         /\ Alone(k) /\ work'[k] = w
  <1>1. work \in [Tasks -> Worker]
    BY DEF E!TypeOK, Worker
  <1>2. Alone(k) /\ work'[k] = w /\ work' \in [Tasks -> Worker]
    BY <1>1 DEF Alone
  <1>3. WorkHasRequest'
    BY <1>2 DEF WorkHasRequest, Alone, E!At
  <1> QED BY <1>2, <1>3

(* The record of a task that moves on.                                     *)
LEMMA MovedOn ==
  ASSUME E!TypeOK, WorkHasRequest, NEW k \in Tasks, ~E!At(k, "idle"),
         NEW pc \in {"idle", "await", "acted", "record", "announce", "returned"},
         NEW st \in E!Statuses
  PROVE  /\ work[k].request \in Requests /\ work[k].status \in E!Statuses
         /\ [pc |-> pc, request |-> work[k].request, status |-> st] \in Worker
         /\ [work EXCEPT ![k].pc = pc, ![k].status = st]
              = [work EXCEPT ![k] = [pc |-> pc, request |-> work[k].request, status |-> st]]
         /\ [work EXCEPT ![k].pc = pc]
              = [work EXCEPT ![k] = [pc |-> pc, request |-> work[k].request, status |-> work[k].status]]
  <1>1. work \in [Tasks -> Worker]
    BY DEF E!TypeOK, Worker
  <1>2. work[k] \in Worker /\ work[k].request \in Requests /\ work[k].status \in E!Statuses
    BY <1>1 DEF WorkHasRequest, Worker
  <1>3. [work[k] EXCEPT !.pc = pc]
          = [pc |-> pc, request |-> work[k].request, status |-> work[k].status]
    BY <1>2 DEF Worker
  <1>4. [work[k] EXCEPT !.pc = pc, !.status = st]
          = [pc |-> pc, request |-> work[k].request, status |-> st]
    <2> DEFINE w == work[k]
    <2>1. [w EXCEPT !.pc = pc, !.status = st]
            = [[pc |-> pc, request |-> w.request, status |-> w.status] EXCEPT !.status = st]
      BY <1>3
    <2> QED BY <2>1
  <1>5. [work EXCEPT ![k].pc = pc] = [work EXCEPT ![k] = [work[k] EXCEPT !.pc = pc]]
    BY <1>1
  <1>6. [work EXCEPT ![k].pc = pc, ![k].status = st]
          = [work EXCEPT ![k] = [work[k] EXCEPT !.pc = pc, !.status = st]]
    BY <1>1
  <1>7. [pc |-> pc, request |-> work[k].request, status |-> st] \in Worker
    BY <1>2 DEF Worker
  <1> QED BY <1>2, <1>3, <1>4, <1>5, <1>6, <1>7

-----------------------------------------------------------------------------
(***************************************************************************)
(* The steps.                                                              *)
(***************************************************************************)
(* What the typed logs are to the counting lemmas.                         *)
LEMMA Logs ==
  ASSUME E!TypeOK
  PROVE  /\ requests \in Seq(Requests) /\ executed \in Seq(Requests) /\ results \in Seq(E!Results)
         /\ feed \in Seq(Foreign \cup [kind : E!OwnKinds, of : Requests, status : E!Statuses])
         /\ \A x : /\ E!Count(requests, x) \in Nat /\ E!Count(executed, x) \in Nat
                  /\ E!Count(results, x) \in Nat /\ E!Count(feed, x) \in Nat
         /\ \A r : SettledIn(results, r) \in Nat
  <1>1. /\ requests \in Seq(Requests) /\ executed \in Seq(Requests) /\ results \in Seq(E!Results)
        /\ feed \in Seq(Foreign \cup [kind : E!OwnKinds, of : Requests, status : E!Statuses])
    BY DEF E!TypeOK
  <1>2. \A x : /\ E!Count(requests, x) \in Nat /\ E!Count(executed, x) \in Nat
             /\ E!Count(results, x) \in Nat /\ E!Count(feed, x) \in Nat
    BY <1>1, CountNat
  <1>3. \A r : SettledIn(results, r) \in Nat
    <2> SUFFICES ASSUME NEW r PROVE SettledIn(results, r) \in Nat
      OBVIOUS
    <2>1. SettledIn(results, r) = Cardinality(Places(results, {x \in E!Results : x.request = r}))
      BY <1>1, SettledPlaces
    <2> DEFINE V == {x \in E!Results : x.request = r}
    <2> HIDE DEF V
    <2>2. Cardinality(Places(results, V)) \in Nat
      BY <1>1, PlacesFinite
    <2> QED BY <2>1, <2>2 DEF V
  <1> QED BY <1>1, <1>2, <1>3

(* The invariant, in the terms in which its steps are counted.             *)
Typed   == E!TypeOK /\ WorkHasRequest
Counted == ActsCovered /\ Accounted /\ Announced

LEMMA ResponseNow  == ResponseInv <=> Typed /\ Counted
  BY Restated DEF ResponseInv, Typed, Counted
LEMMA ResponseNext == ResponseInv' <=> Typed' /\ Counted'
  BY ResponseNow, PTL

LEMMA ExecuteStep ==
  ASSUME Typed, Counted, NEW k \in Tasks, NEW r \in Requests, E!Execute(k, r)
  PROVE  Typed' /\ Counted'
  <1> DEFINE w == [pc |-> "await", request |-> r, status |-> "Failed"]
  <1>1. E!TypeOK /\ WorkHasRequest
    BY DEF Typed
  <1>2. w \in Worker /\ work' = [work EXCEPT ![k] = w]
    <2>1. [E!Idle EXCEPT !.pc = "await", !.request = r] = w
      <3>1. [E!Idle EXCEPT !.pc = "await"] = [pc |-> "await", request |-> NoRequest, status |-> "Failed"]
        BY DEF E!Idle
      <3>2. [E!Idle EXCEPT !.pc = "await", !.request = r]
              = [[pc |-> "await", request |-> NoRequest, status |-> "Failed"] EXCEPT !.request = r]
        BY <3>1
      <3> QED BY <3>2
    <2>2. w \in Worker
      BY DEF Worker, E!Statuses
    <2> QED BY <2>1, <2>2 DEF E!Execute
  <1>3. work' \in [Tasks -> Worker] /\ WorkHasRequest' /\ Alone(k) /\ work'[k] = w
    BY <1>1, <1>2, WorkStep
  <1>4. Typed'
    BY <1>1, <1>3 DEF Typed, E!TypeOK, Worker, E!Execute
  <1>5. \A x : E!Count(requests', x) = E!Count(requests, x) + (IF x = r THEN 1 ELSE 0)
    BY <1>1, Logs, CountAppend DEF E!Execute
  <1>6. /\ \A q : Cardinality(Acting(q)') = Cardinality(Acting(q))
        /\ \A q : Cardinality(Pending(q)') = Cardinality(Pending(q)) + (IF q = r THEN 1 ELSE 0)
        /\ \A x : Cardinality(Announcing(x)') = Cardinality(Announcing(x))
    <2>1. work[k].pc = "idle"
      BY DEF E!Execute, E!At
    <2>2. \A q : ~IsActing(work[k], q) /\ ~IsActing(w, q)
      BY <2>1 DEF IsActing
    <2>3. \A q : ~IsPending(work[k], q) /\ (IsPending(w, q) <=> q = r)
      BY <2>1 DEF IsPending
    <2>4. \A x : ~IsAnnouncing(work[k], x) /\ ~IsAnnouncing(w, x)
      BY <2>1 DEF IsAnnouncing
    <2> HIDE DEF w
    <2> QED BY <1>3, <2>2, <2>3, <2>4, Moves
  <1>7. ActsCovered' /\ Announced'
    BY <1>6 DEF Counted, ActsCovered, Announced, E!Execute
  <1>8. Accounted'
    <2> SUFFICES ASSUME NEW q \in Requests
                 PROVE  SettledIn(results', q) + Cardinality(Pending(q)') + dropped'[q]
                          = E!Count(requests', q)
      BY DEF Accounted
    <2>1. SettledIn(results, q) + Cardinality(Pending(q)) + dropped[q] = E!Count(requests, q)
      BY DEF Counted, Accounted
    <2>2. results' = results /\ dropped' = dropped /\ dropped[q] \in Nat
      BY <1>1 DEF E!Execute, E!TypeOK
    <2>3. SettledIn(results, q) \in Nat /\ E!Count(requests, q) \in Nat /\ Cardinality(Pending(q)) \in Nat
      BY <1>1, <1>3, Logs, Moves
    <2> QED BY <1>5, <1>6, <2>1, <2>2, <2>3
  <1> QED BY <1>4, <1>7, <1>8 DEF Counted

LEMMA ActStep ==
  ASSUME Typed, Counted, NEW k \in Tasks, E!Act(k)
  PROVE  Typed' /\ Counted'
  <1> DEFINE r == work[k].request
             w == [pc |-> "acted", request |-> r, status |-> work[k].status]
  <1>1. E!TypeOK /\ WorkHasRequest
    BY DEF Typed
  <1>2. work[k].pc = "await"
    BY DEF E!Act, E!At
  <1>3. r \in Requests /\ w \in Worker /\ work' = [work EXCEPT ![k] = w]
    <2>1. ~E!At(k, "idle")
      BY <1>2 DEF E!At
    <2>2. work' = [work EXCEPT ![k].pc = "acted"]
      BY DEF E!Act
    <2>3. work[k].status \in E!Statuses
      BY <1>1 DEF E!TypeOK
    <2> QED BY <1>1, <2>1, <2>2, <2>3, MovedOn
  <1>4. work' \in [Tasks -> Worker] /\ WorkHasRequest' /\ Alone(k) /\ work'[k] = w
    BY <1>1, <1>3, WorkStep
  <1>5. Typed'
    BY <1>1, <1>3, <1>4 DEF Typed, E!TypeOK, Worker, E!Act
  <1>6. /\ \A q : Cardinality(Acting(q)') = Cardinality(Acting(q))
               + (IF q = r THEN 1 ELSE 0)
        /\ \A q : Cardinality(Pending(q)') = Cardinality(Pending(q))
        /\ \A x : Cardinality(Announcing(x)') = Cardinality(Announcing(x))
    <2>1. \A q : ~IsActing(work[k], q) /\ (IsActing(w, q) <=> q = r)
      BY <1>2 DEF IsActing
    <2>2. \A q : (IsPending(work[k], q) <=> q = r) /\ (IsPending(w, q) <=> q = r)
      BY <1>2 DEF IsPending
    <2>3. \A x : ~IsAnnouncing(work[k], x) /\ ~IsAnnouncing(w, x)
      BY <1>2 DEF IsAnnouncing
    <2> HIDE DEF w
    <2> QED BY <1>4, <2>1, <2>2, <2>3, Moves
  <1>7. ActsCovered'
    <2> SUFFICES ASSUME NEW q \in Requests
                 PROVE  E!Count(results', [request |-> q, status |-> "Executed"]) + Cardinality(Acting(q)')
                          <= E!Count(executed', q)
      BY DEF ActsCovered
    <2> DEFINE n == E!Count(results, [request |-> q, status |-> "Executed"])
    <2>1. n \in Nat /\ E!Count(executed, q) \in Nat /\ Cardinality(Acting(q)) \in Nat
      BY <1>1, <1>4, Logs, Moves
    <2>2. n + Cardinality(Acting(q)) <= E!Count(executed, q)
      BY DEF Counted, ActsCovered
    <2>3. E!Count(executed', q) = E!Count(executed, q) + (IF q = r THEN 1 ELSE 0)
      BY <1>1, <1>3, Logs, CountAppend DEF E!Act
    <2>4. results' = results
      BY DEF E!Act
    <2> QED BY <1>6, <2>1, <2>2, <2>3, <2>4
  <1>8. Accounted'
    BY <1>6 DEF Counted, Accounted, E!Act
  <1>9. Announced'
    BY <1>6 DEF Counted, Announced, E!Act
  <1> QED BY <1>5, <1>7, <1>8, <1>9 DEF Counted

LEMMA AbandonStep ==
  ASSUME Typed, Counted, NEW k \in Tasks, E!Abandon(k)
  PROVE  Typed' /\ Counted'
  <1> DEFINE r == work[k].request
             w == E!Idle
  <1>1. E!TypeOK /\ WorkHasRequest
    BY DEF Typed
  <1>2. work[k].pc \in {"await", "acted"}
    BY DEF E!Abandon, E!At
  <1>3. r \in Requests /\ w \in Worker /\ w.pc = "idle" /\ work' = [work EXCEPT ![k] = w]
    BY <1>1, <1>2 DEF E!Abandon, E!Idle, Worker, E!Statuses, WorkHasRequest, E!At
  <1>4. work' \in [Tasks -> Worker] /\ WorkHasRequest' /\ Alone(k) /\ work'[k] = w
    BY <1>1, <1>3, WorkStep
  <1>5. Typed'
    BY <1>1, <1>3, <1>4 DEF Typed, E!TypeOK, Worker, E!Abandon
  <1>6. /\ \A q : Cardinality(Acting(q)') <= Cardinality(Acting(q))
        /\ \A q : Cardinality(Pending(q)') + (IF q = r THEN 1 ELSE 0) = Cardinality(Pending(q))
        /\ \A x : Cardinality(Announcing(x)') = Cardinality(Announcing(x))
    <2>1. \A q : ~IsActing(w, q)
      BY <1>2, <1>3 DEF IsActing
    <2>2. \A q : (IsPending(work[k], q) <=> q = r) /\ ~IsPending(w, q)
      BY <1>2, <1>3 DEF IsPending
    <2>3. \A x : ~IsAnnouncing(work[k], x) /\ ~IsAnnouncing(w, x)
      BY <1>2, <1>3 DEF IsAnnouncing
    <2> HIDE DEF w
    <2> QED BY <1>4, <2>1, <2>2, <2>3, Moves
  <1>7. ActsCovered'
    <2> SUFFICES ASSUME NEW q \in Requests
                 PROVE  E!Count(results', [request |-> q, status |-> "Executed"]) + Cardinality(Acting(q)')
                          <= E!Count(executed', q)
      BY DEF ActsCovered
    <2> DEFINE n == E!Count(results, [request |-> q, status |-> "Executed"])
    <2>1. n \in Nat /\ E!Count(executed, q) \in Nat
          /\ Cardinality(Acting(q)) \in Nat /\ Cardinality(Acting(q)') \in Nat
      BY <1>1, <1>4, Logs, Moves
    <2>2. n + Cardinality(Acting(q)) <= E!Count(executed, q)
      BY DEF Counted, ActsCovered
    <2>3. results' = results /\ executed' = executed
      BY DEF E!Abandon
    <2> QED BY <1>6, <2>1, <2>2, <2>3
  <1>8. Accounted'
    <2> SUFFICES ASSUME NEW q \in Requests
                 PROVE  SettledIn(results', q) + Cardinality(Pending(q)') + dropped'[q]
                          = E!Count(requests', q)
      BY DEF Accounted
    <2>1. SettledIn(results, q) + Cardinality(Pending(q)) + dropped[q] = E!Count(requests, q)
      BY DEF Counted, Accounted
    <2>2. /\ results' = results /\ requests' = requests /\ dropped[q] \in Nat
          /\ dropped'[q] = dropped[q] + (IF q = r THEN 1 ELSE 0)
      BY <1>1, <1>3 DEF E!Abandon, E!TypeOK
    <2>3. /\ SettledIn(results, q) \in Nat /\ E!Count(requests, q) \in Nat
          /\ Cardinality(Pending(q)) \in Nat /\ Cardinality(Pending(q)') \in Nat
      BY <1>1, <1>4, Logs, Moves
    <2> QED BY <1>6, <2>1, <2>2, <2>3
  <1>9. Announced'
    BY <1>6 DEF Counted, Announced, E!Abandon
  <1> QED BY <1>5, <1>7, <1>8, <1>9 DEF Counted

LEMMA RecordResultStep ==
  ASSUME Typed, Counted, NEW k \in Tasks, E!Record(k)
  PROVE  Typed' /\ Counted'
  <1> DEFINE r == work[k].request
             w == [pc |-> "announce", request |-> r, status |-> work[k].status]
  <1>1. E!TypeOK /\ WorkHasRequest
    BY DEF Typed
  <1>2. work[k].pc = "record"
    BY DEF E!Record, E!At
  <1>3. r \in Requests /\ w \in Worker /\ work' = [work EXCEPT ![k] = w]
    <2>1. ~E!At(k, "idle")
      BY <1>2 DEF E!At
    <2>2. work' = [work EXCEPT ![k].pc = "announce"]
      BY DEF E!Record
    <2>3. work[k].status \in E!Statuses
      BY <1>1 DEF E!TypeOK
    <2> QED BY <1>1, <2>1, <2>2, <2>3, MovedOn
  <1>4. work' \in [Tasks -> Worker] /\ WorkHasRequest' /\ Alone(k) /\ work'[k] = w
    BY <1>1, <1>3, WorkStep
  <1>5. Typed'
    BY <1>1, <1>3, <1>4 DEF Typed, E!TypeOK, Worker, E!Record, E!ResultOf, E!Results
  <1>6. /\ \A q : Cardinality(Acting(q)') + (IF q = r /\ work[k].status = "Executed" THEN 1 ELSE 0)
               = Cardinality(Acting(q))
        /\ \A q : Cardinality(Pending(q)') + (IF q = r THEN 1 ELSE 0) = Cardinality(Pending(q))
        /\ \A x : Cardinality(Announcing(x)') = Cardinality(Announcing(x))
                                                + (IF x = E!ResultOf(k) THEN 1 ELSE 0)
    <2>1. \A q : (IsActing(work[k], q) <=> q = r /\ work[k].status = "Executed") /\ ~IsActing(w, q)
      BY <1>2 DEF IsActing
    <2>2. \A q : (IsPending(work[k], q) <=> q = r) /\ ~IsPending(w, q)
      BY <1>2 DEF IsPending
    <2>3. \A x : ~IsAnnouncing(work[k], x) /\ (IsAnnouncing(w, x) <=> x = E!ResultOf(k))
      BY <1>2 DEF IsAnnouncing, E!ResultOf
    <2> HIDE DEF w
    <2> QED BY <1>4, <2>1, <2>2, <2>3, Moves
  <1>res. /\ E!ResultOf(k) \in E!Results /\ E!ResultOf(k).request = r
          /\ results' = Append(results, E!ResultOf(k)) /\ results \in Seq(E!Results)
          /\ \A q : E!ResultOf(k) = [request |-> q, status |-> "Executed"]
                    <=> q = r /\ work[k].status = "Executed"
    <2>1. work[k].status \in E!Statuses
      BY <1>1 DEF E!TypeOK
    <2> QED BY <1>1, <1>2, <1>3, <2>1 DEF E!Record, E!ResultOf, E!Results, E!TypeOK
  <1>7. ActsCovered'
    <2> SUFFICES ASSUME NEW q \in Requests
                 PROVE  E!Count(results', [request |-> q, status |-> "Executed"]) + Cardinality(Acting(q)')
                          <= E!Count(executed', q)
      BY DEF ActsCovered
    <2> DEFINE x == [request |-> q, status |-> "Executed"]
    <2>1. /\ E!Count(results, x) \in Nat /\ E!Count(executed, q) \in Nat
          /\ Cardinality(Acting(q)) \in Nat /\ Cardinality(Acting(q)') \in Nat
      BY <1>1, <1>4, Logs, Moves
    <2>2. E!Count(results, x) + Cardinality(Acting(q)) <= E!Count(executed, q)
      BY DEF Counted, ActsCovered
    <2>3. E!Count(results', x) = E!Count(results, x) + (IF x = E!ResultOf(k) THEN 1 ELSE 0)
      BY <1>res, CountAppend
    <2>4. executed' = executed
      BY DEF E!Record
    <2>5. x = E!ResultOf(k) <=> q = r /\ work[k].status = "Executed"
      BY <1>res
    <2> HIDE DEF x
    <2>6. E!Count(results', x) + Cardinality(Acting(q)') <= E!Count(executed', q)
      BY <1>6, <2>1, <2>2, <2>3, <2>4, <2>5
    <2> QED BY <2>6 DEF x
  <1>8. Accounted'
    <2> SUFFICES ASSUME NEW q \in Requests
                 PROVE  SettledIn(results', q) + Cardinality(Pending(q)') + dropped'[q]
                          = E!Count(requests', q)
      BY DEF Accounted
    <2>1. SettledIn(results, q) + Cardinality(Pending(q)) + dropped[q] = E!Count(requests, q)
      BY DEF Counted, Accounted
    <2>2. requests' = requests /\ dropped' = dropped /\ dropped[q] \in Nat
      BY <1>1 DEF E!Record, E!TypeOK
    <2>3. /\ SettledIn(results, q) \in Nat /\ E!Count(requests, q) \in Nat
          /\ Cardinality(Pending(q)) \in Nat /\ Cardinality(Pending(q)') \in Nat
      BY <1>1, <1>4, Logs, Moves
    <2>4. SettledIn(results', q) = SettledIn(results, q) + (IF q = r THEN 1 ELSE 0)
      BY <1>res, SettledAppend
    <2> QED BY <1>6, <2>1, <2>2, <2>3, <2>4
  <1>9. Announced'
    <2> SUFFICES ASSUME NEW x \in E!Results
                 PROVE  E!Count(results', x) = E!Count(feed', E!EventOf(x)) + Cardinality(Announcing(x)')
      BY DEF Announced
    <2>1. E!Count(results, x) = E!Count(feed, E!EventOf(x)) + Cardinality(Announcing(x))
      BY DEF Counted, Announced
    <2>2. E!Count(results', x) = E!Count(results, x) + (IF x = E!ResultOf(k) THEN 1 ELSE 0)
      BY <1>res, CountAppend
    <2>3. feed' = feed
      BY DEF E!Record
    <2>4. /\ E!Count(feed, E!EventOf(x)) \in Nat /\ E!Count(results, x) \in Nat
          /\ Cardinality(Announcing(x)) \in Nat
      BY <1>1, <1>4, Logs, Moves
    <2> QED BY <1>6, <2>1, <2>2, <2>3, <2>4
  <1> QED BY <1>5, <1>7, <1>8, <1>9 DEF Counted

LEMMA AnswerStep ==
  ASSUME Typed, Counted, NEW k \in Tasks, NEW ok \in BOOLEAN, E!Answer(k, ok)
  PROVE  Typed' /\ Counted'
  <1> DEFINE r == work[k].request
             w == [pc |-> "record", request |-> r, status |-> E!StatusOf(ok)]
  <1>1. E!TypeOK /\ WorkHasRequest
    BY DEF Typed
  <1>2. work[k].pc = "acted" \/ (work[k].pc = "await" /\ ~ok)
    BY DEF E!Answer, E!At
  <1>3. r \in Requests /\ w \in Worker /\ work' = [work EXCEPT ![k] = w]
    <2>1. ~E!At(k, "idle")
      BY <1>2 DEF E!At
    <2>2. work' = [work EXCEPT ![k].pc = "record", ![k].status = E!StatusOf(ok)]
      BY DEF E!Answer
    <2>3. E!StatusOf(ok) \in E!Statuses
      BY <1>1 DEF E!StatusOf, E!Statuses
    <2> QED BY <1>1, <2>1, <2>2, <2>3, MovedOn
  <1>4. work' \in [Tasks -> Worker] /\ WorkHasRequest' /\ Alone(k) /\ work'[k] = w
    BY <1>1, <1>3, WorkStep
  <1>5. Typed'
    BY <1>1, <1>3, <1>4 DEF Typed, E!TypeOK, Worker, E!Answer
  <1>6. /\ \A q : Cardinality(Acting(q)') <= Cardinality(Acting(q))
        /\ \A q : Cardinality(Pending(q)') = Cardinality(Pending(q))
        /\ \A x : Cardinality(Announcing(x)') = Cardinality(Announcing(x))
    <2>1. \A q : IsActing(w, q) => IsActing(work[k], q)
      BY <1>2 DEF IsActing, E!StatusOf
    <2>2. \A q : (IsPending(work[k], q) <=> q = r) /\ (IsPending(w, q) <=> q = r)
      BY <1>2 DEF IsPending
    <2>3. \A x : ~IsAnnouncing(work[k], x) /\ ~IsAnnouncing(w, x)
      BY <1>2 DEF IsAnnouncing
    <2> HIDE DEF w
    <2> QED BY <1>4, <2>1, <2>2, <2>3, Moves
  <1>7. ActsCovered'
    <2> SUFFICES ASSUME NEW q \in Requests
                 PROVE  E!Count(results', [request |-> q, status |-> "Executed"]) + Cardinality(Acting(q)')
                          <= E!Count(executed', q)
      BY DEF ActsCovered
    <2> DEFINE n == E!Count(results, [request |-> q, status |-> "Executed"])
    <2>1. n \in Nat /\ E!Count(executed, q) \in Nat
          /\ Cardinality(Acting(q)) \in Nat /\ Cardinality(Acting(q)') \in Nat
      BY <1>1, <1>4, Logs, Moves
    <2>2. n + Cardinality(Acting(q)) <= E!Count(executed, q)
      BY DEF Counted, ActsCovered
    <2>3. results' = results /\ executed' = executed
      BY DEF E!Answer
    <2> QED BY <1>6, <2>1, <2>2, <2>3
  <1>8. Accounted'
    BY <1>6 DEF Counted, Accounted, E!Answer
  <1>9. Announced'
    BY <1>6 DEF Counted, Announced, E!Answer
  <1> QED BY <1>5, <1>7, <1>8, <1>9 DEF Counted

(* Events tell results apart, and those of this engine from all others.    *)
LEMMA EventsDiffer ==
  /\ \A x \in E!Results : E!EventOf(x) \in [kind : E!OwnKinds, of : Requests, status : E!Statuses]
  /\ \A x, y \in E!Results : E!EventOf(x) = E!EventOf(y) => x = y
  /\ \A x \in E!Results : E!EventOf(x) \notin Foreign
  <1>1. ASSUME NEW x \in E!Results
        PROVE  /\ E!EventOf(x) \in [kind : E!OwnKinds, of : Requests, status : E!Statuses]
               /\ E!EventOf(x).of = x.request /\ E!EventOf(x).status = x.status
               /\ E!EventOf(x).kind \in E!OwnKinds
               /\ x = [request |-> x.request, status |-> x.status]
    BY DEF E!EventOf, E!Results, E!OwnKinds
  <1> QED BY <1>1, ForeignKinds

LEMMA AnnounceStep ==
  ASSUME Typed, Counted, NEW k \in Tasks, E!Announce(k)
  PROVE  Typed' /\ Counted'
  <1> DEFINE r == work[k].request
             w == [pc |-> "returned", request |-> r, status |-> work[k].status]
  <1>1. E!TypeOK /\ WorkHasRequest
    BY DEF Typed
  <1>2. work[k].pc = "announce"
    BY DEF E!Announce, E!At
  <1>3. r \in Requests /\ w \in Worker /\ work' = [work EXCEPT ![k] = w]
    <2>1. ~E!At(k, "idle")
      BY <1>2 DEF E!At
    <2>2. work' = [work EXCEPT ![k].pc = "returned"]
      BY DEF E!Announce
    <2>3. work[k].status \in E!Statuses
      BY <1>1 DEF E!TypeOK
    <2> QED BY <1>1, <2>1, <2>2, <2>3, MovedOn
  <1>4. work' \in [Tasks -> Worker] /\ WorkHasRequest' /\ Alone(k) /\ work'[k] = w
    BY <1>1, <1>3, WorkStep
  <1>ev. /\ E!ResultOf(k) \in E!Results
         /\ E!EventOf(E!ResultOf(k)) \in [kind : E!OwnKinds, of : Requests, status : E!Statuses]
    <2>1. work[k].status \in E!Statuses
      BY <1>1 DEF E!TypeOK
    <2>2. E!ResultOf(k) \in E!Results
      BY <1>3, <2>1 DEF E!ResultOf, E!Results
    <2> QED BY <2>2, EventsDiffer
  <1>5. Typed'
    BY <1>1, <1>4, <1>ev DEF Typed, E!TypeOK, Worker, E!Announce
  <1>6. /\ \A q : Cardinality(Acting(q)') = Cardinality(Acting(q))
        /\ \A q : Cardinality(Pending(q)') = Cardinality(Pending(q))
        /\ \A x : Cardinality(Announcing(x)') + (IF x = E!ResultOf(k) THEN 1 ELSE 0)
               = Cardinality(Announcing(x))
    <2>1. \A q : ~IsActing(work[k], q) /\ ~IsActing(w, q)
      BY <1>2 DEF IsActing
    <2>2. \A q : ~IsPending(work[k], q) /\ ~IsPending(w, q)
      BY <1>2 DEF IsPending
    <2>3. \A x : (IsAnnouncing(work[k], x) <=> x = E!ResultOf(k)) /\ ~IsAnnouncing(w, x)
      BY <1>2 DEF IsAnnouncing, E!ResultOf
    <2> HIDE DEF w
    <2> QED BY <1>4, <2>1, <2>2, <2>3, Moves
  <1>7. ActsCovered'
    BY <1>6 DEF Counted, ActsCovered, E!Announce
  <1>8. Accounted'
    BY <1>6 DEF Counted, Accounted, E!Announce
  <1>9. Announced'
    <2> SUFFICES ASSUME NEW x \in E!Results
                 PROVE  E!Count(results', x) = E!Count(feed', E!EventOf(x)) + Cardinality(Announcing(x)')
      BY DEF Announced
    <2>1. E!Count(results, x) = E!Count(feed, E!EventOf(x)) + Cardinality(Announcing(x))
      BY DEF Counted, Announced
    <2>2. E!Count(feed', E!EventOf(x)) = E!Count(feed, E!EventOf(x)) + (IF E!EventOf(x) = E!EventOf(E!ResultOf(k)) THEN 1 ELSE 0)
      <3> DEFINE S == Foreign \cup [kind : E!OwnKinds, of : Requests, status : E!Statuses]
                 e == E!EventOf(E!ResultOf(k))
      <3>1. feed \in Seq(S) /\ e \in S /\ feed' = Append(feed, e)
        BY <1>1, <1>ev, Logs DEF E!Announce
      <3> HIDE DEF S, e
      <3>2. E!Count(feed', E!EventOf(x)) = E!Count(feed, E!EventOf(x)) + (IF E!EventOf(x) = e THEN 1 ELSE 0)
        BY <3>1, CountAppend
      <3> QED BY <3>2 DEF e
    <2>3. E!EventOf(x) = E!EventOf(E!ResultOf(k)) <=> x = E!ResultOf(k)
      BY <1>ev, EventsDiffer
    <2>4. results' = results
      BY DEF E!Announce
    <2>5. /\ E!Count(feed, E!EventOf(x)) \in Nat /\ E!Count(results, x) \in Nat
          /\ Cardinality(Announcing(x)) \in Nat /\ Cardinality(Announcing(x)') \in Nat
      BY <1>1, <1>4, Logs, Moves
    <2> QED BY <1>6, <2>1, <2>2, <2>3, <2>4, <2>5
  <1> QED BY <1>5, <1>7, <1>8, <1>9 DEF Counted

LEMMA ReturnStep ==
  ASSUME Typed, Counted, NEW k \in Tasks, E!Return(k)
  PROVE  Typed' /\ Counted'
  <1> DEFINE r == work[k].request
             w == E!Idle
  <1>1. E!TypeOK /\ WorkHasRequest
    BY DEF Typed
  <1>2. work[k].pc = "returned"
    BY DEF E!Return, E!At
  <1>3. r \in Requests /\ w \in Worker /\ w.pc = "idle" /\ work' = [work EXCEPT ![k] = w]
    BY <1>1, <1>2 DEF E!Return, E!Idle, Worker, E!Statuses, WorkHasRequest, E!At
  <1>4. work' \in [Tasks -> Worker] /\ WorkHasRequest' /\ Alone(k) /\ work'[k] = w
    BY <1>1, <1>3, WorkStep
  <1>5. Typed'
    BY <1>1, <1>3, <1>4 DEF Typed, E!TypeOK, Worker, E!Return
  <1>6. /\ \A q : Cardinality(Acting(q)') = Cardinality(Acting(q))
        /\ \A q : Cardinality(Pending(q)') = Cardinality(Pending(q))
        /\ \A x : Cardinality(Announcing(x)') = Cardinality(Announcing(x))
    <2>1. \A q : ~IsActing(work[k], q) /\ ~IsActing(w, q)
      BY <1>2, <1>3 DEF IsActing
    <2>2. \A q : ~IsPending(work[k], q) /\ ~IsPending(w, q)
      BY <1>2, <1>3 DEF IsPending
    <2>3. \A x : ~IsAnnouncing(work[k], x) /\ ~IsAnnouncing(w, x)
      BY <1>2, <1>3 DEF IsAnnouncing
    <2> HIDE DEF w
    <2> QED BY <1>4, <2>1, <2>2, <2>3, Moves
  <1>7. ActsCovered'
    BY <1>6 DEF Counted, ActsCovered, E!Return
  <1>8. Accounted'
    BY <1>6 DEF Counted, Accounted, E!Return
  <1>9. Announced'
    BY <1>6 DEF Counted, Announced, E!Return
  <1> QED BY <1>5, <1>7, <1>8, <1>9 DEF Counted

LEMMA ForeignStep ==
  ASSUME Typed, Counted, NEW e \in Foreign, E!EmitForeign(e)
  PROVE  Typed' /\ Counted'
  <1>1. \A q : /\ Acting(q)' = Acting(q) /\ Pending(q)' = Pending(q)
             /\ Announcing(q)' = Announcing(q)
    BY DEF E!EmitForeign, Acting, Pending, Announcing
  <1>2. \A x \in E!Results : E!Count(feed', E!EventOf(x)) = E!Count(feed, E!EventOf(x))
    <2> SUFFICES ASSUME NEW x \in E!Results PROVE E!Count(feed', E!EventOf(x)) = E!Count(feed, E!EventOf(x))
      OBVIOUS
    <2>1. E!Count(feed', E!EventOf(x)) = E!Count(feed, E!EventOf(x)) + (IF E!EventOf(x) = e THEN 1 ELSE 0)
      <3> DEFINE S == Foreign \cup [kind : E!OwnKinds, of : Requests, status : E!Statuses]
      <3>1. feed \in Seq(S) /\ e \in S /\ feed' = Append(feed, e)
        BY Logs DEF Typed, E!EmitForeign
      <3> HIDE DEF S
      <3> QED BY <3>1, CountAppend
    <2>2. E!EventOf(x) # e /\ E!Count(feed, E!EventOf(x)) \in Nat
      BY EventsDiffer, Logs DEF Typed
    <2> QED BY <2>1, <2>2
  <1>3. Typed'
    BY DEF Typed, E!TypeOK, WorkHasRequest, E!EmitForeign, E!At
  <1> QED BY <1>1, <1>2, <1>3 DEF Counted, ActsCovered, Accounted, Announced, E!EmitForeign

LEMMA ResponseStutter ==
  ASSUME Typed, Counted, UNCHANGED E!vars
  PROVE  Typed' /\ Counted'
  <1>1. \A q : /\ Acting(q)' = Acting(q) /\ Pending(q)' = Pending(q)
             /\ Announcing(q)' = Announcing(q)
    BY DEF E!vars, Acting, Pending, Announcing
  <1> QED
    BY <1>1 DEF E!vars, Typed, E!TypeOK, WorkHasRequest, E!At, Counted, ActsCovered, Accounted, Announced

LEMMA NextResponse == ResponseInv /\ [E!Next]_(E!vars) => ResponseInv'
  <1> SUFFICES ASSUME Typed, Counted, [E!Next]_(E!vars) PROVE Typed' /\ Counted'
    BY ResponseNow, ResponseNext
  <1> QED
    BY ExecuteStep, ActStep, AnswerStep, AbandonStep, RecordResultStep, AnnounceStep, ReturnStep,
       ForeignStep, ResponseStutter DEF E!Next, E!Backend, E!Continue

LEMMA ResponseInvariant == ResponseSpec => []ResponseInv
  BY InitResponse, NextResponse, PTL DEF ResponseSpec, E!Spec

(* What the backend did is settled, on the way to a result, or dropped: an *)
(* invariant of its own, inductive over the one above.                     *)
IsSettling(w, r) == w.pc \in {"acted", "record"} /\ w.request = r
Settling(r) == {k \in Tasks : IsSettling(work[k], r)}
ActsSettled ==
  \A r \in Requests :
    E!Count(executed, r) <= SettledIn(results, r) + Cardinality(Settling(r)) + dropped[r]

(* A step of the task k keeps it if it adds no more acts than results,     *)
(* tasks on the way to one and dropped futures together.                   *)
Outweighed(k, r) ==
  E!Count(executed', r) + SettledIn(results, r) + dropped[r]
      + (IF IsSettling(work[k], r) THEN 1 ELSE 0)
    <= E!Count(executed, r) + SettledIn(results', r) + dropped'[r]
      + (IF IsSettling(work'[k], r) THEN 1 ELSE 0)

LEMMA SettlingStep ==
  ASSUME Typed, Typed', ActsSettled, NEW k \in Tasks, Alone(k),
         \A r \in Requests : Outweighed(k, r)
  PROVE  ActsSettled'
  <1> SUFFICES ASSUME NEW r \in Requests
               PROVE  E!Count(executed', r)
                        <= SettledIn(results', r) + Cardinality(Settling(r)') + dropped'[r]
    BY DEF ActsSettled
  <1>1. /\ Settling(r) \subseteq Tasks /\ Settling(r)' \subseteq Tasks
        /\ Settling(r) \ {k} = Settling(r)' \ {k}
        /\ k \in Settling(r) <=> IsSettling(work[k], r)
        /\ k \in Settling(r)' <=> IsSettling(work'[k], r)
    BY DEF Settling, Alone, IsSettling
  <1>2. /\ Cardinality(Settling(r)) \in Nat /\ Cardinality(Settling(r)') \in Nat
        /\ Cardinality(Settling(r)') + (IF IsSettling(work[k], r) THEN 1 ELSE 0)
             = Cardinality(Settling(r)) + (IF IsSettling(work'[k], r) THEN 1 ELSE 0)
    BY <1>1, TasksStep
  <1>3. /\ E!Count(executed, r) \in Nat /\ E!Count(executed', r) \in Nat
        /\ dropped[r] \in Nat /\ dropped'[r] \in Nat
    <2>1. executed \in Seq(Requests) /\ executed' \in Seq(Requests)
      BY DEF Typed, E!TypeOK
    <2>2. dropped \in [Requests -> Nat] /\ dropped' \in [Requests -> Nat]
      BY DEF Typed, E!TypeOK
    <2> QED BY <2>1, <2>2, CountNat
  <1>4. SettledIn(results, r) \in Nat /\ SettledIn(results', r) \in Nat
    <2> DEFINE V == {x \in E!Results : x.request = r}
    <2>1. results \in Seq(E!Results) /\ results' \in Seq(E!Results)
      BY DEF Typed, E!TypeOK
    <2>2. SettledIn(results, r) = Cardinality(Places(results, V))
          /\ SettledIn(results', r) = Cardinality(Places(results', V))
      BY <2>1, SettledPlaces
    <2> HIDE DEF V
    <2> QED BY <2>1, <2>2, PlacesFinite
  <1>5. E!Count(executed, r) <= SettledIn(results, r) + Cardinality(Settling(r)) + dropped[r]
    BY DEF ActsSettled
  <1>6. E!Count(executed', r) + SettledIn(results, r) + dropped[r]
            + (IF IsSettling(work[k], r) THEN 1 ELSE 0)
          <= E!Count(executed, r) + SettledIn(results', r) + dropped'[r]
            + (IF IsSettling(work'[k], r) THEN 1 ELSE 0)
    BY DEF Outweighed
  <1> QED BY <1>2, <1>3, <1>4, <1>5, <1>6

LEMMA ActsSettledNext ==
  ASSUME ResponseInv, ResponseInv', ActsSettled, [E!Next]_(E!vars)
  PROVE  ActsSettled'
  <1>1. /\ Typed /\ Typed' /\ work \in [Tasks -> Worker]
        /\ executed \in Seq(Requests) /\ results \in Seq(E!Results)
        /\ dropped \in [Requests -> Nat]
    BY ResponseNow, ResponseNext DEF Typed, E!TypeOK, Worker
  <1>2. \A r \in Requests : E!Count(executed, r) \in Nat /\ SettledIn(results, r) \in Nat
                            /\ dropped[r] \in Nat
    BY <1>1, Logs DEF Typed
  <1>3. ASSUME NEW k \in Tasks, Alone(k),
               UNCHANGED <<executed, results, dropped>>,
               \A r \in Requests : IsSettling(work[k], r) => IsSettling(work'[k], r)
        PROVE  ActsSettled'
    <2>1. \A r \in Requests : Outweighed(k, r)
      BY <1>2, <1>3 DEF Outweighed
    <2> QED BY <1>1, <1>3, <2>1, SettlingStep
  <1>4. ASSUME NEW k \in Tasks, NEW r \in Requests, E!Execute(k, r) PROVE ActsSettled'
    <2>1. Alone(k) /\ work[k].pc = "idle"
      BY <1>1, <1>4 DEF E!Execute, Alone, E!At
    <2> QED BY <1>3, <1>4, <2>1 DEF E!Execute, IsSettling
  <1>5. ASSUME NEW k \in Tasks, E!Act(k) PROVE ActsSettled'
    <2>1. Alone(k) /\ work[k].pc = "await" /\ work'[k].pc = "acted"
          /\ work'[k].request = work[k].request
      BY <1>1, <1>5 DEF E!Act, Alone, E!At, Worker
    <2>2. work[k].request \in Requests
      BY <1>1, <2>1 DEF Typed, WorkHasRequest, E!At
    <2>3. \A r \in Requests : E!Count(executed', r)
            = E!Count(executed, r) + (IF r = work[k].request THEN 1 ELSE 0)
      BY <1>1, <1>5, <2>2, CountAppend DEF E!Act
    <2>4. \A r \in Requests : ~IsSettling(work[k], r)
                              /\ (IsSettling(work'[k], r) <=> r = work[k].request)
      BY <2>1 DEF IsSettling
    <2>5. results' = results /\ dropped' = dropped
      BY <1>5 DEF E!Act
    <2>6. \A r \in Requests : Outweighed(k, r)
      BY <1>2, <2>3, <2>4, <2>5 DEF Outweighed
    <2> QED BY <1>1, <2>1, <2>6, SettlingStep
  <1>6. ASSUME NEW k \in Tasks, NEW ok \in BOOLEAN, E!Answer(k, ok) PROVE ActsSettled'
    <2>1. Alone(k) /\ work'[k].pc = "record" /\ work'[k].request = work[k].request
      BY <1>1, <1>6 DEF E!Answer, Alone, Worker
    <2> QED BY <1>3, <1>6, <2>1 DEF E!Answer, IsSettling
  <1>7. ASSUME NEW k \in Tasks, E!Abandon(k) PROVE ActsSettled'
    <2>1. Alone(k) /\ work[k].pc \in {"await", "acted"} /\ work'[k].pc = "idle"
      BY <1>1, <1>7 DEF E!Abandon, Alone, E!Idle
    <2>2. work[k].request \in Requests
      BY <1>1, <2>1 DEF Typed, WorkHasRequest, E!At
    <2>3. \A r \in Requests : dropped'[r] = dropped[r] + (IF r = work[k].request THEN 1 ELSE 0)
      BY <1>1, <1>7, <2>2 DEF E!Abandon
    <2>4. \A r \in Requests : (IsSettling(work[k], r) => r = work[k].request)
                              /\ ~IsSettling(work'[k], r)
      BY <2>1 DEF IsSettling
    <2>5. results' = results /\ executed' = executed
      BY <1>7 DEF E!Abandon
    <2>6. \A r \in Requests : Outweighed(k, r)
      BY <1>2, <2>3, <2>4, <2>5 DEF Outweighed
    <2> QED BY <1>1, <2>1, <2>6, SettlingStep
  <1>8. ASSUME NEW k \in Tasks, E!Record(k) PROVE ActsSettled'
    <2>1. Alone(k) /\ work[k].pc = "record" /\ work'[k].pc = "announce"
      BY <1>1, <1>8 DEF E!Record, Alone, E!At, Worker
    <2>2. work[k].request \in Requests /\ E!ResultOf(k) \in E!Results
          /\ E!ResultOf(k).request = work[k].request
      BY <1>1, <2>1 DEF Typed, WorkHasRequest, E!At, E!ResultOf, E!Results, Worker
    <2>3. \A r \in Requests : SettledIn(results', r)
            = SettledIn(results, r) + (IF r = work[k].request THEN 1 ELSE 0)
      BY <1>1, <1>8, <2>2, SettledAppend DEF E!Record
    <2>4. \A r \in Requests : (IsSettling(work[k], r) => r = work[k].request)
                              /\ ~IsSettling(work'[k], r)
      BY <2>1 DEF IsSettling
    <2>5. executed' = executed /\ dropped' = dropped
      BY <1>8 DEF E!Record
    <2>6. \A r \in Requests : Outweighed(k, r)
      BY <1>2, <2>3, <2>4, <2>5 DEF Outweighed
    <2> QED BY <1>1, <2>1, <2>6, SettlingStep
  <1>9. ASSUME NEW k \in Tasks, E!Announce(k) \/ E!Return(k) PROVE ActsSettled'
    <2>1. Alone(k) /\ work[k].pc \in {"announce", "returned"}
      BY <1>1, <1>9 DEF E!Announce, E!Return, Alone, E!At
    <2> QED BY <1>3, <1>9, <2>1 DEF E!Announce, E!Return, IsSettling
  <1>10. ASSUME UNCHANGED <<executed, results, dropped, work>> PROVE ActsSettled'
    <2>1. \A r : Settling(r)' = Settling(r)
      BY <1>10 DEF Settling
    <2> QED BY <1>10, <2>1 DEF ActsSettled
  <1> QED
    BY <1>4, <1>5, <1>6, <1>7, <1>8, <1>9, <1>10
       DEF E!Next, E!vars, E!Backend, E!Continue, E!EmitForeign

LEMMA InitSettled == E!Init => ActsSettled
  <1> SUFFICES ASSUME E!Init PROVE ActsSettled
    OBVIOUS
  <1>1. ResponseInv
    BY InitResponse
  <1>2. ASSUME NEW r PROVE E!Count(executed, r) = 0
    <2>1. {n \in 1..Len(executed) : executed[n] = r} = {}
      BY DEF E!Init
    <2> QED BY <2>1, FS_EmptySet DEF E!Count, E!Cardinality, Cardinality
  <1>3. \A r \in Requests : dropped[r] = 0 /\ SettledIn(results, r) \in Nat
    BY <1>1, Logs DEF E!Init, ResponseInv
  <1>4. \A r : Cardinality(Settling(r)) \in Nat
    BY TasksFinite, FS_Subset, FS_CardinalityType DEF Settling
  <1> QED BY <1>2, <1>3, <1>4 DEF ActsSettled

LEMMA ActsSettledInvariant == ResponseSpec => []ActsSettled
  <1>1. ActsSettled /\ ResponseInv /\ ResponseInv' /\ [E!Next]_(E!vars) => ActsSettled'
    BY ActsSettledNext
  <1> QED BY <1>1, InitSettled, ResponseInvariant, PTL DEF ResponseSpec, E!Spec

-----------------------------------------------------------------------------
(***************************************************************************)
(* The theorems.                                                           *)
(***************************************************************************)
(* The logs, the feed and the tasks keep their types (execute_action).     *)
THEOREM ResponseTypeCorrect == ResponseSpec => []ResponseTypeOK
  <1>1. ResponseInv => ResponseTypeOK
    BY DEF ResponseInv, ResponseTypeOK
  <1> QED BY <1>1, ResponseInvariant, PTL

(* No result claims an action that the backend did not take, and no action *)
(* it took is without a result, a task on the way to one, or a dropped     *)
(* future, whoever else submits, retries or drops the same request         *)
(* (execute_action).                                                       *)
THEOREM ExecutedMeansActedHolds == ResponseSpec => []ExecutedMeansActed
  <1>1. ResponseInv /\ ActsSettled => ExecutedMeansActed
    <2> SUFFICES ASSUME ResponseInv, ActsSettled, NEW r \in Requests
                 PROVE  /\ E!Count(results, [request |-> r, status |-> "Executed"]) <= E!Count(executed, r)
                        /\ E!Count(executed, r)
                             <= E!Settled(r) + E!Busy({"acted", "record"}, r) + dropped[r]
      BY DEF ExecutedMeansActed, E!ExecutedMeansActed
    <2> DEFINE n == E!Count(results, [request |-> r, status |-> "Executed"])
    <2>1. n \in Nat /\ E!Count(executed, r) \in Nat
      BY Logs DEF ResponseInv
    <2>2. Cardinality(Acting(r)) \in Nat
      BY TasksFinite, FS_Subset, FS_CardinalityType, Acting(r) \in SUBSET Tasks DEF Acting
    <2>3. n + Cardinality(Acting(r)) <= E!Count(executed, r)
      BY DEF ResponseInv, ActsCovered
    <2>4. n <= E!Count(executed, r)
      BY <2>1, <2>2, <2>3
    <2>5. /\ E!Settled(r) = SettledIn(results, r)
          /\ E!Busy({"acted", "record"}, r) = Cardinality(Settling(r))
      BY DEF E!Settled, SettledIn, E!Busy, Settling, IsSettling, E!Cardinality, Cardinality
    <2>6. E!Count(executed, r) <= E!Settled(r) + E!Busy({"acted", "record"}, r) + dropped[r]
      BY <2>5 DEF ActsSettled
    <2> QED BY <2>4, <2>6
  <1> QED BY <1>1, ResponseInvariant, ActsSettledInvariant, PTL

(* Every submission has a result, or is under way, or was dropped before   *)
(* it had one, and never two of these (execute_action).                    *)
THEOREM SubmissionsAccountedHolds == ResponseSpec => []SubmissionsAccounted
  <1>1. ResponseInv => SubmissionsAccounted
    BY DEF ResponseInv
  <1> QED BY <1>1, ResponseInvariant, PTL

(* Whoever listens to the emitter, which other engines use too, hears of   *)
(* each result once (execute_action).                                      *)
THEOREM ResultsAnnouncedHolds == ResponseSpec => []ResultsAnnounced
  <1>1. ResponseInv => ResultsAnnounced
    BY DEF ResponseInv
  <1> QED BY <1>1, ResponseInvariant, PTL
============================================================================
