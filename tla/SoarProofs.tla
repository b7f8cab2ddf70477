----------------------------- MODULE SoarProofs -----------------------------
(***************************************************************************)
(* Theorems about the SOAR engine, for any tasks and any finite set of     *)
(* executions.                                                             *)
(***************************************************************************)
EXTENDS Soar, SiftingLemmas

Statuses == R!Statuses
OwnEvents == [kind : R!OwnKinds, of : Request, status : Statuses]
Events == PlaybookEvents \cup OwnEvents
Results == [request : Request, status : Statuses]
LogEntries == [of : Executions, status : Outcomes]
Result(q, st) == [request |-> q, status |-> st]
Entry(x, s) == [of |-> x, status |-> s]

(* What the feed and the logs have of one execution.                       *)
Told(f, x)      == Picked(f, {e \in Events : About(x, e)})
ActsFor(a, x)   == Picked(a, {q \in Request : q.execution = x})
Answers(l, x)   == Picked(l, {r \in Results : r.request.execution = x})
Logged(l, x)    == Picked(l, {e \in LogEntries : e.of = x})

StatusFor(s)  == IF s = "Completed" THEN "Executed" ELSE "Failed"
OutcomeOf(st) == IF st = "Executed" THEN "Completed" ELSE "Failed"

(* A task awaits an action exactly if the response engine works for it, on *)
(* the request of its execution.                                           *)
ShapeOf(r, w) ==
  /\ r.pc # "idle" => r.execution \in Executions
  /\ r.pc # "await" <=> w.pc = "idle"
  /\ r.pc = "await" => w.request = RequestOf(r.execution, r.playbook)
Shapes == \A k \in Tasks : ShapeOf(run[k], work[k])

(* An execution is of one task.                                            *)
Runs(r, x) == r.pc # "idle" /\ r.execution = x
Apart == \A k, q \in Tasks, x \in Executions : Runs(run[k], x) /\ Runs(run[q], x) => k = q

(* What there is of an execution while the task runs it: ...               *)
Answered(r, w) == r.pc = "end" \/ w.pc \in {"announce", "returned"}
FinalStatus(r, w) == IF r.pc = "end" THEN StatusFor(r.status) ELSE w.status
IsRecord(r, w, told, acts, answers, log) ==
  LET x == r.execution
      q == RequestOf(x, r.playbook)
      st == FinalStatus(r, w)
  IN  /\ told = IF r.pc = "end" \/ w.pc = "returned"
                THEN <<Started(x), R!EventOf(Result(q, st))>> ELSE <<Started(x)>>
      /\ acts = <<>> \/ (acts = <<q>> /\ r.pc # "submit" /\ w.pc # "await")
      /\ w.pc = "acted" => acts = <<q>>
      /\ (w.pc = "record" \/ Answered(r, w)) /\ st = "Executed" => acts = <<q>>
      /\ answers = IF Answered(r, w) THEN <<Result(q, st)>> ELSE <<>>
      /\ log = IF r.pc = "end" THEN <<Entry(x, r.status)>> ELSE <<>>

(* ... and while none does: it has not begun, its future was dropped, or it*)
(* has ended.                                                              *)
Untouched(told, acts, answers, log) ==
  told = <<>> /\ acts = <<>> /\ answers = <<>> /\ log = <<>>
WasDropped(x, told, acts, answers, log) ==
  /\ told = <<Started(x)>> /\ answers = <<>> /\ log = <<>>
  /\ acts = <<>> \/ \E p \in Playbooks : acts = <<RequestOf(x, p)>>
HasEnded(x, told, acts, answers, log) ==
  \E p \in Playbooks, s \in Outcomes :
    /\ told = Story(p, x, s)
    /\ acts = <<RequestOf(x, p)>> \/ (acts = <<>> /\ s = "Failed")
    /\ answers = <<Result(RequestOf(x, p), StatusFor(s))>>
    /\ log = <<Entry(x, s)>>
IsAtRest(x, told, acts, answers, log) ==
  \/ Untouched(told, acts, answers, log)
  \/ WasDropped(x, told, acts, answers, log)
  \/ HasEnded(x, told, acts, answers, log)

Records ==
  \A k \in Tasks, x \in Executions :
    Runs(run[k], x) =>
      IsRecord(run[k], work[k], Told(feed, x), ActsFor(executed, x),
               Answers(results, x), Logged(executions, x))
AtRest ==
  \A x \in Executions :
    (\A k \in Tasks : ~Runs(run[k], x)) =>
      IsAtRest(x, Told(feed, x), ActsFor(executed, x), Answers(results, x), Logged(executions, x))

Layers == Shapes /\ Apart /\ Records /\ AtRest

-----------------------------------------------------------------------------
(***************************************************************************)
(* Events and histories.                                                   *)
(***************************************************************************)
LEMMA Requested ==
  ASSUME NEW x \in Executions, NEW p \in Playbooks
  PROVE  RequestOf(x, p) \in Request /\ RequestOf(x, p).execution = x
  BY DEF RequestOf, Request

LEMMA EventTypes ==
  /\ \A x \in Executions : Started(x) \in PlaybookEvents
  /\ \A x \in Executions, s \in Outcomes : Ended(x, s) \in PlaybookEvents
  /\ \A r \in Results : R!EventOf(r) \in OwnEvents
  BY DEF PlaybookEvents, Results, OwnEvents, R!EventOf, R!OwnKinds, Statuses, R!Statuses

LEMMA EventsAbout ==
  /\ \A x, y : About(y, Started(x)) <=> x = y
  /\ \A x, y, s : About(y, Ended(x, s)) <=> x = y
  /\ \A y, r : About(y, R!EventOf(r)) <=> r.request.execution = y
  BY DEF About, Started, Ended, R!EventOf, R!OwnKinds

LEMMA ToldAppend ==
  ASSUME NEW f \in Seq(Events), NEW e \in Events, NEW y
  PROVE  Told(Append(f, e), y) = IF About(y, e) THEN Append(Told(f, y), e) ELSE Told(f, y)
  <1> DEFINE V == {d \in Events : About(y, d)}
  <1>1. e \in V <=> About(y, e)
    OBVIOUS
  <1> HIDE DEF V
  <1>2. Picked(Append(f, e), V) = IF e \in V THEN Append(Picked(f, V), e) ELSE Picked(f, V)
    BY PickedAppend
  <1>3. Told(f, y) = Picked(f, V) /\ Told(Append(f, e), y) = Picked(Append(f, e), V)
    BY DEF Told, V
  <1> QED BY <1>1, <1>2, <1>3

LEMMA ActsAppend ==
  ASSUME NEW f \in Seq(Request), NEW e \in Request, NEW y
  PROVE  ActsFor(Append(f, e), y)
           = IF e.execution = y THEN Append(ActsFor(f, y), e) ELSE ActsFor(f, y)
  <1> DEFINE V == {d \in Request : d.execution = y}
  <1>1. e \in V <=> e.execution = y
    OBVIOUS
  <1> HIDE DEF V
  <1>2. Picked(Append(f, e), V) = IF e \in V THEN Append(Picked(f, V), e) ELSE Picked(f, V)
    BY PickedAppend
  <1>3. ActsFor(f, y) = Picked(f, V) /\ ActsFor(Append(f, e), y) = Picked(Append(f, e), V)
    BY DEF ActsFor, V
  <1> QED BY <1>1, <1>2, <1>3

LEMMA AnswersAppend ==
  ASSUME NEW f \in Seq(Results), NEW e \in Results, NEW y
  PROVE  Answers(Append(f, e), y)
           = IF e.request.execution = y THEN Append(Answers(f, y), e) ELSE Answers(f, y)
  <1> DEFINE V == {d \in Results : d.request.execution = y}
  <1>1. e \in V <=> e.request.execution = y
    OBVIOUS
  <1> HIDE DEF V
  <1>2. Picked(Append(f, e), V) = IF e \in V THEN Append(Picked(f, V), e) ELSE Picked(f, V)
    BY PickedAppend
  <1>3. Answers(f, y) = Picked(f, V) /\ Answers(Append(f, e), y) = Picked(Append(f, e), V)
    BY DEF Answers, V
  <1> QED BY <1>1, <1>2, <1>3

LEMMA LoggedAppend ==
  ASSUME NEW f \in Seq(LogEntries), NEW e \in LogEntries, NEW y
  PROVE  Logged(Append(f, e), y) = IF e.of = y THEN Append(Logged(f, y), e) ELSE Logged(f, y)
  <1> DEFINE V == {d \in LogEntries : d.of = y}
  <1>1. e \in V <=> e.of = y
    OBVIOUS
  <1> HIDE DEF V
  <1>2. Picked(Append(f, e), V) = IF e \in V THEN Append(Picked(f, V), e) ELSE Picked(f, V)
    BY PickedAppend
  <1>3. Logged(f, y) = Picked(f, V) /\ Logged(Append(f, e), y) = Picked(Append(f, e), V)
    BY DEF Logged, V
  <1> QED BY <1>1, <1>2, <1>3

LEMMA SameSequence ==
  ASSUME NEW S, NEW s \in Seq(S), NEW t \in Seq(S), Len(s) = Len(t),
         \A k \in 1..Len(s) : s[k] = t[k]
  PROVE  s = t
  OBVIOUS

LEMMA Grow ==
  ASSUME NEW a, NEW b, NEW c
  PROVE  /\ Append(<<>>, a) = <<a>> /\ Append(<<a>>, b) = <<a, b>>
         /\ Append(<<a, b>>, c) = <<a, b, c>>
  <1> DEFINE S == {a, b, c}
  <1>1. <<>> \in Seq(S) /\ <<a>> \in Seq(S) /\ <<a, b>> \in Seq(S) /\ <<a, b, c>> \in Seq(S)
    OBVIOUS
  <1>2. Append(<<>>, a) = <<a>>
    BY <1>1
  <1>3. Append(<<a>>, b) = <<a, b>>
    <2>1. Len(<<a, b>>) = 2 /\ <<a, b>>[1] = a /\ <<a, b>>[2] = b
      OBVIOUS
    <2>2. /\ Append(<<a>>, b) \in Seq(S) /\ Len(Append(<<a>>, b)) = 2
          /\ Append(<<a>>, b)[1] = a /\ Append(<<a>>, b)[2] = b
      OBVIOUS
    <2>3. \A k \in 1..2 : k = 1 \/ k = 2
      OBVIOUS
    <2> QED BY <1>1, <2>1, <2>2, <2>3, SameSequence
  <1>4. Append(<<a, b>>, c) = <<a, b, c>>
    <2>1. Len(<<a, b, c>>) = 3 /\ <<a, b, c>>[1] = a /\ <<a, b, c>>[2] = b /\ <<a, b, c>>[3] = c
      OBVIOUS
    <2>2. /\ Append(<<a, b>>, c) \in Seq(S) /\ Len(Append(<<a, b>>, c)) = 3
          /\ Append(<<a, b>>, c)[1] = a /\ Append(<<a, b>>, c)[2] = b
          /\ Append(<<a, b>>, c)[3] = c
      OBVIOUS
    <2>3. \A k \in 1..3 : k = 1 \/ k = 2 \/ k = 3
      OBVIOUS
    <2> QED BY <1>1, <2>1, <2>2, <2>3, SameSequence
  <1> QED BY <1>2, <1>3, <1>4

LEMMA Subs ==
  ASSUME NEW a, NEW b, NEW c
  PROVE  /\ SubSeq(<<a,b,c>>, 1, 0) = <<>>
         /\ SubSeq(<<a,b,c>>, 1, 1) = <<a>>
         /\ SubSeq(<<a,b,c>>, 1, 2) = <<a,b>>
         /\ SubSeq(<<a,b,c>>, 1, 3) = <<a,b,c>>
  <1> DEFINE S == {a, b, c}
             s == <<a, b, c>>
  <1>1. <<>> \in Seq(S) /\ <<a>> \in Seq(S) /\ <<a, b>> \in Seq(S) /\ s \in Seq(S)
    OBVIOUS
  <1>2. Len(s) = 3 /\ s[1] = a /\ s[2] = b /\ s[3] = c
    OBVIOUS
  <1>3. Len(<<a>>) = 1 /\ <<a>>[1] = a /\ Len(<<a, b>>) = 2 /\ <<a, b>>[1] = a /\ <<a, b>>[2] = b
    OBVIOUS
  <1> HIDE DEF s, S
  <1>4. \A n \in 0..3 : /\ SubSeq(s, 1, n) \in Seq(S) /\ Len(SubSeq(s, 1, n)) = n
                        /\ \A k \in 1..n : SubSeq(s, 1, n)[k] = s[k]
    BY <1>1, <1>2
  <1>5. (\A k \in 1..1 : k = 1) /\ (\A k \in 1..2 : k = 1 \/ k = 2)
    OBVIOUS
  <1>6. SubSeq(s, 1, 0) = <<>>
    BY <1>1, <1>4
  <1>7. SubSeq(s, 1, 1) = <<a>>
    <2> DEFINE t == SubSeq(s, 1, 1)
    <2>1. t \in Seq(S) /\ Len(t) = 1 /\ t[1] = a
      BY <1>2, <1>4
    <2> HIDE DEF t
    <2>2. t = <<a>>
      BY <1>1, <1>3, <1>5, <2>1, SameSequence
    <2> QED BY <2>2 DEF t
  <1>8. SubSeq(s, 1, 2) = <<a, b>>
    <2> DEFINE t == SubSeq(s, 1, 2)
    <2>1. t \in Seq(S) /\ Len(t) = 2 /\ t[1] = a /\ t[2] = b
      BY <1>2, <1>4
    <2> HIDE DEF t
    <2>2. t = <<a, b>>
      BY <1>1, <1>3, <1>5, <2>1, SameSequence
    <2> QED BY <2>2 DEF t
  <1>9. SubSeq(s, 1, 3) = s
    <2> DEFINE t == SubSeq(s, 1, 3)
    <2>1. t \in Seq(S) /\ Len(t) = Len(s) /\ \A k \in 1..Len(s) : t[k] = s[k]
      BY <1>2, <1>4
    <2> HIDE DEF t
    <2>2. t = s
      BY <1>1, <2>1, SameSequence
    <2> QED BY <2>2 DEF t
  <1> QED BY <1>6, <1>7, <1>8, <1>9 DEF s

(* The types, of both engines together.                                    *)
Works == [pc : {"idle", "await", "acted", "record", "announce", "returned"},
          request : Request \cup {None}, status : Statuses]
Runnings == [pc : {"idle", "submit", "await", "end"}, execution : Executions \cup {None},
             playbook : Playbooks, status : Outcomes]
Typed ==
  /\ requests \in Seq(Request) /\ executed \in Seq(Request)
  /\ results \in Seq(Results) /\ dropped \in [Request -> Nat]
  /\ feed \in Seq(Events) /\ work \in [Tasks -> Works]
  /\ executions \in Seq(LogEntries) /\ run \in [Tasks -> Runnings]

LEMMA TypedIsTypeOK == TypeOK <=> Typed
  BY DEF TypeOK, Typed, R!TypeOK, R!Results, Results, Statuses, R!Statuses, R!OwnKinds, Events,
         OwnEvents, LogEntries, Works, Runnings

-----------------------------------------------------------------------------
(***************************************************************************)
(* A step of the task k for the execution x disturbs no other.             *)
(***************************************************************************)
Alone(k) ==
  \A q \in Tasks : q # k => run'[q] = run[q] /\ work'[q] = work[q]
OnlyOf(x) ==
  \A y \in Executions : y # x =>
    /\ Told(feed, y)' = Told(feed, y)
    /\ ActsFor(executed, y)' = ActsFor(executed, y)
    /\ Answers(results, y)' = Answers(results, y)
    /\ Logged(executions, y)' = Logged(executions, y)

Unrun(x) == \A q \in Tasks : ~Runs(run[q], x)
RecordOf(k, x) ==
  IsRecord(run[k], work[k], Told(feed, x), ActsFor(executed, x), Answers(results, x),
           Logged(executions, x))
RestOf(x) ==
  IsAtRest(x, Told(feed, x), ActsFor(executed, x), Answers(results, x), Logged(executions, x))

LEMMA Frame ==
  ASSUME NEW k \in Tasks, NEW x \in Executions, Layers, Alone(k), OnlyOf(x),
         Runs(run[k], x) \/ (run[k].pc = "idle" /\ Unrun(x)),
         ShapeOf(run'[k], work'[k]),
         (Runs(run[k], x) /\ RecordOf(k, x))' \/ (run'[k].pc = "idle" /\ RestOf(x)')
  PROVE  Layers'
  <1>1. Shapes'
    BY DEF Layers, Shapes, Alone
  <1>2. \A y : Runs(run'[k], y) => y = x
    BY DEF Runs
  <1>3. \A q \in Tasks : q # k => ~Runs(run[q], x) /\ ~Runs(run'[q], x)
    BY DEF Layers, Apart, Unrun, Alone
  <1>4. Apart'
    BY <1>2, <1>3 DEF Layers, Apart, Alone
  <1>5. Records'
    <2> SUFFICES ASSUME NEW q \in Tasks, NEW y \in Executions, Runs(run'[q], y)
                 PROVE  RecordOf(q, y)'
      BY DEF Records, RecordOf
    <2>1. CASE q = k
      BY <1>2, <2>1 DEF Runs
    <2>2. CASE q # k
      <3>1. y # x /\ Runs(run[q], y) /\ run'[q] = run[q] /\ work'[q] = work[q]
        BY <1>3, <2>2 DEF Alone
      <3>2. RecordOf(q, y)
        BY <3>1 DEF Layers, Records, RecordOf
      <3> QED BY <3>1, <3>2 DEF RecordOf, OnlyOf
    <2> QED BY <2>1, <2>2
  <1>6. AtRest'
    <2> SUFFICES ASSUME NEW y \in Executions, \A q \in Tasks : ~Runs(run'[q], y)
                 PROVE  RestOf(y)'
      BY DEF AtRest, RestOf
    <2>1. CASE y = x
      BY <2>1
    <2>2. CASE y # x
      <3>1. \A q \in Tasks : ~Runs(run[q], y)
        BY <2>2 DEF Alone, Runs
      <3>2. RestOf(y)
        BY <3>1 DEF Layers, AtRest, RestOf
      <3> QED BY <2>2, <3>2 DEF RestOf, OnlyOf
    <2> QED BY <2>1, <2>2
  <1> QED BY <1>1, <1>4, <1>5, <1>6 DEF Layers
-----------------------------------------------------------------------------
(***************************************************************************)
(* The actions.                                                            *)
(***************************************************************************)
Running(pc, x, p, s) == [pc |-> pc, execution |-> x, playbook |-> p, status |-> s]
Working(pc, q, st)   == [pc |-> pc, request |-> q, status |-> st]

LEMMA Turn ==
  ASSUME NEW S, NEW f \in [Tasks -> S], NEW k \in Tasks, NEW v \in S
  PROVE  LET g == [f EXCEPT ![k] = v]
         IN  g \in [Tasks -> S] /\ g[k] = v /\ \A q \in Tasks : q # k => g[q] = f[q]
  OBVIOUS

(* What the updates make of the record of a task.                          *)
LEMMA RunUpdates ==
  ASSUME Typed, NEW k \in Tasks,
         NEW pc \in {"idle", "submit", "await", "end"}, NEW s \in Outcomes
  PROVE  /\ [run EXCEPT ![k].pc = pc]
              = [run EXCEPT ![k] = Running(pc, run[k].execution, run[k].playbook, run[k].status)]
         /\ [run EXCEPT ![k].pc = pc, ![k].status = s]
              = [run EXCEPT ![k] = Running(pc, run[k].execution, run[k].playbook, s)]
  <1>1. run \in [Tasks -> Runnings] /\ run[k] \in Runnings
    BY DEF Typed
  <1> DEFINE r == run[k]
  <1>2. [r EXCEPT !.pc = pc] = Running(pc, r.execution, r.playbook, r.status)
    BY <1>1 DEF Runnings, Running
  <1>3. [r EXCEPT !.pc = pc, !.status = s]
          = [Running(pc, r.execution, r.playbook, r.status) EXCEPT !.status = s]
    BY <1>2
  <1>4. [Running(pc, r.execution, r.playbook, r.status) EXCEPT !.status = s]
          = Running(pc, r.execution, r.playbook, s)
    BY DEF Running
  <1>5. /\ [run EXCEPT ![k].pc = pc] = [run EXCEPT ![k] = [r EXCEPT !.pc = pc]]
        /\ [run EXCEPT ![k].pc = pc, ![k].status = s]
             = [run EXCEPT ![k] = [r EXCEPT !.pc = pc, !.status = s]]
    BY <1>1
  <1> QED BY <1>2, <1>3, <1>4, <1>5

LEMMA WorkUpdate ==
  ASSUME Typed, NEW k \in Tasks,
         NEW pc \in {"idle", "await", "acted", "record", "announce", "returned"}
  PROVE  [work EXCEPT ![k].pc = pc]
           = [work EXCEPT ![k] = Working(pc, work[k].request, work[k].status)]
  <1>1. work \in [Tasks -> Works] /\ work[k] \in Works
    BY DEF Typed
  <1> DEFINE w == work[k]
  <1>2. [w EXCEPT !.pc = pc] = Working(pc, w.request, w.status)
    BY <1>1 DEF Works, Working
  <1>3. [work EXCEPT ![k].pc = pc] = [work EXCEPT ![k] = [w EXCEPT !.pc = pc]]
    BY <1>1
  <1> QED BY <1>2, <1>3

LEMMA WorkAnswered ==
  ASSUME Typed, NEW k \in Tasks, NEW s \in Statuses
  PROVE  [work EXCEPT ![k].pc = "record", ![k].status = s]
           = [work EXCEPT ![k] = Working("record", work[k].request, s)]
  <1>1. work \in [Tasks -> Works] /\ work[k] \in Works
    BY DEF Typed
  <1> DEFINE w == work[k]
             v == Working("record", w.request, w.status)
  <1>2. [w EXCEPT !.pc = "record"] = v
    BY <1>1 DEF Works, Working
  <1>3. [w EXCEPT !.pc = "record", !.status = s] = [v EXCEPT !.status = s]
    BY <1>2
  <1>4. [v EXCEPT !.status = s] = Working("record", w.request, s)
    BY DEF Working
  <1>5. [work EXCEPT ![k].pc = "record", ![k].status = s]
          = [work EXCEPT ![k] = [w EXCEPT !.pc = "record", !.status = s]]
    BY <1>1
  <1> QED BY <1>3, <1>4, <1>5

LEMMA Beginnings ==
  /\ \A x, p : [NotRunning EXCEPT !.pc = "submit", !.execution = x, !.playbook = p]
                 = Running("submit", x, p, "Failed")
  /\ NotRunning = Running("idle", None, "NotifyTeam", "Failed")
  /\ \A q : [R!Idle EXCEPT !.pc = "await", !.request = q] = Working("await", q, "Failed")
  /\ R!Idle = Working("idle", None, "Failed")
  <1>1. NotRunning = Running("idle", None, "NotifyTeam", "Failed")
        /\ R!Idle = Working("idle", None, "Failed")
    BY DEF NotRunning, R!Idle, Running, Working
  <1>2. ASSUME NEW x, NEW p
        PROVE  [NotRunning EXCEPT !.pc = "submit", !.execution = x, !.playbook = p]
                 = Running("submit", x, p, "Failed")
    <2> DEFINE u == NotRunning
               v == Running("submit", None, "NotifyTeam", "Failed")
               w == Running("submit", x, "NotifyTeam", "Failed")
    <2>1. [u EXCEPT !.pc = "submit"] = v
      BY <1>1 DEF Running
    <2>2. [v EXCEPT !.execution = x] = w
      BY DEF Running
    <2>3. [w EXCEPT !.playbook = p] = Running("submit", x, p, "Failed")
      BY DEF Running
    <2> HIDE DEF u, v, w
    <2>4. [u EXCEPT !.pc = "submit", !.execution = x, !.playbook = p]
            = [[[u EXCEPT !.pc = "submit"] EXCEPT !.execution = x] EXCEPT !.playbook = p]
      OBVIOUS
    <2> QED BY <2>1, <2>2, <2>3, <2>4 DEF u
  <1>3. ASSUME NEW q
        PROVE  [R!Idle EXCEPT !.pc = "await", !.request = q] = Working("await", q, "Failed")
    <2> DEFINE u == R!Idle
               v == Working("await", None, "Failed")
    <2>1. [u EXCEPT !.pc = "await"] = v
      BY <1>1 DEF Working
    <2>2. [v EXCEPT !.request = q] = Working("await", q, "Failed")
      BY DEF Working
    <2> HIDE DEF u, v
    <2>3. [u EXCEPT !.pc = "await", !.request = q] = [[u EXCEPT !.pc = "await"] EXCEPT !.request = q]
      OBVIOUS
    <2> QED BY <2>1, <2>2, <2>3 DEF u
  <1> QED BY <1>1, <1>2, <1>3

(* The task k moves on to r and w, and no other task moves.                *)
Turns(k, r, w) ==
  /\ run' = [run EXCEPT ![k] = r] \/ (run' = run /\ r = run[k])
  /\ work' = [work EXCEPT ![k] = w] \/ (work' = work /\ w = work[k])

LEMMA TurnStep ==
  ASSUME Typed, NEW k \in Tasks, NEW r \in Runnings, NEW w \in Works, Turns(k, r, w)
  PROVE  /\ run' \in [Tasks -> Runnings] /\ work' \in [Tasks -> Works]
         /\ run'[k] = r /\ work'[k] = w /\ Alone(k)
  <1>1. run \in [Tasks -> Runnings] /\ work \in [Tasks -> Works]
    BY DEF Typed
  <1>2. run' \in [Tasks -> Runnings] /\ run'[k] = r /\ \A q \in Tasks : q # k => run'[q] = run[q]
    BY <1>1, Turn DEF Turns
  <1>3. work' \in [Tasks -> Works] /\ work'[k] = w /\ \A q \in Tasks : q # k => work'[q] = work[q]
    BY <1>1, Turn DEF Turns
  <1> QED BY <1>2, <1>3 DEF Alone

(* The task k runs the playbook p as x, by the request q.                  *)
Busy(k, x, p, q) ==
  run[k].pc # "idle" /\ run[k].execution = x /\ run[k].playbook = p /\ q = RequestOf(x, p)

LEMMA BusyFacts ==
  ASSUME Typed, Layers, NEW k \in Tasks, NEW x \in Executions, NEW p \in Playbooks,
         NEW q, Busy(k, x, p, q)
  PROVE  /\ Runs(run[k], x) /\ RecordOf(k, x) /\ q \in Request /\ q.execution = x
         /\ run[k] \in Runnings /\ work[k] \in Works
         /\ run[k].status \in Outcomes /\ work[k].status \in Statuses
         /\ run[k].pc = "await" <=> work[k].pc # "idle"
         /\ run[k].pc = "await" => work[k].request = q
  <1>1. run[k] \in Runnings /\ work[k] \in Works /\ ShapeOf(run[k], work[k])
    BY DEF Typed, Layers, Shapes
  <1>2. Runs(run[k], x)
    BY DEF Runs, Busy
  <1>3. RecordOf(k, x)
    BY <1>2 DEF Layers, Records, RecordOf
  <1> QED BY <1>1, <1>2, <1>3, Requested DEF Runnings, Works, ShapeOf, Busy

(* A fresh execution is untouched.                                         *)
LEMMA FreshIsUntouched ==
  ASSUME Typed, Layers, NEW x \in Executions, Fresh(x)
  PROVE  /\ Unrun(x)
         /\ Untouched(Told(feed, x), ActsFor(executed, x), Answers(results, x), Logged(executions, x))
  <1> DEFINE told == Told(feed, x)
             V == {e \in Events : About(x, e)}
  <1>1. ASSUME told # <<>>, told[1] = Started(x), 1 \in 1..Len(told)
        PROVE  FALSE
    <2>1. told = Picked(feed, V)
      BY DEF Told
    <2> HIDE DEF told, V
    <2>2. feed \in Seq(Events)
      BY DEF Typed
    <2>3. \A e : OneOf(Picked(feed, V), e) <=> OneOf(feed, e) /\ e \in V
      BY <2>2, PickedElements
    <2>4. OneOf(Picked(feed, V), Started(x))
      BY <1>1, <2>1 DEF OneOf
    <2> QED BY <2>3, <2>4 DEF Fresh, Emitted, OneOf
  <1>2. /\ \A a, b : Len(<<a, b>>) = 2 /\ <<a, b>>[1] = a
        /\ \A a : Len(<<a>>) = 1 /\ <<a>>[1] = a
        /\ \A a, b, c : Len(<<a, b, c>>) = 3 /\ <<a, b, c>>[1] = a
        /\ 1 \in 1..1 /\ 1 \in 1..2 /\ 1 \in 1..3
        /\ \A a, b, c : <<a>> # <<>> /\ <<a, b>> # <<>> /\ <<a, b, c>> # <<>>
    OBVIOUS
  <1> HIDE DEF told
  <1>3. Unrun(x)
    <2> SUFFICES ASSUME NEW k \in Tasks, Runs(run[k], x) PROVE FALSE
      BY DEF Unrun
    <2>1. IsRecord(run[k], work[k], told, ActsFor(executed, x), Answers(results, x), Logged(executions, x))
      BY DEF Layers, Records, told
    <2>2. run[k].execution = x
      BY DEF Runs
    <2>3. told = <<Started(x)>> \/ \E e : told = <<Started(x), e>>
      BY <2>1, <2>2 DEF IsRecord
    <2> QED BY <1>1, <1>2, <2>3
  <1>4. RestOf(x)
    BY <1>3 DEF Layers, AtRest, RestOf, Unrun
  <1>5. CASE WasDropped(x, told, ActsFor(executed, x), Answers(results, x), Logged(executions, x))
    <2>1. told = <<Started(x)>>
      BY <1>5 DEF WasDropped
    <2> QED BY <1>1, <1>2, <2>1
  <1>6. CASE HasEnded(x, told, ActsFor(executed, x), Answers(results, x), Logged(executions, x))
    <2>1. \E d, e : told = <<Started(x), d, e>>
      BY <1>6 DEF HasEnded, Story
    <2> QED BY <1>1, <1>2, <2>1
  <1> QED BY <1>3, <1>4, <1>5, <1>6 DEF RestOf, IsAtRest, told

LEMMA StartStep ==
  ASSUME Typed, Layers, NEW k \in Tasks, NEW x \in Executions, NEW p \in Chosen, Start(k, x, p)
  PROVE  Typed' /\ Layers'
  <1> DEFINE r == Running("submit", x, p, "Failed")
             w == work[k]
  <1>1. p \in Playbooks /\ Started(x) \in Events
    BY ChosenAssumption, EventTypes DEF Events
  <1>2. r \in Runnings /\ w \in Works
    BY <1>1 DEF Runnings, Running, Outcomes, Typed
  <1>3. Turns(k, r, w)
    BY Beginnings DEF Turns, Start
  <1>4. /\ r.pc = "submit" /\ r.execution = x /\ r.playbook = p
        /\ run[k].pc = "idle" /\ w.pc = "idle"
    BY DEF Running, Start, At, Layers, Shapes, ShapeOf
  <1> HIDE DEF r, w
  <1>5. /\ run' \in [Tasks -> Runnings] /\ work' \in [Tasks -> Works]
        /\ run'[k] = r /\ work'[k] = w /\ Alone(k)
    BY <1>2, <1>3, TurnStep
  <1>6. Typed'
    BY <1>1, <1>5 DEF Typed, Start
  <1>7. /\ Unrun(x)
        /\ Untouched(Told(feed, x), ActsFor(executed, x), Answers(results, x), Logged(executions, x))
    BY FreshIsUntouched DEF Start
  <1>8. \A y : Told(feed', y) = IF x = y THEN Append(Told(feed, y), Started(x)) ELSE Told(feed, y)
    BY <1>1, EventsAbout, ToldAppend DEF Start, Typed
  <1>9. OnlyOf(x)
    BY <1>8 DEF OnlyOf, Start
  <1>10. Told(feed', x) = <<Started(x)>>
    BY <1>7, <1>8, Grow DEF Untouched
  <1>11. RecordOf(k, x)'
    BY <1>4, <1>5, <1>7, <1>10 DEF RecordOf, IsRecord, Untouched, Answered, Start
  <1>12. ShapeOf(run'[k], work'[k]) /\ Runs(run'[k], x)
    BY <1>4, <1>5 DEF ShapeOf, Runs
  <1>13. Layers'
    BY <1>4, <1>5, <1>7, <1>9, <1>11, <1>12, Frame
  <1> QED BY <1>6, <1>13

LEMMA SubmitStep ==
  ASSUME Typed, Layers, NEW k \in Tasks, NEW x \in Executions, NEW p \in Playbooks,
         NEW q, Busy(k, x, p, q), Submit(k)
  PROVE  Typed' /\ Layers'
  <1> DEFINE r == Running("await", x, p, run[k].status)
             w == Working("await", q, "Failed")
  <1>1. /\ run[k].pc = "submit" /\ work[k].pc = "idle" /\ Runs(run[k], x) /\ RecordOf(k, x)
        /\ run[k].execution = x /\ run[k].playbook = p /\ q = RequestOf(x, p)
        /\ q \in Request /\ run[k].status \in Outcomes
    BY BusyFacts DEF Submit, At, Busy
  <1>2. r \in Runnings /\ w \in Works
    BY <1>1 DEF Runnings, Running, Works, Working, Statuses, R!Statuses
  <1>3. Turns(k, r, w)
    BY <1>1, RunUpdates, Beginnings DEF Turns, Submit, R!Execute
  <1>4. /\ r.pc = "await" /\ r.execution = x /\ r.playbook = p
        /\ w.pc = "await" /\ w.request = q
    BY DEF Running, Working
  <1>5. UNCHANGED <<feed, executed, results, executions, dropped>> /\ requests' = Append(requests, q)
    BY <1>1 DEF Submit, R!Execute
  <1> HIDE DEF r, w
  <1>6. /\ run' \in [Tasks -> Runnings] /\ work' \in [Tasks -> Works]
        /\ run'[k] = r /\ work'[k] = w /\ Alone(k)
    BY <1>2, <1>3, TurnStep
  <1>7. Typed'
    BY <1>1, <1>5, <1>6 DEF Typed
  <1>8. OnlyOf(x)
    BY <1>5 DEF OnlyOf
  <1>9. RecordOf(k, x)'
    BY <1>1, <1>4, <1>5, <1>6 DEF RecordOf, IsRecord, Answered
  <1>10. ShapeOf(run'[k], work'[k]) /\ Runs(run'[k], x)
    BY <1>1, <1>4, <1>6 DEF ShapeOf, Runs
  <1>11. Layers'
    BY <1>1, <1>6, <1>8, <1>9, <1>10, Frame
  <1> QED BY <1>7, <1>11

LEMMA ActStep ==
  ASSUME Typed, Layers, NEW k \in Tasks, NEW x \in Executions, NEW p \in Playbooks,
         NEW q, Busy(k, x, p, q), R!Act(k), UNCHANGED svars
  PROVE  Typed' /\ Layers'
  <1> DEFINE r == run[k]
             st == work[k].status
             w == Working("acted", q, st)
  <1>1. /\ work[k].pc = "await" /\ Runs(run[k], x) /\ RecordOf(k, x)
        /\ run[k].pc = "await" /\ work[k].request = q
        /\ run[k].execution = x /\ run[k].playbook = p /\ q = RequestOf(x, p)
        /\ q \in Request /\ q.execution = x /\ st \in Statuses /\ r \in Runnings
    BY BusyFacts DEF R!Act, R!At, Busy
  <1>2. w \in Works
    BY <1>1 DEF Works, Working, Statuses, R!Statuses, R!StatusOf
  <1>3. Turns(k, r, w)
    BY <1>1, WorkUpdate DEF Turns, R!Act, svars
  <1>4. w.pc = "acted" /\ w.request = q /\ w.status = st
    BY DEF Working
  <1>5. /\ UNCHANGED <<requests, results, dropped, feed, executions, run>>
        /\ executed' = Append(executed, q)
    BY <1>1 DEF R!Act, svars, R!ResultOf, Result
  <1> HIDE DEF w
  <1>6. /\ run' \in [Tasks -> Runnings] /\ work' \in [Tasks -> Works]
        /\ run'[k] = r /\ work'[k] = w /\ Alone(k)
    BY <1>1, <1>2, <1>3, TurnStep
  <1>7. Typed'
    BY <1>1, <1>5, <1>6 DEF Typed
  <1>12. \A y : ActsFor(executed', y)
                  = IF x = y THEN Append(ActsFor(executed, y), q) ELSE ActsFor(executed, y)
    BY <1>1, <1>5, ActsAppend DEF Typed
  <1>8. OnlyOf(x)
    BY <1>5, <1>12 DEF OnlyOf
  <1>13. ActsFor(executed', x) = <<q>>
    BY <1>1, <1>12, Grow DEF RecordOf, IsRecord
  <1>9. RecordOf(k, x)'
    BY <1>1, <1>4, <1>5, <1>6, <1>13 DEF RecordOf, IsRecord, Answered
  <1>10. ShapeOf(run'[k], work'[k]) /\ Runs(run'[k], x)
    BY <1>1, <1>4, <1>6 DEF ShapeOf, Runs
  <1>11. Layers'
    BY <1>1, <1>6, <1>8, <1>9, <1>10, Frame
  <1> QED BY <1>7, <1>11

LEMMA AnswerStep ==
  ASSUME Typed, Layers, NEW k \in Tasks, NEW x \in Executions, NEW p \in Playbooks,
         NEW q, Busy(k, x, p, q), NEW ok \in BOOLEAN, R!Answer(k, ok), UNCHANGED svars
  PROVE  Typed' /\ Layers'
  <1> DEFINE r == run[k]
             st == work[k].status
             w == Working("record", q, R!StatusOf(ok))
  <1>1. /\ (work[k].pc = "acted" \/ (work[k].pc = "await" /\ ~ok)) /\ Runs(run[k], x) /\ RecordOf(k, x)
        /\ run[k].pc = "await" /\ work[k].request = q
        /\ run[k].execution = x /\ run[k].playbook = p /\ q = RequestOf(x, p)
        /\ q \in Request /\ q.execution = x /\ st \in Statuses /\ r \in Runnings
    BY BusyFacts DEF R!Answer, R!At, Busy
  <1>2. w \in Works
    BY <1>1 DEF Works, Working, Statuses, R!Statuses, R!StatusOf
  <1>3. Turns(k, r, w)
    <2>1. PICK v \in Statuses : v = R!StatusOf(ok)
      BY DEF R!StatusOf, Statuses, R!Statuses
    <2>2. /\ work' = [work EXCEPT ![k].pc = "record", ![k].status = v] /\ run' = run
          /\ w = Working("record", q, v)
      BY <2>1 DEF R!Answer, svars
    <2> HIDE DEF w
    <2>3. [work EXCEPT ![k].pc = "record", ![k].status = v]
            = [work EXCEPT ![k] = Working("record", work[k].request, v)]
      BY <2>1, WorkAnswered
    <2> QED BY <1>1, <2>2, <2>3 DEF Turns
  <1>4. w.pc = "record" /\ w.request = q /\ w.status = R!StatusOf(ok)
    BY DEF Working
  <1>5. UNCHANGED <<requests, executed, results, dropped, feed, executions, run>>
    BY <1>1 DEF R!Answer, svars, R!ResultOf, Result
  <1> HIDE DEF w
  <1>6. /\ run' \in [Tasks -> Runnings] /\ work' \in [Tasks -> Works]
        /\ run'[k] = r /\ work'[k] = w /\ Alone(k)
    BY <1>1, <1>2, <1>3, TurnStep
  <1>7. Typed'
    BY <1>1, <1>5, <1>6 DEF Typed
  <1>8. OnlyOf(x)
    BY <1>5 DEF OnlyOf
  <1>9. RecordOf(k, x)'
    BY <1>1, <1>4, <1>5, <1>6 DEF RecordOf, IsRecord, Answered, FinalStatus, R!StatusOf
  <1>10. ShapeOf(run'[k], work'[k]) /\ Runs(run'[k], x)
    BY <1>1, <1>4, <1>6 DEF ShapeOf, Runs
  <1>11. Layers'
    BY <1>1, <1>6, <1>8, <1>9, <1>10, Frame
  <1> QED BY <1>7, <1>11

LEMMA RecordStep ==
  ASSUME Typed, Layers, NEW k \in Tasks, NEW x \in Executions, NEW p \in Playbooks,
         NEW q, Busy(k, x, p, q), R!Record(k), UNCHANGED svars
  PROVE  Typed' /\ Layers'
  <1> DEFINE r == run[k]
             st == work[k].status
             w == Working("announce", q, st)
  <1>1. /\ work[k].pc = "record" /\ Runs(run[k], x) /\ RecordOf(k, x)
        /\ run[k].pc = "await" /\ work[k].request = q
        /\ run[k].execution = x /\ run[k].playbook = p /\ q = RequestOf(x, p)
        /\ q \in Request /\ q.execution = x /\ st \in Statuses /\ r \in Runnings
    BY BusyFacts DEF R!Record, R!At, Busy
  <1>2. w \in Works
    BY <1>1 DEF Works, Working, Statuses, R!Statuses, R!StatusOf
  <1>3. Turns(k, r, w)
    BY <1>1, WorkUpdate DEF Turns, R!Record, svars
  <1>4. w.pc = "announce" /\ w.request = q /\ w.status = st
    BY DEF Working
  <1>5. /\ UNCHANGED <<requests, executed, dropped, feed, executions, run>>
        /\ results' = Append(results, Result(q, st))
    BY <1>1 DEF R!Record, svars, R!ResultOf, Result
  <1> HIDE DEF w
  <1>6. /\ run' \in [Tasks -> Runnings] /\ work' \in [Tasks -> Works]
        /\ run'[k] = r /\ work'[k] = w /\ Alone(k)
    BY <1>1, <1>2, <1>3, TurnStep
  <1>12. Result(q, st) \in Results /\ Result(q, st).request.execution = x
    BY <1>1 DEF Results, Result
  <1>7. Typed'
    BY <1>1, <1>5, <1>6, <1>12 DEF Typed
  <1>13. \A y : Answers(results', y)
                  = IF x = y THEN Append(Answers(results, y), Result(q, st)) ELSE Answers(results, y)
    BY <1>1, <1>5, <1>12, AnswersAppend DEF Typed
  <1>8. OnlyOf(x)
    BY <1>5, <1>13 DEF OnlyOf
  <1>14. Answers(results', x) = <<Result(q, st)>>
    BY <1>1, <1>13, Grow DEF RecordOf, IsRecord, Answered
  <1>9. RecordOf(k, x)'
    BY <1>1, <1>4, <1>5, <1>6, <1>14 DEF RecordOf, IsRecord, Answered, FinalStatus
  <1>10. ShapeOf(run'[k], work'[k]) /\ Runs(run'[k], x)
    BY <1>1, <1>4, <1>6 DEF ShapeOf, Runs
  <1>11. Layers'
    BY <1>1, <1>6, <1>8, <1>9, <1>10, Frame
  <1> QED BY <1>7, <1>11

LEMMA AnnounceStep ==
  ASSUME Typed, Layers, NEW k \in Tasks, NEW x \in Executions, NEW p \in Playbooks,
         NEW q, Busy(k, x, p, q), R!Announce(k), UNCHANGED svars
  PROVE  Typed' /\ Layers'
  <1> DEFINE r == run[k]
             st == work[k].status
             w == Working("returned", q, st)
  <1>1. /\ work[k].pc = "announce" /\ Runs(run[k], x) /\ RecordOf(k, x)
        /\ run[k].pc = "await" /\ work[k].request = q
        /\ run[k].execution = x /\ run[k].playbook = p /\ q = RequestOf(x, p)
        /\ q \in Request /\ q.execution = x /\ st \in Statuses /\ r \in Runnings
    BY BusyFacts DEF R!Announce, R!At, Busy
  <1>2. w \in Works
    BY <1>1 DEF Works, Working, Statuses, R!Statuses, R!StatusOf
  <1>3. Turns(k, r, w)
    BY <1>1, WorkUpdate DEF Turns, R!Announce, svars
  <1>4. w.pc = "returned" /\ w.request = q /\ w.status = st
    BY DEF Working
  <1>5. /\ UNCHANGED <<requests, executed, results, dropped, executions, run>>
        /\ feed' = Append(feed, R!EventOf(Result(q, st)))
    BY <1>1 DEF R!Announce, svars, R!ResultOf, Result
  <1> HIDE DEF w
  <1>6. /\ run' \in [Tasks -> Runnings] /\ work' \in [Tasks -> Works]
        /\ run'[k] = r /\ work'[k] = w /\ Alone(k)
    BY <1>1, <1>2, <1>3, TurnStep
  <1>12. /\ Result(q, st) \in Results /\ Result(q, st).request.execution = x
         /\ R!EventOf(Result(q, st)) \in Events
    BY <1>1, EventTypes DEF Results, Result, Events
  <1>7. Typed'
    BY <1>1, <1>5, <1>6, <1>12 DEF Typed
  <1>13. \A y : Told(feed', y)
                  = IF x = y THEN Append(Told(feed, y), R!EventOf(Result(q, st))) ELSE Told(feed, y)
    <2> DEFINE e == R!EventOf(Result(q, st))
    <2>1. e \in Events /\ feed' = Append(feed, e) /\ \A y : About(y, e) <=> x = y
      BY <1>5, <1>12, EventsAbout
    <2> HIDE DEF e
    <2>2. \A y : Told(feed', y) = IF x = y THEN Append(Told(feed, y), e) ELSE Told(feed, y)
      BY <2>1, ToldAppend DEF Typed
    <2> QED BY <2>2 DEF e
  <1>8. OnlyOf(x)
    BY <1>5, <1>13 DEF OnlyOf
  <1>14. Told(feed', x) = <<Started(x), R!EventOf(Result(q, st))>>
    BY <1>1, <1>13, Grow DEF RecordOf, IsRecord
  <1>9. RecordOf(k, x)'
    BY <1>1, <1>4, <1>5, <1>6, <1>14 DEF RecordOf, IsRecord, Answered, FinalStatus
  <1>10. ShapeOf(run'[k], work'[k]) /\ Runs(run'[k], x)
    BY <1>1, <1>4, <1>6 DEF ShapeOf, Runs
  <1>11. Layers'
    BY <1>1, <1>6, <1>8, <1>9, <1>10, Frame
  <1> QED BY <1>7, <1>11

LEMMA KeepStep ==
  ASSUME Typed, Layers, NEW k \in Tasks, NEW x \in Executions, NEW p \in Playbooks,
         NEW q, Busy(k, x, p, q), Keep(k)
  PROVE  Typed' /\ Layers'
  <1> DEFINE st == work[k].status
             s == OutcomeOf(st)
             r == Running("end", x, p, s)
             w == R!Idle
  <1>1. /\ run[k].pc = "await" /\ work[k].pc = "returned" /\ Runs(run[k], x) /\ RecordOf(k, x)
        /\ run[k].execution = x /\ run[k].playbook = p /\ q = RequestOf(x, p)
        /\ q \in Request /\ st \in Statuses
    BY BusyFacts DEF Keep, At, R!Return, R!At, Busy
  <1>2. /\ r \in Runnings /\ w \in Works /\ s \in Outcomes /\ Entry(x, s) \in LogEntries
        /\ Entry(x, s).of = x /\ StatusFor(s) = st
    BY <1>1, Beginnings
       DEF Runnings, Running, Works, Working, Statuses, R!Statuses, Outcomes, OutcomeOf, StatusFor,
           LogEntries, Entry
  <1>3. Turns(k, r, w)
    <2>1. /\ run' = [run EXCEPT ![k].pc = "end", ![k].status = s]
          /\ work' = [work EXCEPT ![k] = w]
      BY DEF Keep, R!Return, Outcome, OutcomeOf
    <2> HIDE DEF s, w
    <2>2. [run EXCEPT ![k].pc = "end", ![k].status = s]
            = [run EXCEPT ![k] = Running("end", run[k].execution, run[k].playbook, s)]
      BY <1>2, RunUpdates
    <2> QED BY <1>1, <2>1, <2>2 DEF Turns
  <1>4. r.pc = "end" /\ r.execution = x /\ r.playbook = p /\ r.status = s /\ w.pc = "idle"
    BY Beginnings DEF Running, Working
  <1>5. /\ UNCHANGED <<feed, executed, results, requests, dropped>>
        /\ executions' = Append(executions, Entry(x, s))
    BY <1>1 DEF Keep, R!Return, Entry, Outcome, OutcomeOf
  <1> HIDE DEF r, w, s
  <1>6. /\ run' \in [Tasks -> Runnings] /\ work' \in [Tasks -> Works]
        /\ run'[k] = r /\ work'[k] = w /\ Alone(k)
    BY <1>2, <1>3, TurnStep
  <1>7. Typed'
    BY <1>2, <1>5, <1>6 DEF Typed
  <1>12. \A y : Logged(executions', y)
                  = IF x = y THEN Append(Logged(executions, y), Entry(x, s)) ELSE Logged(executions, y)
    BY <1>2, <1>5, LoggedAppend DEF Typed
  <1>8. OnlyOf(x)
    BY <1>5, <1>12 DEF OnlyOf
  <1>13. Logged(executions', x) = <<Entry(x, s)>>
    BY <1>1, <1>12, Grow DEF RecordOf, IsRecord
  <1>9. RecordOf(k, x)'
    BY <1>1, <1>2, <1>4, <1>5, <1>6, <1>13 DEF RecordOf, IsRecord, Answered, FinalStatus
  <1>10. ShapeOf(run'[k], work'[k]) /\ Runs(run'[k], x)
    BY <1>1, <1>4, <1>6 DEF ShapeOf, Runs
  <1>11. Layers'
    BY <1>1, <1>6, <1>8, <1>9, <1>10, Frame
  <1> QED BY <1>7, <1>11

LEMMA EndStep ==
  ASSUME Typed, Layers, NEW k \in Tasks, NEW x \in Executions, NEW p \in Playbooks,
         NEW q, Busy(k, x, p, q), End(k)
  PROVE  Typed' /\ Layers'
  <1> DEFINE s == run[k].status
             r == NotRunning
             w == work[k]
  <1>1. /\ run[k].pc = "end" /\ work[k].pc = "idle" /\ Runs(run[k], x) /\ RecordOf(k, x)
        /\ run[k].execution = x /\ run[k].playbook = p /\ q = RequestOf(x, p)
        /\ s \in Outcomes /\ w \in Works
    BY BusyFacts DEF End, At, Busy
  <1>2. /\ r \in Runnings /\ r.pc = "idle" /\ Ended(x, s) \in Events
    BY <1>1, Beginnings, EventTypes DEF Runnings, Running, Playbooks, Outcomes, Events
  <1>3. Turns(k, r, w)
    BY DEF Turns, End
  <1>5. /\ UNCHANGED <<executed, results, requests, dropped, executions>>
        /\ feed' = Append(feed, Ended(x, s))
    BY <1>1 DEF End
  <1> HIDE DEF r, w
  <1>6. /\ run' \in [Tasks -> Runnings] /\ work' \in [Tasks -> Works]
        /\ run'[k] = r /\ work'[k] = w /\ Alone(k)
    BY <1>1, <1>2, <1>3, TurnStep
  <1>7. Typed'
    BY <1>2, <1>5, <1>6 DEF Typed
  <1>12. \A y : Told(feed', y) = IF x = y THEN Append(Told(feed, y), Ended(x, s)) ELSE Told(feed, y)
    <2> DEFINE e == Ended(x, s)
    <2>1. e \in Events /\ feed' = Append(feed, e) /\ \A y : About(y, e) <=> x = y
      BY <1>2, <1>5, EventsAbout
    <2> HIDE DEF e
    <2>2. \A y : Told(feed', y) = IF x = y THEN Append(Told(feed, y), e) ELSE Told(feed, y)
      BY <2>1, ToldAppend DEF Typed
    <2> QED BY <2>2 DEF e
  <1>8. OnlyOf(x)
    BY <1>5, <1>12 DEF OnlyOf
  <1>13. Told(feed', x) = Story(p, x, s)
    <2>1. Told(feed, x) = <<Started(x), R!EventOf(Result(q, StatusFor(s)))>>
      <3>1. FinalStatus(run[k], work[k]) = StatusFor(s)
        BY <1>1 DEF FinalStatus
      <3>2. Told(feed, x) = IF run[k].pc = "end" \/ work[k].pc = "returned"
                            THEN <<Started(x), R!EventOf(Result(q, FinalStatus(run[k], work[k])))>>
                            ELSE <<Started(x)>>
        BY <1>1 DEF RecordOf, IsRecord
      <3> QED BY <1>1, <3>1, <3>2
    <2>2. Told(feed', x) = <<Started(x), R!EventOf(Result(q, StatusFor(s))), Ended(x, s)>>
      <3>1. Told(feed', x) = Append(Told(feed, x), Ended(x, s))
        BY <1>12
      <3> QED BY <2>1, <3>1, Grow
    <2>3. Result(q, StatusFor(s))
            = [request |-> RequestOf(x, p), status |-> IF s = "Completed" THEN "Executed" ELSE "Failed"]
      BY <1>1 DEF Result, StatusFor
    <2> QED BY <2>2, <2>3 DEF Story
  <1>9. RestOf(x)'
    <2>1. /\ ActsFor(executed, x) = <<>> \/ ActsFor(executed, x) = <<q>>
          /\ StatusFor(s) = "Executed" => ActsFor(executed, x) = <<q>>
          /\ Answers(results, x) = <<Result(q, StatusFor(s))>>
          /\ Logged(executions, x) = <<Entry(x, s)>>
      BY <1>1 DEF RecordOf, IsRecord, Answered, FinalStatus
    <2>2. s = "Failed" \/ StatusFor(s) = "Executed"
      BY <1>1 DEF StatusFor, Outcomes
    <2>3. HasEnded(x, Told(feed', x), ActsFor(executed, x), Answers(results, x), Logged(executions, x))
      BY <1>1, <1>13, <2>1, <2>2 DEF HasEnded
    <2> QED BY <1>5, <2>3 DEF RestOf, IsAtRest
  <1>10. ShapeOf(run'[k], work'[k]) /\ run'[k].pc = "idle"
    BY <1>1, <1>2, <1>6 DEF ShapeOf, w
  <1>11. Layers'
    BY <1>1, <1>6, <1>8, <1>9, <1>10, Frame
  <1> QED BY <1>7, <1>11

LEMMA AbandonStep ==
  ASSUME Typed, Layers, NEW k \in Tasks, NEW x \in Executions, NEW p \in Playbooks,
         NEW q, Busy(k, x, p, q), Abandon(k)
  PROVE  Typed' /\ Layers'
  <1> DEFINE r == NotRunning
             w == R!Idle
  <1>1. /\ run[k].pc = "await" /\ work[k].pc \in {"await", "acted"}
        /\ Runs(run[k], x) /\ RecordOf(k, x) /\ work[k].request = q /\ q \in Request
        /\ run[k].execution = x /\ run[k].playbook = p /\ q = RequestOf(x, p)
    BY BusyFacts DEF Abandon, At, R!Abandon, Busy
  <1>2. r \in Runnings /\ r.pc = "idle" /\ w \in Works /\ w.pc = "idle"
    BY <1>1, Beginnings
       DEF Runnings, Running, Playbooks, Outcomes, Works, Working, Statuses, R!Statuses
  <1>3. Turns(k, r, w)
    BY DEF Turns, Abandon, R!Abandon
  <1>5. /\ UNCHANGED <<executed, results, requests, feed, executions>>
        /\ dropped' = [dropped EXCEPT ![q] = @ + 1]
    BY <1>1 DEF Abandon, R!Abandon
  <1> HIDE DEF r, w
  <1>6. /\ run' \in [Tasks -> Runnings] /\ work' \in [Tasks -> Works]
        /\ run'[k] = r /\ work'[k] = w /\ Alone(k)
    BY <1>1, <1>2, <1>3, TurnStep
  <1>7. Typed'
    BY <1>1, <1>5, <1>6 DEF Typed
  <1>8. OnlyOf(x)
    BY <1>5 DEF OnlyOf
  <1>9. RestOf(x)'
    <2>1. WasDropped(x, Told(feed, x), ActsFor(executed, x), Answers(results, x), Logged(executions, x))
      BY <1>1 DEF RecordOf, IsRecord, Answered, WasDropped
    <2> QED BY <1>5, <2>1 DEF RestOf, IsAtRest
  <1>10. ShapeOf(run'[k], work'[k]) /\ run'[k].pc = "idle"
    BY <1>2, <1>6 DEF ShapeOf
  <1>11. Layers'
    BY <1>1, <1>6, <1>8, <1>9, <1>10, Frame
  <1> QED BY <1>7, <1>11

-----------------------------------------------------------------------------
(***************************************************************************)
(* The inductive invariant.                                                *)
(***************************************************************************)
LEMMA InitIInv == Init => Typed /\ Layers
  <1> SUFFICES ASSUME Init PROVE Typed /\ Layers
    OBVIOUS
  <1>1. /\ requests = <<>> /\ executed = <<>> /\ results = <<>> /\ feed = <<>> /\ executions = <<>>
        /\ dropped = [r \in Request |-> 0] /\ work = [k \in Tasks |-> R!Idle]
        /\ run = [k \in Tasks |-> NotRunning]
    BY DEF Init, R!Init
  <1>2. /\ R!Idle \in Works /\ R!Idle.pc = "idle"
        /\ NotRunning \in Runnings /\ NotRunning.pc = "idle"
    BY Beginnings
       DEF Works, Working, Runnings, Running, Statuses, R!Statuses, Outcomes, Playbooks
  <1>3. Typed
    BY <1>1, <1>2 DEF Typed
  <1>4. \A x : /\ Told(feed, x) = <<>> /\ ActsFor(executed, x) = <<>>
               /\ Answers(results, x) = <<>> /\ Logged(executions, x) = <<>>
    BY <1>1, PickedEmpty DEF Told, ActsFor, Answers, Logged
  <1>5. Layers
    BY <1>1, <1>2, <1>4
       DEF Layers, Shapes, ShapeOf, Apart, Records, AtRest, Runs, IsAtRest, Untouched
  <1> QED BY <1>3, <1>5

LEMMA ContinueStep ==
  ASSUME Typed, Layers, NEW k \in Tasks, Continue(k) \/ Abandon(k)
  PROVE  Typed' /\ Layers'
  <1>1. run[k] \in Runnings /\ ShapeOf(run[k], work[k])
    BY DEF Typed, Layers, Shapes
  <1>2. run[k].pc # "idle"
    BY <1>1
       DEF Continue, Submit, Respond, Keep, End, Abandon, ShapeOf, At, R!Backend, R!Act, R!Answer,
           R!Record, R!Announce, R!Abandon, R!At
  <1>3. PICK x \in Executions, p \in Playbooks : Busy(k, x, p, RequestOf(x, p))
    BY <1>1, <1>2 DEF Busy, Runnings, ShapeOf
  <1>4. CASE Submit(k)
    BY <1>3, <1>4, SubmitStep
  <1>5. CASE Keep(k)
    BY <1>3, <1>5, KeepStep
  <1>6. CASE End(k)
    BY <1>3, <1>6, EndStep
  <1>7. CASE Abandon(k)
    BY <1>3, <1>7, AbandonStep
  <1>8. CASE Respond(k)
    <2>1. UNCHANGED svars
      BY <1>8 DEF Respond
    <2>2. CASE R!Act(k)
      BY <1>3, <2>1, <2>2, ActStep
    <2>3. ASSUME NEW ok \in BOOLEAN, R!Answer(k, ok) PROVE Typed' /\ Layers'
      BY <1>3, <2>1, <2>3, AnswerStep
    <2>4. CASE R!Record(k)
      BY <1>3, <2>1, <2>4, RecordStep
    <2>5. CASE R!Announce(k)
      BY <1>3, <2>1, <2>5, AnnounceStep
    <2> QED BY <1>8, <2>2, <2>3, <2>4, <2>5 DEF Respond, R!Backend
  <1> QED BY <1>4, <1>5, <1>6, <1>7, <1>8 DEF Continue

LEMMA StepIInv == Typed /\ Layers /\ [Next]_vars => Typed' /\ Layers'
  <1> SUFFICES ASSUME Typed, Layers, [Next]_vars PROVE Typed' /\ Layers'
    OBVIOUS
  <1>1. ASSUME NEW k \in Tasks, NEW x \in Executions, NEW p \in Chosen, Start(k, x, p)
        PROVE  Typed' /\ Layers'
    BY <1>1, StartStep
  <1>2. ASSUME NEW k \in Tasks, Continue(k) \/ Abandon(k)
        PROVE  Typed' /\ Layers'
    BY <1>2, ContinueStep
  <1>3. CASE UNCHANGED vars
    BY <1>3
       DEF vars, Typed, Layers, Shapes, Apart, Records, AtRest
  <1> QED BY <1>1, <1>2, <1>3 DEF Next

LEMMA Invariance == Spec => [](Typed /\ Layers)
  BY InitIInv, StepIInv, PTL DEF Spec

(* Every state has the types TypeOK gives: the response engine inside, the *)
(* log of executions and the tasks of run_playbook (soar/src/engine.rs).   *)
THEOREM TypeCorrect == Spec => []TypeOK
  <1>1. Typed /\ Layers => TypeOK
    BY TypedIsTypeOK
  <1> QED BY <1>1, Invariance, PTL

-----------------------------------------------------------------------------
(***************************************************************************)
(* What the layers say of one execution, whether a task runs it or not.    *)
(***************************************************************************)
Accords(x, p, s, n) ==
  LET q == RequestOf(x, p)
  IN  /\ Told(feed, x) = SubSeq(Story(p, x, s), 1, n)
      /\ ActsFor(executed, x) = <<>> \/ ActsFor(executed, x) = <<q>>
      /\ \/ Logged(executions, x) = <<>> /\ n < 3
         \/ /\ Logged(executions, x) = <<Entry(x, s)>>
            /\ Answers(results, x) = <<Result(q, StatusFor(s))>>
            /\ s = "Completed" => ActsFor(executed, x) = <<q>>

LEMMA Beginning ==
  ASSUME NEW p \in Playbooks, NEW x, NEW s
  PROVE  /\ SubSeq(Story(p, x, s), 1, 0) = <<>>
         /\ SubSeq(Story(p, x, s), 1, 1) = <<Started(x)>>
         /\ SubSeq(Story(p, x, s), 1, 2)
              = <<Started(x), R!EventOf(Result(RequestOf(x, p), StatusFor(s)))>>
         /\ SubSeq(Story(p, x, s), 1, 3) = Story(p, x, s)
  <1> DEFINE a == Started(x)
             b == R!EventOf(Result(RequestOf(x, p), StatusFor(s)))
             c == Ended(x, s)
  <1>1. Story(p, x, s) = <<a, b, c>>
    BY DEF Story, Result, StatusFor
  <1> HIDE DEF a, b, c
  <1>2. /\ SubSeq(<<a, b, c>>, 1, 0) = <<>>
        /\ SubSeq(<<a, b, c>>, 1, 1) = <<a>>
        /\ SubSeq(<<a, b, c>>, 1, 2) = <<a, b>>
        /\ SubSeq(<<a, b, c>>, 1, 3) = <<a, b, c>>
    BY Subs
  <1> QED BY <1>1, <1>2 DEF a, b

LEMMA Consistent ==
  ASSUME Typed, Layers, NEW x \in Executions
  PROVE  \E p \in Playbooks, s \in Outcomes, n \in 0..3 : Accords(x, p, s, n)
  <1>1. CASE Unrun(x)
    <2>1. RestOf(x)
      BY <1>1 DEF Unrun, Layers, AtRest, RestOf
    <2> DEFINE told == Told(feed, x)
               acts == ActsFor(executed, x)
               answers == Answers(results, x)
               log == Logged(executions, x)
    <2>2. CASE Untouched(told, acts, answers, log)
      <3>1. Accords(x, "NotifyTeam", "Failed", 0)
        BY <2>2, Beginning DEF Untouched, Accords, Playbooks
      <3> QED BY <3>1 DEF Playbooks, Outcomes
    <2>3. CASE WasDropped(x, told, acts, answers, log)
      <3>1. PICK p \in Playbooks : acts = <<>> \/ acts = <<RequestOf(x, p)>>
        BY <2>3 DEF WasDropped, Playbooks
      <3>2. PICK s \in Outcomes : TRUE
        BY DEF Outcomes
      <3>3. SubSeq(Story(p, x, s), 1, 1) = <<Started(x)>>
        BY Beginning
      <3>4. told = <<Started(x)>> /\ log = <<>> /\ 1 < 3 /\ 1 \in 0..3
        BY <2>3 DEF WasDropped
      <3>5. Accords(x, p, s, 1)
        BY <3>1, <3>3, <3>4 DEF Accords
      <3> QED BY <3>2, <3>4, <3>5
    <2>4. CASE HasEnded(x, told, acts, answers, log)
      <3>1. PICK p \in Playbooks, s \in Outcomes :
              /\ told = Story(p, x, s)
              /\ acts = <<RequestOf(x, p)>> \/ (acts = <<>> /\ s = "Failed")
              /\ answers = <<Result(RequestOf(x, p), StatusFor(s))>>
              /\ log = <<Entry(x, s)>>
        BY <2>4 DEF HasEnded
      <3>2. Accords(x, p, s, 3)
        BY <3>1, Beginning DEF Accords
      <3> QED BY <3>2
    <2> QED BY <2>1, <2>2, <2>3, <2>4 DEF RestOf, IsAtRest
  <1>2. ASSUME NEW k \in Tasks, Runs(run[k], x)
        PROVE  \E p \in Playbooks, s \in Outcomes, n \in 0..3 : Accords(x, p, s, n)
    <2> DEFINE p == run[k].playbook
               q == RequestOf(x, p)
               st == FinalStatus(run[k], work[k])
               s == IF run[k].pc = "end" THEN run[k].status ELSE OutcomeOf(st)
               n == IF run[k].pc = "end" \/ work[k].pc = "returned" THEN 2 ELSE 1
    <2>1. /\ run[k] \in Runnings /\ work[k] \in Works /\ run[k].execution = x
          /\ RecordOf(k, x)
      BY <1>2 DEF Typed, Runs, Layers, Records, RecordOf
    <2>2. p \in Playbooks /\ s \in Outcomes /\ st \in Statuses /\ n \in 0..3 /\ n < 3
          /\ StatusFor(s) = st
      BY <2>1
         DEF Runnings, Works, Outcomes, OutcomeOf, FinalStatus, StatusFor, Statuses, R!Statuses
    <2>3. Told(feed, x) = SubSeq(Story(p, x, s), 1, n)
      <3>1. Told(feed, x) = IF n = 2 THEN <<Started(x), R!EventOf(Result(q, StatusFor(s)))>>
                                     ELSE <<Started(x)>>
        BY <2>1, <2>2 DEF RecordOf, IsRecord
      <3>2. n = 1 \/ n = 2
        OBVIOUS
      <3> HIDE DEF n, s, p
      <3> QED BY <2>2, <3>1, <3>2, Beginning DEF q
    <2>4. ActsFor(executed, x) = <<>> \/ ActsFor(executed, x) = <<q>>
      BY <2>1 DEF RecordOf, IsRecord
    <2>5. \/ Logged(executions, x) = <<>>
          \/ /\ Logged(executions, x) = <<Entry(x, s)>>
             /\ Answers(results, x) = <<Result(q, StatusFor(s))>>
             /\ s = "Completed" => ActsFor(executed, x) = <<q>>
      <3>1. CASE run[k].pc # "end"
        BY <2>1, <3>1 DEF RecordOf, IsRecord
      <3>2. CASE run[k].pc = "end"
        <4>1. /\ Logged(executions, x) = <<Entry(x, s)>>
              /\ Answers(results, x) = <<Result(q, st)>>
              /\ st = "Executed" => ActsFor(executed, x) = <<q>>
          BY <2>1, <3>2 DEF RecordOf, IsRecord, Answered
        <4>2. s = "Completed" => st = "Executed"
          BY <2>2 DEF StatusFor
        <4> QED BY <2>2, <4>1, <4>2
      <3> QED BY <3>1, <3>2
    <2>6. Accords(x, p, s, n)
      <3> HIDE DEF n, s, p, st
      <3> QED BY <2>2, <2>3, <2>4, <2>5 DEF Accords, q
    <2> HIDE DEF n, s, p
    <2> QED BY <2>2, <2>6
  <1> QED BY <1>1, <1>2 DEF Unrun

(* The events of an execution are the beginning of one story.              *)
THEOREM CausalFeedHolds == Spec => []CausalFeed
  <1>1. ASSUME Typed, Layers PROVE CausalFeed
    <2> SUFFICES ASSUME NEW x \in Executions
                 PROVE  \E p \in Playbooks, s \in Outcomes, n \in 0..3 :
                          Sift(feed, {m \in 1..Len(feed) : About(x, feed[m])})
                            = SubSeq(Story(p, x, s), 1, n)
      BY DEF CausalFeed
    <2>1. PICK p \in Playbooks, s \in Outcomes, n \in 0..3 : Accords(x, p, s, n)
      BY <1>1, Consistent
    <2>2. {m \in 1..Len(feed) : About(x, feed[m])} = Places(feed, {e \in Events : About(x, e)})
      BY <1>1 DEF Places, Typed
    <2>3. Told(feed, x) = Sift(feed, {m \in 1..Len(feed) : About(x, feed[m])})
      BY <2>2 DEF Told, Picked
    <2> QED BY <2>1, <2>3 DEF Accords
  <1> QED BY <1>1, Invariance, PTL

(* What is picked from the logs is what is there.                          *)
LEMMA FeedElements ==
  ASSUME Typed, NEW x
  PROVE  \A e : Emitted(e) /\ About(x, e) => OneOf(Told(feed, x), e)
  <1> DEFINE V == {d \in Events : About(x, d)}
  <1>1. feed \in Seq(Events)
    BY DEF Typed
  <1>2. \A e : OneOf(feed, e) => Emitted(e) /\ e \in Events
    BY <1>1 DEF OneOf, Emitted
  <1>3. \A e : Emitted(e) /\ About(x, e) => OneOf(feed, e) /\ e \in V
    BY <1>2 DEF OneOf, Emitted
  <1> HIDE DEF V
  <1>4. \A e : OneOf(Picked(feed, V), e) <=> OneOf(feed, e) /\ e \in V
    BY <1>1, PickedElements
  <1>5. Told(feed, x) = Picked(feed, V)
    BY DEF Told, V
  <1> QED BY <1>3, <1>4, <1>5

LEMMA ActElements ==
  ASSUME Typed, NEW x
  PROVE  LET I == {n \in 1..Len(executed) : executed[n].execution = x}
         IN  IsFiniteSet(I) /\ Len(ActsFor(executed, x)) = Cardinality(I)
  <1> DEFINE V == {q \in Request : q.execution = x}
  <1>1. executed \in Seq(Request)
    BY DEF Typed
  <1>2. {n \in 1..Len(executed) : executed[n].execution = x} = Places(executed, V)
    BY <1>1 DEF Places
  <1> HIDE DEF V
  <1>3. Len(Picked(executed, V)) = Cardinality(Places(executed, V))
    BY <1>1, PickedElements
  <1>4. IsFiniteSet(Places(executed, V))
    BY <1>1, PlacesFinite
  <1> QED BY <1>2, <1>3, <1>4 DEF ActsFor, V

LEMMA ResultElements ==
  ASSUME Typed, NEW x
  PROVE  \A r : OneOf(Answers(results, x), r) <=> OneOf(results, r) /\ r.request.execution = x
  <1> DEFINE V == {r \in Results : r.request.execution = x}
  <1>1. results \in Seq(Results)
    BY DEF Typed
  <1>2. \A r : OneOf(results, r) => (r \in V <=> r.request.execution = x)
    BY <1>1 DEF OneOf
  <1> HIDE DEF V
  <1>3. \A r : OneOf(Picked(results, V), r) <=> OneOf(results, r) /\ r \in V
    BY <1>1, PickedElements
  <1>4. Answers(results, x) = Picked(results, V)
    BY DEF Answers, V
  <1> QED BY <1>2, <1>3, <1>4

LEMMA LogElements ==
  ASSUME Typed, NEW x
  PROVE  LET I == {n \in 1..Len(executions) : executions[n].of = x}
         IN  /\ IsFiniteSet(I) /\ Len(Logged(executions, x)) = Cardinality(I)
             /\ \A e : OneOf(Logged(executions, x), e) <=> OneOf(executions, e) /\ e.of = x
  <1> DEFINE V == {e \in LogEntries : e.of = x}
             I == {n \in 1..Len(executions) : executions[n].of = x}
  <1>1. executions \in Seq(LogEntries)
    BY DEF Typed
  <1>2. I = Places(executions, V)
    BY <1>1 DEF Places
  <1>3. \A e : OneOf(executions, e) => (e \in V <=> e.of = x)
    BY <1>1 DEF OneOf
  <1> HIDE DEF V, I
  <1>4. /\ \A e : OneOf(Picked(executions, V), e) <=> OneOf(executions, e) /\ e \in V
        /\ Len(Picked(executions, V)) = Cardinality(Places(executions, V))
    BY <1>1, PickedElements
  <1>5. IsFiniteSet(Places(executions, V))
    BY <1>1, PlacesFinite
  <1>6. Logged(executions, x) = Picked(executions, V)
    BY DEF Logged, V
  <1>7. /\ IsFiniteSet(I) /\ Len(Logged(executions, x)) = Cardinality(I)
        /\ \A e : OneOf(Logged(executions, x), e) <=> OneOf(executions, e) /\ e.of = x
    BY <1>2, <1>3, <1>4, <1>5, <1>6
  <1> QED BY <1>7 DEF I

LEMMA Few ==
  /\ Len(<<>>) = 0
  /\ \A a : Len(<<a>>) = 1 /\ \A k \in 1..Len(<<a>>) : <<a>>[k] = a
  /\ \A a, b : \A k \in 1..Len(<<a, b>>) : <<a, b>>[k] \in {a, b}
  /\ \A a, b, c : \A k \in 1..Len(<<a, b, c>>) : <<a, b, c>>[k] \in {a, b, c}
  <1>1. \A a, b : \A k \in 1..Len(<<a, b>>) : <<a, b>>[k] \in {a, b}
    <2>1. \A k \in 1..2 : k = 1 \/ k = 2
      OBVIOUS
    <2>2. \A a, b : Len(<<a, b>>) = 2 /\ <<a, b>>[1] = a /\ <<a, b>>[2] = b
      OBVIOUS
    <2> QED BY <2>1, <2>2
  <1>2. \A a, b, c : \A k \in 1..Len(<<a, b, c>>) : <<a, b, c>>[k] \in {a, b, c}
    <2>1. \A k \in 1..3 : k = 1 \/ k = 2 \/ k = 3
      OBVIOUS
    <2>2. \A a, b, c : Len(<<a, b, c>>) = 3 /\ <<a, b, c>>[1] = a /\ <<a, b, c>>[2] = b
                       /\ <<a, b, c>>[3] = c
      OBVIOUS
    <2> QED BY <2>1, <2>2
  <1>3. \A a : Len(<<a>>) = 1 /\ \A k \in 1..Len(<<a>>) : <<a>>[k] = a
    OBVIOUS
  <1> QED BY <1>1, <1>2, <1>3

(* The end is told last.                                                   *)
LEMMA EndIsTold ==
  ASSUME NEW x, NEW p \in Playbooks, NEW s \in Outcomes, NEW n \in 0..3, NEW t \in Outcomes,
         NEW k \in 1..Len(SubSeq(Story(p, x, s), 1, n)),
         SubSeq(Story(p, x, s), 1, n)[k] = Ended(x, t)
  PROVE  n = 3 /\ t = s
  <1> DEFINE a == Started(x)
             b == R!EventOf(Result(RequestOf(x, p), StatusFor(s)))
             c == Ended(x, s)
             d == Ended(x, t)
  <1>1. d # a /\ d # b /\ (d = c => t = s)
    BY DEF Started, Ended, R!EventOf
  <1>2. Story(p, x, s) = <<a, b, c>>
    BY DEF Story, Result, StatusFor
  <1>3. n = 0 \/ n = 1 \/ n = 2 \/ n = 3
    OBVIOUS
  <1>4. /\ SubSeq(Story(p, x, s), 1, 0) = <<>>
        /\ SubSeq(Story(p, x, s), 1, 1) = <<a>>
        /\ SubSeq(Story(p, x, s), 1, 2) = <<a, b>>
        /\ SubSeq(Story(p, x, s), 1, 3) = <<a, b, c>>
    BY <1>2, Beginning
  <1> HIDE DEF a, b, c, d
  <1>5. CASE n = 0
    <2>1. k \in 1..Len(<<>>)
      BY <1>4, <1>5
    <2> QED BY <2>1, Few
  <1>6. CASE n = 1
    <2>1. k \in 1..Len(<<a>>) /\ <<a>>[k] = d
      BY <1>4, <1>6 DEF d
    <2> QED BY <1>1, <2>1, Few
  <1>7. CASE n = 2
    <2>1. k \in 1..Len(<<a, b>>) /\ <<a, b>>[k] = d
      BY <1>4, <1>7 DEF d
    <2> QED BY <1>1, <2>1, Few
  <1>8. CASE n = 3
    <2>1. k \in 1..Len(<<a, b, c>>) /\ <<a, b, c>>[k] = d
      BY <1>4, <1>8 DEF d
    <2>2. d \in {a, b, c}
      BY <2>1, Few
    <2> QED BY <1>1, <1>8, <2>2
  <1> QED BY <1>3, <1>5, <1>6, <1>7, <1>8

(* The log of executions, the response log, the acts of the backend and the*)
(* feed agree about an execution (run_playbook, execute_action).           *)
THEOREM LogsAgreeHolds == Spec => []LogsAgree
  <1>1. ASSUME Typed, Layers PROVE LogsAgree
    <2> SUFFICES
          ASSUME NEW x \in Executions
          PROVE  LET logged == {n \in 1..Len(executions) : executions[n].of = x}
                     acted  == {n \in 1..Len(executed) : executed[n].execution = x}
                 IN  /\ Cardinality(logged) <= 1 /\ Cardinality(acted) <= 1
                     /\ \A s \in Outcomes : Emitted(Ended(x, s)) =>
                          \E n \in logged : executions[n].status = s
                     /\ \A n \in logged :
                          executions[n].status = "Completed" <=>
                            \E j \in 1..Len(results) : results[j].request.execution = x
                                                    /\ results[j].status = "Executed"
                     /\ \A n \in logged : executions[n].status = "Completed" => acted # {}
      BY DEF LogsAgree
    <2> DEFINE logged == {n \in 1..Len(executions) : executions[n].of = x}
               acted  == {n \in 1..Len(executed) : executed[n].execution = x}
    <2>1. PICK p \in Playbooks, s \in Outcomes, m \in 0..3 : Accords(x, p, s, m)
      BY <1>1, Consistent
    <2> DEFINE q == RequestOf(x, p)
               acts == ActsFor(executed, x)
               answers == Answers(results, x)
               log == Logged(executions, x)
    <2>2. /\ Told(feed, x) = SubSeq(Story(p, x, s), 1, m)
          /\ acts = <<>> \/ acts = <<q>>
          /\ \/ log = <<>> /\ m < 3
             \/ /\ log = <<Entry(x, s)>>
                /\ answers = <<Result(q, StatusFor(s))>>
                /\ s = "Completed" => acts = <<q>>
      BY <2>1 DEF Accords
    <2>3. IsFiniteSet(acted) /\ Len(acts) = Cardinality(acted)
      BY <1>1, ActElements
    <2>4. /\ IsFiniteSet(logged) /\ Len(log) = Cardinality(logged)
          /\ \A e : OneOf(log, e) <=> OneOf(executions, e) /\ e.of = x
      BY <1>1, LogElements
    <2>5. \A r : OneOf(answers, r) <=> OneOf(results, r) /\ r.request.execution = x
      BY <1>1, ResultElements
    <2>10. \A e : OneOf(log, e) <=> \E n \in logged : executions[n] = e
      BY <2>4 DEF OneOf
    <2>11. \A e : Emitted(e) /\ About(x, e) => OneOf(Told(feed, x), e)
      BY <1>1, FeedElements
    <2>6. Entry(x, s).status = s /\ Result(q, StatusFor(s)).status = StatusFor(s)
      BY DEF Entry, Result
    <2> HIDE DEF logged, acted, acts, answers, log, q
    <2>7. Cardinality(logged) <= 1 /\ Cardinality(acted) <= 1
      BY <2>2, <2>3, <2>4, Few
    <2>8. ASSUME NEW t \in Outcomes, Emitted(Ended(x, t))
          PROVE  \E n \in logged : executions[n].status = t
      <3>1. About(x, Ended(x, t))
        BY EventsAbout
      <3>2. OneOf(Told(feed, x), Ended(x, t))
        BY <2>8, <2>11, <3>1
      <3>3. m = 3 /\ t = s
        <4>1. OneOf(SubSeq(Story(p, x, s), 1, m), Ended(x, t))
          BY <2>2, <3>2
        <4>2. PICK k \in 1..Len(SubSeq(Story(p, x, s), 1, m)) :
                     SubSeq(Story(p, x, s), 1, m)[k] = Ended(x, t)
          BY <4>1 DEF OneOf
        <4> QED BY <4>2, EndIsTold
      <3>4. log = <<Entry(x, s)>>
        BY <2>2, <3>3
      <3>5. OneOf(log, Entry(x, s))
        BY <3>4, Few DEF OneOf
      <3> QED BY <2>6, <2>10, <3>3, <3>5
    <2>9. ASSUME NEW n \in logged
          PROVE  /\ executions[n].status = "Completed" <=>
                      \E j \in 1..Len(results) : results[j].request.execution = x
                                              /\ results[j].status = "Executed"
                 /\ executions[n].status = "Completed" => acted # {}
      <3>1. OneOf(log, executions[n])
        BY <2>10
      <3>2. log # <<>>
        BY <3>1, Few DEF OneOf
      <3>3. /\ log = <<Entry(x, s)>> /\ answers = <<Result(q, StatusFor(s))>>
            /\ s = "Completed" => acts = <<q>>
        BY <2>2, <3>2
      <3>4. executions[n].status = s
        <4>1. executions[n] = Entry(x, s)
          BY <3>1, <3>3, Few DEF OneOf
        <4> QED BY <2>6, <4>1
      <3>5. \A r : OneOf(results, r) /\ r.request.execution = x <=> r = Result(q, StatusFor(s))
        <4>1. \A r : OneOf(answers, r) <=> r = Result(q, StatusFor(s))
          BY <3>3, Few DEF OneOf
        <4> QED BY <2>5, <4>1
      <3>6. ASSUME NEW j \in 1..Len(results), results[j].request.execution = x
            PROVE  results[j].status = StatusFor(s)
        <4>1. OneOf(results, results[j])
          BY DEF OneOf
        <4>2. results[j] = Result(q, StatusFor(s))
          BY <3>5, <3>6, <4>1
        <4> QED BY <2>6, <4>2
      <3>7. \E j \in 1..Len(results) :
              results[j].request.execution = x /\ results[j].status = StatusFor(s)
        <4>1. /\ OneOf(results, Result(q, StatusFor(s)))
              /\ Result(q, StatusFor(s)).request.execution = x
          BY <3>5
        <4> QED BY <2>6, <4>1 DEF OneOf
      <3>8. s = "Completed" <=> StatusFor(s) = "Executed"
        BY DEF StatusFor
      <3>9. s = "Completed" => acted # {}
        <4>1. s = "Completed" => Cardinality(acted) = 1
          BY <2>3, <3>3, Few
        <4> QED BY <4>1, FS_EmptySet
      <3> QED BY <3>4, <3>6, <3>7, <3>8, <3>9
    <2> QED BY <2>7, <2>8, <2>9 DEF logged, acted
  <1> QED BY <1>1, Invariance, PTL

-----------------------------------------------------------------------------
(***************************************************************************)
(* The SOAR engine is a caller of the response engine.                     *)
(***************************************************************************)
(* The execution an event is about, and the event's number among those.    *)
Subject(e) == IF e.kind \in R!OwnKinds THEN e.of.execution ELSE e.of
Number(n) == Rank({m \in 1..Len(feed) : Subject(feed[m]) = Subject(feed[n])}, n)

LEMMA SubjectOfEvent ==
  \A e \in Events : Subject(e) \in Executions /\ \A x : About(x, e) <=> Subject(e) = x
  BY DEF Subject, About, Events, PlaybookEvents, OwnEvents, Request, Started, Ended, R!OwnKinds

(* Three events of each execution at most are in the feed; fewer, if one of*)
(* them has fewer: there is room for another.                              *)
LEMMA RoomInFeed ==
  ASSUME Typed, Layers, NEW x \in Executions, Len(Told(feed, x)) < 3
  PROVE  Len(feed) < 3 * Cardinality(Executions)
  <1> DEFINE L == Len(feed)
             I(y) == {m \in 1..L : Subject(feed[m]) = y}
             f == [n \in 1..L |-> <<Subject(feed[n]), Number(n)>>]
             P == Executions \X (1..3)
             T == P \ {<<x, 3>>}
  <1>1. feed \in Seq(Events) /\ L \in Nat
    BY DEF Typed
  <1>2. ASSUME NEW y \in Executions
        PROVE  /\ Rank(I(y), L) = Len(Told(feed, y)) /\ Rank(I(y), L) \in Nat
               /\ Rank(I(y), L) <= 3 /\ (y = x => Rank(I(y), L) < 3)
    <2>1. I(y) = Places(feed, {e \in Events : About(y, e)})
      BY <1>1, SubjectOfEvent DEF Places
    <2>2. Len(Picked(feed, {e \in Events : About(y, e)})) = Rank(I(y), L)
      BY <1>1, <2>1, SiftChoice DEF Picked
    <2>3. PICK p \in Playbooks, s \in Outcomes, n \in 0..3 : Accords(y, p, s, n)
      BY Consistent
    <2>4. Told(feed, y) = SubSeq(Story(p, y, s), 1, n)
      BY <2>3 DEF Accords
    <2>5. Len(SubSeq(Story(p, y, s), 1, n)) \in 0..3
      <3>1. PICK a, b, c : Story(p, y, s) = <<a, b, c>>
        BY DEF Story
      <3>2. Len(<<>>) = 0 /\ Len(<<a>>) = 1 /\ Len(<<a, b>>) = 2 /\ Len(<<a, b, c>>) = 3
        OBVIOUS
      <3>3. n = 0 \/ n = 1 \/ n = 2 \/ n = 3
        OBVIOUS
      <3> QED BY <3>1, <3>2, <3>3, Subs
    <2>6. Len(Told(feed, y)) = Rank(I(y), L)
      BY <2>2 DEF Told
    <2> QED BY <2>4, <2>5, <2>6
  <1>3. ASSUME NEW n \in 1..L
        PROVE  /\ Subject(feed[n]) \in Executions /\ n \in I(Subject(feed[n]))
               /\ Number(n) = Rank(I(Subject(feed[n])), n) /\ Number(n) \in Nat
               /\ 1 <= Number(n) /\ Number(n) <= Rank(I(Subject(feed[n])), L)
    <2> DEFINE y == Subject(feed[n])
               J == I(y)
    <2>1. y \in Executions /\ n \in J
      BY <1>1, SubjectOfEvent
    <2>2. Number(n) = Rank(J, n)
      BY DEF Number
    <2> HIDE DEF J, y
    <2>3. Rank(J, 0) < Rank(J, n) /\ Rank(J, 0) = 0 /\ Rank(J, n) \in Nat
      BY <1>1, <2>1, RankLess, RankZero, RankNat
    <2>4. Rank(J, n) <= Rank(J, L)
      <3>1. J \cap 1..n \subseteq J \cap 1..L
        BY <1>1
      <3>2. IsFiniteSet(J \cap 1..L)
        BY <1>1, RankStep
      <3> QED BY <3>1, <3>2, FS_Subset DEF Rank
    <2> QED BY <2>1, <2>2, <2>3, <2>4 DEF J, y
  <1> HIDE DEF L
  <1>4. \A n \in 1..L : <<Subject(feed[n]), Number(n)>> \in T
    <2> SUFFICES ASSUME NEW n \in 1..L PROVE <<Subject(feed[n]), Number(n)>> \in T
      OBVIOUS
    <2> DEFINE y == Subject(feed[n])
    <2>1. /\ y \in Executions /\ Number(n) \in Nat /\ 1 <= Number(n)
          /\ Number(n) <= Rank(I(y), L)
      BY <1>3
    <2>2. Rank(I(y), L) \in Nat /\ Rank(I(y), L) <= 3 /\ (y = x => Rank(I(y), L) < 3)
      BY <1>2, <2>1
    <2> HIDE DEF y, I
    <2>3. Number(n) \in 1..3 /\ (y = x => Number(n) # 3)
      BY <2>1, <2>2
    <2> QED BY <2>1, <2>3 DEF y
  <1>5. \A m, n \in 1..L : m < n => f[m] # f[n]
    <2> SUFFICES ASSUME NEW m \in 1..L, NEW n \in 1..L, m < n, Subject(feed[m]) = Subject(feed[n]),
                        Number(m) = Number(n)
                 PROVE  FALSE
      OBVIOUS
    <2> DEFINE J == I(Subject(feed[n]))
    <2>1. Number(m) = Rank(J, m) /\ Number(n) = Rank(J, n) /\ n \in J
          /\ Number(m) \in Nat /\ Number(n) \in Nat
      BY <1>3
    <2> HIDE DEF J
    <2>2. Rank(J, m) < Rank(J, n)
      BY <1>1, <2>1, RankLess
    <2>3. \A a, b \in Nat : a < b => a # b
      OBVIOUS
    <2> QED BY <2>1, <2>2, <2>3
  <1>6. f \in Injection(1..L, T)
    <2>1. f \in [1..L -> T]
      BY <1>4
    <2>2. \A m, n \in 1..L : f[m] = f[n] => m = n
      BY <1>1, <1>5
    <2> HIDE DEF f, T
    <2> QED BY <2>1, <2>2 DEF Injection, IsInjective
  <1>7. IsFiniteSet(T) /\ Cardinality(T) = 3 * Cardinality(Executions) - 1
    <2>1. IsFiniteSet(1..3) /\ Cardinality(1..3) = 3
      BY UpTo
    <2>2. IsFiniteSet(P) /\ Cardinality(P) = Cardinality(Executions) * 3
      BY <2>1, ExecutionAssumption, FS_Product
    <2>3. Cardinality(Executions) \in Nat /\ <<x, 3>> \in P
      BY ExecutionAssumption, FS_CardinalityType
    <2> HIDE DEF P
    <2>4. IsFiniteSet(P \ {<<x, 3>>}) /\ Cardinality(P \ {<<x, 3>>}) = Cardinality(P) - 1
      BY <2>2, <2>3, FS_RemoveElement
    <2> QED BY <2>2, <2>3, <2>4
  <1> HIDE DEF f, T
  <1>8. L <= Cardinality(T)
    <2>1. Cardinality(1..L) <= Cardinality(T)
      BY <1>6, <1>7, FS_Injection
    <2>2. Cardinality(1..L) = L
      BY <1>1, UpTo
    <2> QED BY <2>1, <2>2
  <1>9. Cardinality(Executions) \in Nat
    BY ExecutionAssumption, FS_CardinalityType
  <1> QED BY <1>1, <1>7, <1>8, <1>9 DEF L

(* A step of the SOAR engine is one of the response engine, which starts   *)
(* and ends of playbooks are foreign to, or none of its business.          *)
LEMMA StepIsResponse ==
  ASSUME Typed, Layers, [Next]_vars
  PROVE  [R!Next]_(R!vars)
  <1>1. ASSUME NEW k \in Tasks, NEW x \in Executions, NEW p \in Chosen, Start(k, x, p)
        PROVE  R!Next
    <2>1. Told(feed, x) = <<>>
      BY <1>1, FreshIsUntouched DEF Start, Untouched
    <2>2. Len(Told(feed, x)) < 3
      BY <2>1
    <2>3. Len(feed) < 3 * Cardinality(Executions)
      BY <2>2, RoomInFeed
    <2>4. Started(x) \in PlaybookEvents
      BY EventTypes
    <2>5. R!EmitForeign(Started(x))
      BY <1>1, <2>3 DEF Start, R!EmitForeign
    <2> QED BY <2>4, <2>5 DEF R!Next
  <1>2. ASSUME NEW k \in Tasks, Submit(k)
        PROVE  R!Next
    <2>1. run[k] \in Runnings /\ ShapeOf(run[k], work[k]) /\ run[k].pc = "submit"
      BY <1>2 DEF Typed, Layers, Shapes, Submit, At
    <2>2. RequestOf(run[k].execution, run[k].playbook) \in Request
      BY <2>1, Requested DEF Runnings, ShapeOf
    <2> QED BY <1>2, <2>2 DEF Submit, R!Next
  <1>3. ASSUME NEW k \in Tasks, Respond(k)
        PROVE  R!Next
    BY <1>3 DEF Respond, R!Next, R!Continue
  <1>4. ASSUME NEW k \in Tasks, Keep(k)
        PROVE  R!Next
    BY <1>4 DEF Keep, R!Next, R!Continue
  <1>5. ASSUME NEW k \in Tasks, Abandon(k)
        PROVE  R!Next
    BY <1>5 DEF Abandon, R!Next
  <1>6. ASSUME NEW k \in Tasks, End(k)
        PROVE  R!Next
    <2> DEFINE x == run[k].execution
               s == run[k].status
    <2>1. run[k] \in Runnings /\ ShapeOf(run[k], work[k]) /\ run[k].pc = "end"
      BY <1>6 DEF Typed, Layers, Shapes, End, At
    <2>2. x \in Executions /\ s \in Outcomes /\ Runs(run[k], x)
      BY <2>1 DEF Runnings, ShapeOf, Runs
    <2>3. RecordOf(k, x)
      BY <2>2 DEF Layers, Records, RecordOf
    <2>4. Len(Told(feed, x)) < 3
      <3>1. \A a, b : Len(<<a, b>>) = 2
        OBVIOUS
      <3>2. \E a, b : Told(feed, x) = <<a, b>>
        BY <2>1, <2>3 DEF RecordOf, IsRecord
      <3> QED BY <3>1, <3>2
    <2>5. Len(feed) < 3 * Cardinality(Executions)
      BY <2>2, <2>4, RoomInFeed
    <2>6. Ended(x, s) \in PlaybookEvents
      BY <2>2, EventTypes
    <2>7. R!EmitForeign(Ended(x, s))
      BY <1>6, <2>5 DEF End, R!EmitForeign
    <2> QED BY <2>6, <2>7 DEF R!Next
  <1>7. CASE UNCHANGED vars
    BY <1>7 DEF vars, R!vars
  <1> QED BY <1>1, <1>2, <1>3, <1>4, <1>5, <1>6, <1>7 DEF Next, Continue

(* The SOAR engine implements the response engine as one more caller of it:*)
(* what is true of Response whatever its callers do is true here.          *)
THEOREM ImplementsResponse == Spec => IsResponse
  <1>1. Init => R!Init
    BY DEF Init
  <1>2. Typed /\ Layers /\ [Next]_vars => [R!Next]_(R!vars)
    BY StepIsResponse
  <1> QED BY <1>1, <1>2, Invariance, PTL DEF Spec, IsResponse, R!Spec
=============================================================================
