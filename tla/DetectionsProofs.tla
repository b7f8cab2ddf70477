-------------------------- MODULE DetectionsProofs --------------------------
(***************************************************************************)
(* Theorems about the detection engine, for any threads, rules and events. *)
(* The operators of the proofs take the calls and the logs they speak of   *)
(* as arguments, so that they apply before a step and after it.            *)
(***************************************************************************)
EXTENDS Detections, SiftingLemmas, SequenceTheorems

Jobs  == [rule : Rules, ev : Nat]
Calls == [pc : {"idle", "snapshot", "read", "eval", "match", "store", "emit"},
          ingest : BOOLEAN, ev : Nat, todo : Seq(Jobs), found : Seq(Triggers)]
Buffered == [event : Events, known : Nat]
Matches  == [rule : Rules, ev : Nat, ingest : BOOLEAN]

-----------------------------------------------------------------------------
(***************************************************************************)
(* Where a call can be, and what its jobs and its triggers refer to.       *)
(***************************************************************************)
Shaped(c) ==
  /\ c.pc = "idle" => ~c.ingest /\ c.todo = <<>> /\ c.found = <<>>
  /\ c.pc = "snapshot" => c.ingest /\ c.todo = <<>> /\ c.found = <<>>
  /\ c.pc = "read" => ~c.ingest /\ c.found = <<>>
  /\ c.pc = "match" => c.todo # <<>>
  /\ c.pc \in {"store", "emit"} => c.ingest /\ c.todo = <<>> /\ c.found # <<>>
  /\ c.ingest => Len(c.todo) + Len(c.found) <= MaxRules

JobsFit(c, b) ==
  /\ c.ingest => c.ev \in 1..Len(b)
  /\ \A j \in 1..Len(c.todo) :
       /\ c.todo[j].rule.enabled
       /\ c.ingest => c.todo[j].ev = c.ev
       /\ ~c.ingest => c.todo[j].rule.kind = "Scheduled"
       /\ c.pc # "read" => c.todo[j].ev \in 1..Len(b)

FoundFits(c, ms) ==
  /\ \A k \in 1..Len(c.found) :
       LET m == c.found[k].match
       IN  /\ m \in 1..Len(ms)
           /\ ms[m].rule = c.found[k].rule
           /\ ms[m].ingest = c.ingest
           /\ c.ingest => ms[m].ev = c.ev
  /\ \A j, k \in 1..Len(c.found) : c.found[j].match = c.found[k].match => j = k

Sane(c, b, ms) == Shaped(c) /\ JobsFit(c, b) /\ FoundFits(c, ms)

(* The thread that publishes has the lock, and the two logs agree except   *)
(* for the trigger that it has stored and not announced yet.               *)
OwnerHasLock == \A t \in Threads : (At(t, "store") \/ At(t, "emit")) <=> lock = t

LogsAgree ==
  IF lock # None /\ At(lock, "emit")
  THEN triggers = Append(events, Head(call[lock].found))
  ELSE triggers = events

Base ==
  /\ TypeOK /\ Len(rules) <= MaxRules
  /\ \A t \in Threads : Sane(call[t], buffer, matches)
  /\ OwnerHasLock /\ LogsAgree

-----------------------------------------------------------------------------
(***************************************************************************)
(* Logs only grow, and what a call refers to stays where it is.            *)
(***************************************************************************)
Extends(s, r) == Len(s) <= Len(r) /\ \A n \in 1..Len(s) : r[n] = s[n]

LEMMA ExtendsAppend ==
  ASSUME NEW S, NEW s \in Seq(S), NEW x
  PROVE  Extends(s, s) /\ Extends(s, Append(s, x))
  BY DEF Extends

LEMMA SaneStays ==
  ASSUME NEW c \in Calls, NEW b \in Seq(Buffered), NEW b2 \in Seq(Buffered), Extends(b, b2),
         NEW ms \in Seq(Matches), NEW ms2 \in Seq(Matches), Extends(ms, ms2), Sane(c, b, ms)
  PROVE  Sane(c, b2, ms2)
  <1> USE DEF Extends, Sane
  <1>1. Len(b) \in Nat /\ Len(b2) \in Nat /\ Len(ms) \in Nat /\ Len(ms2) \in Nat
    OBVIOUS
  <1>2. JobsFit(c, b2)
    BY <1>1 DEF JobsFit
  <1>3. FoundFits(c, ms2)
    BY <1>1 DEF FoundFits
  <1> QED BY <1>2, <1>3

(* A call that goes on with the jobs, or the triggers, that it has.        *)
LEMMA SameJobs ==
  ASSUME NEW c, NEW d, NEW b, JobsFit(c, b), c.pc # "read",
         d.todo = c.todo, d.ingest = c.ingest, d.ev = c.ev
  PROVE  JobsFit(d, b)
  BY DEF JobsFit

LEMMA FewerJobs ==
  ASSUME NEW c \in Calls, NEW d, NEW b, JobsFit(c, b), c.pc # "read", c.todo # <<>>,
         d.todo = Tail(c.todo), d.ingest = c.ingest, d.ev = c.ev
  PROVE  JobsFit(d, b) /\ Len(d.todo) = Len(c.todo) - 1 /\ Len(c.todo) \in Nat
  <1>1. c.todo \in Seq(Jobs)
    BY DEF Calls
  <1>2. /\ Len(c.todo) \in Nat /\ Len(Tail(c.todo)) = Len(c.todo) - 1
        /\ \A j \in 1..Len(Tail(c.todo)) : j + 1 \in 1..Len(c.todo) /\ Tail(c.todo)[j] = c.todo[j + 1]
    BY <1>1
  <1>3. JobsFit(d, b)
    BY <1>2 DEF JobsFit
  <1> QED BY <1>2, <1>3

LEMMA SameFound ==
  ASSUME NEW c, NEW d, NEW ms, FoundFits(c, ms),
         d.found = c.found, d.ingest = c.ingest, d.ev = c.ev
  PROVE  FoundFits(d, ms)
  BY DEF FoundFits

LEMMA FewerFound ==
  ASSUME NEW c \in Calls, NEW d, NEW ms, FoundFits(c, ms), c.found # <<>>,
         d.found = Tail(c.found), d.ingest = c.ingest, d.ev = c.ev
  PROVE  FoundFits(d, ms) /\ Len(d.found) = Len(c.found) - 1 /\ Len(c.found) \in Nat
  <1>1. c.found \in Seq(Triggers)
    BY DEF Calls
  <1>2. /\ Len(c.found) \in Nat /\ Len(Tail(c.found)) = Len(c.found) - 1
        /\ \A j \in 1..Len(Tail(c.found)) : j + 1 \in 1..Len(c.found) /\ Tail(c.found)[j] = c.found[j + 1]
    BY <1>1
  <1>3. FoundFits(d, ms)
    BY <1>2 DEF FoundFits
  <1> QED BY <1>2, <1>3

(* The matches of a log are kept apart by a trigger for a later one.       *)
LEMMA MoreFound ==
  ASSUME NEW c \in Calls, NEW d, NEW ms \in Seq(Matches), NEW y \in Matches, NEW x \in Triggers,
         FoundFits(c, ms), d.found = Append(c.found, x), d.ingest = c.ingest, d.ev = c.ev,
         x.match = Len(ms) + 1, y.rule = x.rule, y.ingest = c.ingest, c.ingest => y.ev = c.ev
  PROVE  FoundFits(d, Append(ms, y)) /\ Len(d.found) = Len(c.found) + 1 /\ Len(c.found) \in Nat
  <1> DEFINE N == Len(ms) + 1
             K == Len(c.found) + 1
             ms2 == Append(ms, y)
             found == Append(c.found, x)
  <1>1. c.found \in Seq(Triggers)
    BY DEF Calls
  <1>2. /\ Len(ms) \in Nat /\ Len(ms2) = N /\ ms2[N] = y
        /\ \A m \in 1..Len(ms) : ms2[m] = ms[m]
    OBVIOUS
  <1>3. /\ Len(c.found) \in Nat /\ Len(found) = K /\ found[K] = x
        /\ \A k \in 1..Len(c.found) : found[k] = c.found[k]
    BY <1>1
  <1> HIDE DEF ms2, found
  <1>4. ASSUME NEW k \in 1..Len(c.found)
        PROVE  LET m == found[k].match
               IN  /\ m \in 1..Len(ms) /\ ms2[m].rule = found[k].rule
                   /\ ms2[m].ingest = c.ingest /\ (c.ingest => ms2[m].ev = c.ev)
    <2>1. found[k] = c.found[k]
      BY <1>3, <1>4
    <2>2. /\ c.found[k].match \in 1..Len(ms)
          /\ ms[c.found[k].match].rule = c.found[k].rule
          /\ ms[c.found[k].match].ingest = c.ingest
          /\ c.ingest => ms[c.found[k].match].ev = c.ev
      BY <1>4 DEF FoundFits
    <2> QED BY <1>2, <2>1, <2>2
  <1>5. /\ found[K].match = N /\ ms2[N].rule = found[K].rule
        /\ ms2[N].ingest = c.ingest /\ (c.ingest => ms2[N].ev = c.ev)
    BY <1>2, <1>3
  <1>6. \A k \in 1..K : k = K \/ k \in 1..Len(c.found)
    BY <1>3
  <1>7. ASSUME NEW k \in 1..Len(found)
        PROVE  LET m == found[k].match
               IN  /\ m \in 1..Len(ms2) /\ ms2[m].rule = found[k].rule
                   /\ ms2[m].ingest = c.ingest /\ (c.ingest => ms2[m].ev = c.ev)
    <2>1. CASE k = K
      BY <1>2, <1>5, <2>1
    <2>2. CASE k \in 1..Len(c.found)
      BY <1>2, <1>4, <2>2
    <2> QED BY <1>3, <1>6, <2>1, <2>2
  <1>8. ASSUME NEW j \in 1..Len(found), NEW k \in 1..Len(found), found[j].match = found[k].match
        PROVE  j = k
    <2>1. \A i \in 1..Len(c.found) : found[i].match # N
      BY <1>2, <1>4
    <2>2. \A h, i \in 1..Len(c.found) : found[h].match = found[i].match => h = i
      BY <1>3 DEF FoundFits
    <2> QED BY <1>3, <1>5, <1>6, <1>8, <2>1, <2>2
  <1>9. d.found = found
    BY DEF found
  <1> QED BY <1>3, <1>7, <1>8, <1>9 DEF FoundFits, ms2

LEMMA StaysShaped ==
  ASSUME NEW c, NEW d, Shaped(c), d.pc = "eval", d.ingest = c.ingest,
         Len(c.todo) \in Nat, Len(c.found) \in Nat, Len(d.todo) = Len(c.todo) - 1,
         Len(d.found) = Len(c.found) \/ Len(d.found) = Len(c.found) + 1
  PROVE  Shaped(d)
  <1>1. c.ingest => Len(c.todo) + Len(c.found) <= MaxRules
    BY DEF Shaped
  <1>2. MaxRules \in Nat
    BY BoundAssumption
  <1>3. c.ingest => Len(d.todo) + Len(d.found) <= MaxRules
    <2> DEFINE a == Len(c.todo)
               b == Len(c.found)
               m == Len(d.todo)
               n == Len(d.found)
    <2>1. a \in Nat /\ b \in Nat /\ m = a - 1 /\ (n = b \/ n = b + 1)
      OBVIOUS
    <2>2. c.ingest => a + b <= MaxRules
      BY <1>1
    <2> HIDE DEF a, b, m, n
    <2>3. c.ingest => m + n <= MaxRules
      BY <1>2, <2>1, <2>2
    <2> QED BY <2>3 DEF m, n
  <1> QED BY <1>3 DEF Shaped

(* What a step does to the calls.                                          *)
Turns(t, pc, ingest, ev, todo, found) ==
  /\ call' \in [Threads -> Calls]
  /\ call'[t].pc = pc /\ call'[t].ingest = ingest /\ call'[t].ev = ev
  /\ call'[t].todo = todo /\ call'[t].found = found
  /\ \A u \in Threads : u # t => call'[u] = call[u]

Logs ==
  /\ rules \in Seq(Rules) /\ buffer \in Seq(Buffered) /\ matches \in Seq(Matches)
  /\ triggers \in Seq(Triggers) /\ events \in Seq(Triggers)
  /\ lock \in Threads \cup {None} /\ call \in [Threads -> Calls]

LEMMA Typed == TypeOK <=> Logs
  BY DEF TypeOK, Logs, Calls, Jobs, Buffered, Matches

LEMMA TypedNext == TypeOK' <=> Logs'
  BY Typed, PTL

(* The jobs a call starts with.                                            *)
JobsFor(use, ev) == [k \in 1..Len(use) |-> [rule |-> use[k], ev |-> ev]]
JobsAgainst(use, n) ==
  [k \in 1..(Len(use) * n) |->
     [rule |-> use[((k - 1) \div n) + 1].rule, ev |-> ((k - 1) % n) + 1]]

LEMMA JobsForType ==
  ASSUME NEW use \in Seq(Rules), NEW ev \in Nat
  PROVE  /\ JobsFor(use, ev) \in Seq(Jobs) /\ Len(JobsFor(use, ev)) = Len(use)
         /\ \A k \in 1..Len(use) : JobsFor(use, ev)[k] = [rule |-> use[k], ev |-> ev]
  <1>1. Len(use) \in Nat /\ \A k \in 1..Len(use) : [rule |-> use[k], ev |-> ev] \in Jobs
    BY DEF Jobs
  <1> QED BY <1>1 DEF JobsFor

LEMMA JobsAgainstType ==
  ASSUME NEW use \in Seq(Jobs), NEW n \in Nat
  PROVE  /\ JobsAgainst(use, n) \in Seq(Jobs)
         /\ \A k \in 1..Len(JobsAgainst(use, n)) :
              /\ \E i \in 1..Len(use) : JobsAgainst(use, n)[k].rule = use[i].rule
              /\ JobsAgainst(use, n)[k].ev \in 1..n
  <1>1. Len(use) \in Nat /\ Len(use) * n \in Nat
    OBVIOUS
  <1>2. ASSUME NEW k \in 1..(Len(use) * n)
        PROVE  ((k - 1) \div n) + 1 \in 1..Len(use) /\ ((k - 1) % n) + 1 \in 1..n
    <2> DEFINE L == Len(use)
               q == (k - 1) \div n
               r == (k - 1) % n
    <2>1. n > 0 /\ k - 1 \in Nat /\ k - 1 < L * n
      <3>1. n = 0 => L * n = 0
        BY <1>1
      <3> QED BY <1>1, <3>1
    <2>2. q \in Nat /\ r \in 0..(n - 1) /\ k - 1 = n * q + r
      BY <2>1
    <2> HIDE DEF L, q, r
    <2>3. q < L
      <3>1. L \in Nat
        BY <1>1 DEF L
      <3>2. q >= L => n * q >= n * L
        BY <2>1, <2>2, <3>1
      <3> QED BY <2>1, <2>2, <3>1, <3>2
    <2> QED BY <2>1, <2>2, <2>3 DEF L, q, r
  <1>3. \A k \in 1..(Len(use) * n) :
          [rule |-> use[((k - 1) \div n) + 1].rule, ev |-> ((k - 1) % n) + 1] \in Jobs
    <2> SUFFICES ASSUME NEW k \in 1..(Len(use) * n)
                 PROVE  [rule |-> use[((k - 1) \div n) + 1].rule, ev |-> ((k - 1) % n) + 1] \in Jobs
      OBVIOUS
    <2>1. use[((k - 1) \div n) + 1] \in Jobs /\ ((k - 1) % n) + 1 \in Nat
      BY <1>2
    <2> QED BY <2>1 DEF Jobs
  <1>4. /\ JobsAgainst(use, n) \in Seq(Jobs) /\ Len(JobsAgainst(use, n)) = Len(use) * n
        /\ \A k \in 1..(Len(use) * n) :
             JobsAgainst(use, n)[k]
               = [rule |-> use[((k - 1) \div n) + 1].rule, ev |-> ((k - 1) % n) + 1]
    BY <1>1, <1>3 DEF JobsAgainst
  <1>5. ASSUME NEW k \in 1..(Len(use) * n)
        PROVE  /\ \E i \in 1..Len(use) : JobsAgainst(use, n)[k].rule = use[i].rule
               /\ JobsAgainst(use, n)[k].ev \in 1..n
    <2>1. JobsAgainst(use, n)[k]
            = [rule |-> use[((k - 1) \div n) + 1].rule, ev |-> ((k - 1) % n) + 1]
      BY <1>4
    <2>2. JobsAgainst(use, n)[k].rule = use[((k - 1) \div n) + 1].rule
          /\ JobsAgainst(use, n)[k].ev = ((k - 1) % n) + 1
      BY <2>1
    <2> QED BY <1>2, <2>2
  <1> QED BY <1>4, <1>5

-----------------------------------------------------------------------------
(***************************************************************************)
(* The steps, one by one.                                                  *)
(***************************************************************************)
EnabledRules   == Sift(rules, {k \in 1..Len(rules) : Enabled(rules[k])})
ScheduledRules == Sift(rules, {k \in 1..Len(rules) : EnabledScheduled(rules[k])})

Quiet == UNCHANGED <<triggers, events, lock>>

LEMMA CallType ==
  ASSUME NEW f \in [Threads -> Calls], NEW t \in Threads, NEW n \in Nat
  PROVE  [f EXCEPT ![t].pc = "snapshot", ![t].ingest = TRUE, ![t].ev = n] \in [Threads -> Calls]
  <1> DEFINE g == [f EXCEPT ![t].pc = "snapshot"]
             h == [f EXCEPT ![t].pc = "snapshot", ![t].ingest = TRUE]
             i == [f EXCEPT ![t].pc = "snapshot", ![t].ingest = TRUE, ![t].ev = n]
  <1>1. g \in [Threads -> Calls]
    BY DEF Calls
  <1>2. h = [g EXCEPT ![t].ingest = TRUE]
    BY <1>1
  <1>3. i = [h EXCEPT ![t].ev = n]
    OBVIOUS
  <1>4. h \in [Threads -> Calls]
    <2> HIDE DEF g, h
    <2>1. [g[t] EXCEPT !.ingest = TRUE] \in Calls
      BY <1>1 DEF Calls
    <2>2. h = [g EXCEPT ![t] = [g[t] EXCEPT !.ingest = TRUE]]
      BY <1>2
    <2> QED BY <1>1, <2>1, <2>2
  <1> HIDE DEF h, i
  <1>5. i \in [Threads -> Calls]
    BY <1>3, <1>4 DEF Calls
  <1> QED BY <1>5 DEF h, i

LEMMA RulesSifted ==
  ASSUME rules \in Seq(Rules)
  PROVE  /\ EnabledRules \in Seq(Rules) /\ Len(EnabledRules) <= Len(rules)
         /\ \A k \in 1..Len(EnabledRules) :
              \E i \in 1..Len(rules) : rules[i].enabled /\ EnabledRules[k] = rules[i]
         /\ \A i \in 1..Len(rules) : rules[i].enabled =>
              \E k \in 1..Len(EnabledRules) : EnabledRules[k] = rules[i]
         /\ ScheduledRules \in Seq(Rules)
         /\ \A k \in 1..Len(ScheduledRules) :
              \E i \in 1..Len(rules) :
                rules[i].enabled /\ rules[i].kind = "Scheduled" /\ ScheduledRules[k] = rules[i]
  <1> DEFINE I == {k \in 1..Len(rules) : Enabled(rules[k])}
             J == {k \in 1..Len(rules) : EnabledScheduled(rules[k])}
  <1>1. EnabledRules = Sift(rules, I) /\ ScheduledRules = Sift(rules, J)
    BY DEF EnabledRules, ScheduledRules
  <1>2. /\ \A i \in I : i \in 1..Len(rules) /\ rules[i].enabled
        /\ \A i \in 1..Len(rules) : rules[i].enabled => i \in I
        /\ \A i \in J : i \in 1..Len(rules) /\ rules[i].enabled /\ rules[i].kind = "Scheduled"
    BY DEF Enabled, EnabledScheduled
  <1> HIDE DEF I, J
  <1>3. Len(Sift(rules, I)) <= Len(rules)
    BY SiftCounts
  <1>4. /\ Sift(rules, I) \in Seq(Rules)
        /\ \A k \in 1..Len(Sift(rules, I)) : \E i \in I \cap 1..Len(rules) : Sift(rules, I)[k] = rules[i]
        /\ \A i \in I \cap 1..Len(rules) : \E k \in 1..Len(Sift(rules, I)) : Sift(rules, I)[k] = rules[i]
    BY SiftProperties
  <1>5. /\ Sift(rules, J) \in Seq(Rules)
        /\ \A k \in 1..Len(Sift(rules, J)) : \E i \in J \cap 1..Len(rules) : Sift(rules, J)[k] = rules[i]
    BY SiftProperties
  <1> QED BY <1>1, <1>2, <1>3, <1>4, <1>5

(* Every step of a thread, in these terms.                                 *)
LEMMA IngestTurns ==
  ASSUME Base, NEW t \in Threads, NEW e, Ingest(t, e)
  PROVE  Turns(t, "snapshot", TRUE, Len(buffer) + 1, <<>>, <<>>)
  <1>1. Logs /\ Sane(call[t], buffer, matches)
    BY Typed DEF Base
  <1>2. call[t].todo = <<>> /\ call[t].found = <<>> /\ Len(buffer) + 1 \in Nat
    BY <1>1 DEF Ingest, At, Sane, Shaped, Logs
  <1>3. call' \in [Threads -> Calls]
    BY <1>1, <1>2, CallType DEF Ingest, Logs
  <1> QED BY <1>1, <1>2, <1>3 DEF Ingest, Turns, Calls, Logs

LEMMA SnapshotTurns ==
  ASSUME Base, NEW t \in Threads, Snapshot(t)
  PROVE  /\ EnabledRules \in Seq(Rules)
         /\ Turns(t, "eval", call[t].ingest, call[t].ev, JobsFor(EnabledRules, call[t].ev), call[t].found)
  <1>1. Logs /\ call[t] \in Calls
    BY Typed DEF Base, Logs
  <1>2. EnabledRules \in Seq(Rules) /\ call[t].ev \in Nat
    BY <1>1, RulesSifted DEF Logs, Calls
  <1>3. JobsFor(EnabledRules, call[t].ev) \in Seq(Jobs)
    BY <1>2, JobsForType
  <1>4. call' = [call EXCEPT ![t].pc = "eval", ![t].todo = JobsFor(EnabledRules, call[t].ev)]
    BY DEF Snapshot, JobsFor, EnabledRules
  <1> QED BY <1>1, <1>2, <1>3, <1>4 DEF Turns, Calls, Logs

LEMMA RunScheduledTurns ==
  ASSUME Base, NEW t \in Threads, RunScheduled(t)
  PROVE  /\ ScheduledRules \in Seq(Rules)
         /\ Turns(t, "read", call[t].ingest, call[t].ev, JobsFor(ScheduledRules, 0), call[t].found)
  <1>1. Logs /\ call[t] \in Calls
    BY Typed DEF Base, Logs
  <1>2. ScheduledRules \in Seq(Rules)
    BY <1>1, RulesSifted DEF Logs
  <1>3. JobsFor(ScheduledRules, 0) \in Seq(Jobs)
    BY <1>2, JobsForType
  <1>4. call' = [call EXCEPT ![t].pc = "read", ![t].todo = JobsFor(ScheduledRules, 0)]
    BY DEF RunScheduled, JobsFor, ScheduledRules
  <1> QED BY <1>1, <1>2, <1>3, <1>4 DEF Turns, Calls, Logs

LEMMA ReadBufferTurns ==
  ASSUME Base, NEW t \in Threads, ReadBuffer(t)
  PROVE  Turns(t, "eval", call[t].ingest, call[t].ev, JobsAgainst(call[t].todo, Len(buffer)), call[t].found)
  <1>1. Logs /\ call[t] \in Calls
    BY Typed DEF Base, Logs
  <1>2. call[t].todo \in Seq(Jobs) /\ Len(buffer) \in Nat
    BY <1>1 DEF Logs, Calls
  <1>3. JobsAgainst(call[t].todo, Len(buffer)) \in Seq(Jobs)
    BY <1>2, JobsAgainstType
  <1>4. call' = [call EXCEPT ![t].pc = "eval", ![t].todo = JobsAgainst(call[t].todo, Len(buffer))]
    BY DEF ReadBuffer, JobsAgainst
  <1> QED BY <1>1, <1>2, <1>3, <1>4 DEF Turns, Calls, Logs

LEMMA EvalTurns ==
  ASSUME Base, NEW t \in Threads, Eval(t)
  PROVE  LET c == call[t]
             r == Head(c.todo).rule
             n == Head(c.todo).ev
         IN  IF Evaluate(r, EventAt(n))
             THEN Turns(t, "match", c.ingest, c.ev, c.todo, c.found)
             ELSE Turns(t, "eval", c.ingest, c.ev, Tail(c.todo), c.found)
  <1>1. Logs /\ call[t] \in Calls /\ At(t, "eval") /\ call[t].todo # <<>>
    BY Typed DEF Base, Logs, Eval
  <1>2. call[t].todo \in Seq(Jobs) /\ Tail(call[t].todo) \in Seq(Jobs)
    BY <1>1 DEF Calls
  <1>3. CASE Evaluate(Head(call[t].todo).rule, EventAt(Head(call[t].todo).ev))
    <2>1. call' = [call EXCEPT ![t].pc = "match"]
      BY <1>3 DEF Eval
    <2> QED BY <1>1, <1>2, <1>3, <2>1 DEF Turns, Calls, Logs
  <1>4. CASE ~Evaluate(Head(call[t].todo).rule, EventAt(Head(call[t].todo).ev))
    <2>1. call' = [call EXCEPT ![t].todo = Tail(@)]
      BY <1>4 DEF Eval
    <2> QED BY <1>1, <1>2, <1>4, <2>1 DEF Turns, Calls, Logs, At
  <1> QED BY <1>3, <1>4

LEMMA MatchTurns ==
  ASSUME Base, NEW t \in Threads, Match(t)
  PROVE  LET c == call[t]
         IN  /\ c.todo # <<>> /\ TriggerOf(Head(c.todo)) \in Triggers
             /\ MatchOf(t, Head(c.todo)) \in Matches
             /\ Turns(t, "eval", c.ingest, c.ev, Tail(c.todo), Append(c.found, TriggerOf(Head(c.todo))))
  <1>1. Logs /\ call[t] \in Calls /\ call[t].todo # <<>>
    BY Typed DEF Base, Logs, Match, At, Sane, Shaped
  <1>2. /\ Head(call[t].todo) \in Jobs /\ Tail(call[t].todo) \in Seq(Jobs)
        /\ call[t].found \in Seq(Triggers) /\ call[t].ingest \in BOOLEAN
    BY <1>1 DEF Calls
  <1>3. /\ TriggerOf(Head(call[t].todo)) \in Triggers
        /\ MatchOf(t, Head(call[t].todo)) \in Matches
    BY <1>1, <1>2 DEF TriggerOf, MatchOf, Triggers, Matches, Jobs, Logs
  <1>4. Append(call[t].found, TriggerOf(Head(call[t].todo))) \in Seq(Triggers)
    BY <1>2, <1>3
  <1> QED BY <1>1, <1>2, <1>3, <1>4 DEF Match, Turns, Calls, Logs

LEMMA IdleType == Idle \in Calls
  BY DEF Idle, Calls

LEMMA DoneTurns ==
  ASSUME Base, NEW t \in Threads, Done(t)
  PROVE  Turns(t, "idle", FALSE, 0, <<>>, <<>>)
  <1>1. Logs
    BY Typed DEF Base
  <1> QED BY <1>1, IdleType DEF Done, Return, Turns, Logs, Idle

LEMMA AcquireTurns ==
  ASSUME Base, NEW t \in Threads, Acquire(t)
  PROVE  LET c == call[t] IN Turns(t, "store", c.ingest, c.ev, c.todo, c.found)
  <1>1. Logs
    BY Typed DEF Base
  <1> QED BY <1>1 DEF Acquire, Turns, Calls, Logs

LEMMA StoreTurns ==
  ASSUME Base, NEW t \in Threads, Store(t)
  PROVE  LET c == call[t] IN Turns(t, "emit", c.ingest, c.ev, c.todo, c.found)
  <1>1. Logs
    BY Typed DEF Base
  <1> QED BY <1>1 DEF Store, Turns, Calls, Logs

LEMMA EmitTurns ==
  ASSUME Base, NEW t \in Threads, Emit(t)
  PROVE  LET c == call[t]
         IN  IF Len(c.found) = 1
             THEN Turns(t, "idle", FALSE, 0, <<>>, <<>>)
             ELSE Turns(t, "store", c.ingest, c.ev, c.todo, Tail(c.found))
  <1>1. Logs /\ call[t] \in Calls /\ call[t].found # <<>>
    BY Typed DEF Base, Logs, Emit, At, Sane, Shaped
  <1>2. call[t].found \in Seq(Triggers) /\ Tail(call[t].found) \in Seq(Triggers)
    BY <1>1 DEF Calls
  <1>3. CASE Len(call[t].found) = 1
    <2>1. call' = [call EXCEPT ![t] = Idle]
      BY <1>3 DEF Emit, Return
    <2> QED BY <1>1, <1>3, <2>1, IdleType DEF Turns, Logs, Idle
  <1>4. CASE Len(call[t].found) # 1
    <2>1. call' = [call EXCEPT ![t].pc = "store", ![t].found = Tail(@)]
      BY <1>4 DEF Emit
    <2> QED BY <1>1, <1>2, <1>4, <2>1 DEF Turns, Calls, Logs
  <1> QED BY <1>3, <1>4

-----------------------------------------------------------------------------
(***************************************************************************)
(* The base of the invariant is inductive.                                 *)
(***************************************************************************)
Moves(t) ==
  /\ Logs' /\ Len(rules') <= MaxRules
  /\ Extends(buffer, buffer') /\ Extends(matches, matches')
  /\ \A u \in Threads : u # t => call'[u] = call[u]

LEMMA OthersStaySane ==
  ASSUME Base, NEW t \in Threads, Moves(t), Sane(call'[t], buffer', matches')
  PROVE  \A u \in Threads : Sane(call'[u], buffer', matches')
  <1> SUFFICES ASSUME NEW u \in Threads, u # t PROVE Sane(call'[u], buffer', matches')
    OBVIOUS
  <1>1. Logs /\ Logs' /\ Sane(call[u], buffer, matches)
    BY Typed DEF Base, Moves
  <1>2. /\ call[u] \in Calls /\ buffer \in Seq(Buffered) /\ buffer' \in Seq(Buffered)
        /\ matches \in Seq(Matches) /\ matches' \in Seq(Matches)
    BY <1>1 DEF Logs
  <1>3. Extends(buffer, buffer') /\ Extends(matches, matches')
    BY DEF Moves
  <1>4. Sane(call[u], buffer', matches')
    BY <1>1, <1>2, <1>3, SaneStays
  <1> QED BY <1>4 DEF Moves

(* A step outside of the publication.                                      *)
LEMMA QuietStep ==
  ASSUME Base, NEW t \in Threads, Moves(t), Sane(call'[t], buffer', matches'), Quiet,
         call[t].pc \notin {"store", "emit"}, call'[t].pc \notin {"store", "emit"}
  PROVE  Base'
  <1>1. OwnerHasLock'
    <2> SUFFICES ASSUME NEW u \in Threads
                 PROVE  (call'[u].pc = "store" \/ call'[u].pc = "emit") <=> lock' = u
      BY DEF OwnerHasLock, At
    <2> QED BY DEF Base, OwnerHasLock, At, Quiet, Moves
  <1>2. LogsAgree'
    <2>1. lock # None => lock # t /\ lock \in Threads
      BY Typed DEF Base, OwnerHasLock, At, Logs
    <2> QED BY <2>1 DEF Base, LogsAgree, At, Quiet, Moves
  <1>3. \A u \in Threads : Sane(call'[u], buffer', matches')
    BY OthersStaySane
  <1>4. TypeOK' /\ Len(rules') <= MaxRules
    BY TypedNext DEF Moves
  <1> QED BY <1>1, <1>2, <1>3, <1>4 DEF Base

LEMMA IngestStep ==
  ASSUME Base, NEW t \in Threads, NEW e \in Events, Ingest(t, e)
  PROVE  Base'
  <1>1. Logs /\ Turns(t, "snapshot", TRUE, Len(buffer) + 1, <<>>, <<>>)
    BY Typed, IngestTurns DEF Base
  <1>2. buffer' \in Seq(Buffered) /\ Len(buffer') = Len(buffer) + 1 /\ Extends(buffer, buffer')
    <2>1. [event |-> e, known |-> Len(rules)] \in Buffered
      BY <1>1 DEF Logs, Buffered
    <2> QED BY <1>1, <2>1, ExtendsAppend DEF Logs, Ingest
  <1>3. Moves(t)
    BY <1>1, <1>2, ExtendsAppend DEF Moves, Ingest, Logs, Turns, Base
  <1>4. Sane(call'[t], buffer', matches')
    BY <1>1, <1>2, BoundAssumption DEF Sane, Shaped, JobsFit, FoundFits, Turns, Logs
  <1>5. /\ call[t].pc \notin {"store", "emit"} /\ call'[t].pc \notin {"store", "emit"}
        /\ Quiet
    BY <1>1 DEF Turns, Quiet, Ingest, At
  <1> QED BY <1>3, <1>4, <1>5, QuietStep

LEMMA AddRuleStep ==
  ASSUME Base, NEW r \in Rules, AddRule(r)
  PROVE  Base'
  <1>1. Logs
    BY Typed DEF Base
  <1>2. rules' \in Seq(Rules) /\ Len(rules') <= MaxRules
    BY <1>1, BoundAssumption DEF Logs, AddRule
  <1>3. Logs'
    BY <1>1, <1>2 DEF Logs, AddRule
  <1> QED BY <1>2, <1>3, TypedNext DEF Base, AddRule, OwnerHasLock, LogsAgree, At

(* A step of a call that touches none of the logs.                         *)
Looks == UNCHANGED <<rules, buffer, matches, triggers, lock, events>>

LEMMA LookingStep ==
  ASSUME Base, NEW t \in Threads, Looks, call' \in [Threads -> Calls],
         \A u \in Threads : u # t => call'[u] = call[u],
         call[t].pc \notin {"store", "emit"}, call'[t].pc \notin {"store", "emit"},
         Sane(call'[t], buffer, matches)
  PROVE  Base'
  <1>1. Logs
    BY Typed DEF Base
  <1>2. Moves(t) /\ Quiet
    BY <1>1, ExtendsAppend DEF Moves, Looks, Logs, Base, Quiet
  <1>3. Sane(call'[t], buffer', matches')
    BY DEF Looks
  <1> QED BY <1>2, <1>3, QuietStep

LEMMA SnapshotStep ==
  ASSUME Base, NEW t \in Threads, Snapshot(t)
  PROVE  Base'
  <1> DEFINE todo == JobsFor(EnabledRules, call[t].ev)
  <1>1. /\ Logs /\ call[t] \in Calls /\ Sane(call[t], buffer, matches) /\ call[t].pc = "snapshot"
        /\ Len(rules) \in Nat /\ Len(rules) <= MaxRules
    BY Typed DEF Base, Logs, Snapshot, At
  <1>2. call[t].ingest /\ call[t].ev \in 1..Len(buffer) /\ call[t].found = <<>>
    BY <1>1 DEF Sane, Shaped, JobsFit
  <1>3. /\ EnabledRules \in Seq(Rules)
        /\ Turns(t, "eval", call[t].ingest, call[t].ev, todo, call[t].found)
    BY SnapshotTurns
  <1>4. /\ Len(EnabledRules) <= Len(rules)
        /\ \A k \in 1..Len(EnabledRules) : EnabledRules[k].enabled
    BY <1>1, RulesSifted DEF Logs
  <1>5. /\ Len(todo) = Len(EnabledRules) /\ todo \in Seq(Jobs)
        /\ \A k \in 1..Len(EnabledRules) : todo[k] = [rule |-> EnabledRules[k], ev |-> call[t].ev]
    BY <1>1, <1>2, <1>3, JobsForType DEF Calls
  <1>6. /\ Len(todo) <= MaxRules
        /\ \A k \in 1..Len(todo) : todo[k].rule.enabled /\ todo[k].ev = call[t].ev
    <2>1. Len(todo) <= MaxRules
      BY <1>1, <1>3, <1>4, <1>5, BoundAssumption
    <2>2. ASSUME NEW k \in 1..Len(todo) PROVE todo[k].rule.enabled /\ todo[k].ev = call[t].ev
      <3>1. k \in 1..Len(EnabledRules) /\ todo[k] = [rule |-> EnabledRules[k], ev |-> call[t].ev]
        BY <1>5
      <3> QED BY <1>4, <3>1
    <2> QED BY <2>1, <2>2
  <1> HIDE DEF todo
  <1>7. Sane(call'[t], buffer, matches)
    BY <1>1, <1>2, <1>3, <1>5, <1>6 DEF Sane, Shaped, JobsFit, FoundFits, Turns
  <1>8. Looks
    BY DEF Snapshot, Looks
  <1> QED BY <1>1, <1>3, <1>7, <1>8, LookingStep DEF Turns

LEMMA RunScheduledStep ==
  ASSUME Base, NEW t \in Threads, RunScheduled(t)
  PROVE  Base'
  <1> DEFINE todo == JobsFor(ScheduledRules, 0)
  <1>1. /\ Logs /\ call[t] \in Calls /\ Sane(call[t], buffer, matches) /\ call[t].pc = "idle"
    BY Typed DEF Base, Logs, RunScheduled, At
  <1>2. ~call[t].ingest /\ call[t].found = <<>>
    BY <1>1 DEF Sane, Shaped
  <1>3. /\ ScheduledRules \in Seq(Rules)
        /\ Turns(t, "read", call[t].ingest, call[t].ev, todo, call[t].found)
    BY RunScheduledTurns
  <1>4. \A k \in 1..Len(ScheduledRules) :
          ScheduledRules[k].enabled /\ ScheduledRules[k].kind = "Scheduled"
    BY <1>1, RulesSifted DEF Logs
  <1>5. /\ Len(todo) = Len(ScheduledRules)
        /\ \A k \in 1..Len(ScheduledRules) : todo[k] = [rule |-> ScheduledRules[k], ev |-> 0]
    BY <1>3, JobsForType
  <1>6. \A k \in 1..Len(todo) : todo[k].rule.enabled /\ todo[k].rule.kind = "Scheduled"
    <2> SUFFICES ASSUME NEW k \in 1..Len(todo)
                 PROVE  todo[k].rule.enabled /\ todo[k].rule.kind = "Scheduled"
      OBVIOUS
    <2>1. k \in 1..Len(ScheduledRules) /\ todo[k] = [rule |-> ScheduledRules[k], ev |-> 0]
      BY <1>5
    <2> QED BY <1>4, <2>1
  <1> HIDE DEF todo
  <1>7. Sane(call'[t], buffer, matches)
    BY <1>2, <1>3, <1>6 DEF Sane, Shaped, JobsFit, FoundFits, Turns
  <1>8. Looks
    BY DEF RunScheduled, Looks
  <1> QED BY <1>1, <1>3, <1>7, <1>8, LookingStep DEF Turns

LEMMA ReadBufferStep ==
  ASSUME Base, NEW t \in Threads, ReadBuffer(t)
  PROVE  Base'
  <1> DEFINE c    == call[t]
             todo == JobsAgainst(c.todo, Len(buffer))
  <1>1. /\ Logs /\ c \in Calls /\ Sane(c, buffer, matches) /\ c.pc = "read"
    BY Typed DEF Base, Logs, ReadBuffer, At
  <1>2. ~c.ingest /\ c.found = <<>> /\ c.todo \in Seq(Jobs) /\ Len(buffer) \in Nat
    BY <1>1 DEF Sane, Shaped, Logs, Calls
  <1>3. Turns(t, "eval", c.ingest, c.ev, todo, c.found)
    BY ReadBufferTurns
  <1>4. /\ \A k \in 1..Len(todo) :
             /\ \E i \in 1..Len(c.todo) : todo[k].rule = c.todo[i].rule
             /\ todo[k].ev \in 1..Len(buffer)
    BY <1>2, JobsAgainstType
  <1>5. \A i \in 1..Len(c.todo) : c.todo[i].rule.enabled /\ c.todo[i].rule.kind = "Scheduled"
    BY <1>1, <1>2 DEF Sane, JobsFit
  <1> HIDE DEF todo
  <1>6. Sane(call'[t], buffer, matches)
    BY <1>2, <1>3, <1>4, <1>5 DEF Sane, Shaped, JobsFit, FoundFits, Turns
  <1>7. Looks
    BY DEF ReadBuffer, Looks
  <1> QED BY <1>1, <1>3, <1>6, <1>7, LookingStep DEF Turns

LEMMA EvalStep ==
  ASSUME Base, NEW t \in Threads, Eval(t)
  PROVE  Base'
  <1> DEFINE c == call[t]
  <1>1. /\ c \in Calls /\ Sane(c, buffer, matches) /\ c.pc = "eval" /\ c.todo # <<>>
        /\ c.todo \in Seq(Jobs)
    BY Typed DEF Base, Logs, Eval, At, Calls
  <1>2. Looks
    BY DEF Eval, Looks
  <1>3. CASE Evaluate(Head(c.todo).rule, EventAt(Head(c.todo).ev))
    <2>1. Turns(t, "match", c.ingest, c.ev, c.todo, c.found)
      BY <1>3, EvalTurns
    <2>2. JobsFit(call'[t], buffer) /\ FoundFits(call'[t], matches)
      BY <1>1, <2>1, SameJobs, SameFound DEF Sane, Turns
    <2>3. Shaped(call'[t])
      BY <1>1, <2>1 DEF Sane, Shaped, Turns
    <2> QED BY <1>1, <1>2, <2>1, <2>2, <2>3, LookingStep DEF Turns, Sane
  <1>4. CASE ~Evaluate(Head(c.todo).rule, EventAt(Head(c.todo).ev))
    <2>1. Turns(t, "eval", c.ingest, c.ev, Tail(c.todo), c.found)
      BY <1>4, EvalTurns
    <2>2. JobsFit(call'[t], buffer) /\ Len(call'[t].todo) = Len(c.todo) - 1 /\ Len(c.todo) \in Nat
      BY <1>1, <2>1, FewerJobs DEF Sane, Turns
    <2>3. FoundFits(call'[t], matches)
      BY <1>1, <2>1, SameFound DEF Sane, Turns
    <2>4. Shaped(call'[t])
      <3>1. Len(c.found) \in Nat /\ call'[t].found = c.found /\ call'[t].ingest = c.ingest /\ call'[t].pc = "eval"
        BY <1>1, <2>1 DEF Calls, Turns
      <3>2. Shaped(c) /\ Len(call'[t].found) = Len(c.found)
        BY <1>1, <3>1 DEF Sane
      <3> QED BY <2>2, <3>1, <3>2, StaysShaped
    <2> QED BY <1>1, <1>2, <2>1, <2>2, <2>3, <2>4, LookingStep DEF Turns, Sane
  <1> QED BY <1>3, <1>4

LEMMA MatchStep ==
  ASSUME Base, NEW t \in Threads, Match(t)
  PROVE  Base'
  <1> DEFINE c   == call[t]
             job == Head(c.todo)
             x   == TriggerOf(job)
             y   == MatchOf(t, job)
  <1>1. /\ Logs /\ c \in Calls /\ Sane(c, buffer, matches) /\ c.pc = "match"
        /\ matches \in Seq(Matches) /\ Len(matches) \in Nat
    BY Typed DEF Base, Logs, Match, At
  <1>2. /\ c.todo # <<>> /\ x \in Triggers /\ y \in Matches
        /\ Turns(t, "eval", c.ingest, c.ev, Tail(c.todo), Append(c.found, x))
    BY MatchTurns
  <1>3. matches' = Append(matches, y) /\ matches' \in Seq(Matches) /\ Extends(matches, matches')
    BY <1>1, <1>2, ExtendsAppend DEF Match
  <1>4. /\ x.match = Len(matches) + 1 /\ y.rule = x.rule /\ y.ingest = c.ingest
        /\ c.ingest => y.ev = c.ev
    <2>1. c.todo \in Seq(Jobs) /\ job = c.todo[1] /\ 1 \in 1..Len(c.todo)
      BY <1>1, <1>2 DEF Calls
    <2> QED BY <1>1, <2>1 DEF TriggerOf, MatchOf, Sane, JobsFit
  <1> HIDE DEF x, y
  <1>5. JobsFit(call'[t], buffer) /\ Len(call'[t].todo) = Len(c.todo) - 1 /\ Len(c.todo) \in Nat
    BY <1>1, <1>2, FewerJobs DEF Sane, Turns
  <1>6. FoundFits(call'[t], matches') /\ Len(call'[t].found) = Len(c.found) + 1 /\ Len(c.found) \in Nat
    <2>1. /\ call'[t].found = Append(c.found, x) /\ call'[t].ingest = c.ingest
          /\ call'[t].ev = c.ev /\ FoundFits(c, matches)
      BY <1>1, <1>2 DEF Turns, Sane
    <2> HIDE DEF c
    <2>2. /\ FoundFits(call'[t], Append(matches, y)) /\ Len(call'[t].found) = Len(c.found) + 1
          /\ Len(c.found) \in Nat
      BY <1>1, <1>2, <1>4, <2>1, MoreFound
    <2> QED BY <1>3, <2>2
  <1>7. Shaped(call'[t])
    <2>1. call'[t].ingest = c.ingest /\ call'[t].pc = "eval"
      BY <1>2 DEF Turns
    <2>2. Shaped(c)
      BY <1>1 DEF Sane
    <2> QED BY <1>5, <1>6, <2>1, <2>2, StaysShaped
  <1>8. Moves(t) /\ Quiet /\ buffer' = buffer
    BY <1>1, <1>2, <1>3, ExtendsAppend DEF Moves, Quiet, Match, Turns, Logs, Base
  <1> QED BY <1>1, <1>2, <1>5, <1>6, <1>7, <1>8, QuietStep DEF Turns, Sane

LEMMA DoneStep ==
  ASSUME Base, NEW t \in Threads, Done(t)
  PROVE  Base'
  <1>1. Turns(t, "idle", FALSE, 0, <<>>, <<>>)
    BY DoneTurns
  <1>2. Sane(call'[t], buffer, matches)
    BY <1>1 DEF Sane, Shaped, JobsFit, FoundFits, Turns
  <1>3. Looks /\ call[t].pc = "eval"
    BY DEF Done, Looks, At
  <1> QED BY <1>1, <1>2, <1>3, LookingStep DEF Turns

LEMMA AcquireStep ==
  ASSUME Base, NEW t \in Threads, Acquire(t)
  PROVE  Base'
  <1> DEFINE c == call[t]
  <1>1. /\ Logs /\ Sane(c, buffer, matches) /\ c.pc = "eval" /\ c.todo = <<>>
        /\ c.found # <<>> /\ c.ingest /\ lock = None /\ lock' = t /\ t # None
    BY Typed, NoneAssumption DEF Base, Logs, Acquire, At, Unlocked
  <1>2. Turns(t, "store", c.ingest, c.ev, c.todo, c.found)
    BY AcquireTurns
  <1>3. Sane(call'[t], buffer', matches')
    <2>1. JobsFit(call'[t], buffer) /\ FoundFits(call'[t], matches)
      BY <1>1, <1>2, SameJobs, SameFound DEF Sane, Turns
    <2>2. Shaped(call'[t])
      BY <1>1, <1>2 DEF Sane, Shaped, Turns
    <2> QED BY <2>1, <2>2 DEF Sane, Acquire
  <1>4. Moves(t)
    BY <1>1, <1>2, ExtendsAppend DEF Moves, Acquire, Logs, Base, Turns
  <1>5. OwnerHasLock'
    <2> SUFFICES ASSUME NEW u \in Threads
                 PROVE  (call'[u].pc = "store" \/ call'[u].pc = "emit") <=> lock' = u
      BY DEF OwnerHasLock, At
    <2>1. (call[u].pc = "store" \/ call[u].pc = "emit") <=> lock = u
      BY DEF Base, OwnerHasLock, At
    <2> QED BY <1>1, <1>2, <2>1, NoneAssumption DEF Turns
  <1>6. LogsAgree'
    BY <1>1, <1>2 DEF Base, LogsAgree, At, Acquire, Turns
  <1>7. \A u \in Threads : Sane(call'[u], buffer', matches')
    BY <1>3, <1>4, OthersStaySane
  <1> QED BY <1>4, <1>5, <1>6, <1>7, TypedNext DEF Base, Moves

LEMMA StoreStep ==
  ASSUME Base, NEW t \in Threads, Store(t)
  PROVE  Base'
  <1> DEFINE c == call[t]
  <1>1. /\ Logs /\ c \in Calls /\ Sane(c, buffer, matches) /\ c.pc = "store"
        /\ lock = t /\ lock' = t /\ t # None
    BY Typed, NoneAssumption DEF Base, Logs, Store, At, OwnerHasLock
  <1>2. c.found \in Seq(Triggers) /\ c.found # <<>>
    BY <1>1 DEF Calls, Sane, Shaped
  <1>3. Turns(t, "emit", c.ingest, c.ev, c.todo, c.found)
    BY StoreTurns
  <1>4. Sane(call'[t], buffer', matches')
    <2>1. JobsFit(call'[t], buffer) /\ FoundFits(call'[t], matches)
      BY <1>1, <1>3, SameJobs, SameFound DEF Sane, Turns
    <2>2. Shaped(call'[t])
      BY <1>1, <1>3 DEF Sane, Shaped, Turns
    <2> QED BY <2>1, <2>2 DEF Sane, Store
  <1>5. triggers' = Append(triggers, Head(c.found)) /\ triggers' \in Seq(Triggers)
    BY <1>1, <1>2 DEF Store, Logs
  <1>6. Moves(t)
    BY <1>1, <1>3, <1>5, ExtendsAppend DEF Moves, Store, Logs, Base, Turns
  <1>7. OwnerHasLock'
    BY <1>1, <1>3 DEF Base, OwnerHasLock, At, Turns
  <1>8. LogsAgree'
    <2>1. triggers = events /\ events' = events
      BY <1>1 DEF Base, LogsAgree, At, Store
    <2> QED BY <1>1, <1>3, <1>5, <2>1 DEF LogsAgree, At, Turns
  <1>9. \A u \in Threads : Sane(call'[u], buffer', matches')
    BY <1>4, <1>6, OthersStaySane
  <1> QED BY <1>6, <1>7, <1>8, <1>9, TypedNext DEF Base, Moves

LEMMA EmitStep ==
  ASSUME Base, NEW t \in Threads, Emit(t)
  PROVE  Base'
  <1> DEFINE c == call[t]
  <1>1. /\ Logs /\ c \in Calls /\ Sane(c, buffer, matches) /\ c.pc = "emit"
        /\ lock = t /\ t # None
    BY Typed, NoneAssumption DEF Base, Logs, Emit, At, OwnerHasLock
  <1>2. c.found \in Seq(Triggers) /\ c.found # <<>> /\ Len(c.found) \in Nat
    BY <1>1 DEF Calls, Sane, Shaped
  <1>3. /\ events' = Append(events, Head(c.found)) /\ events' \in Seq(Triggers)
        /\ triggers' = triggers
    BY <1>1, <1>2 DEF Emit, Logs
  <1>4. triggers' = events'
    BY <1>1, <1>3 DEF Base, LogsAgree, At
  <1>5. CASE Len(c.found) = 1
    <2>1. Turns(t, "idle", FALSE, 0, <<>>, <<>>) /\ lock' = None
      BY <1>5, EmitTurns DEF Emit
    <2>2. Sane(call'[t], buffer', matches')
      BY <2>1 DEF Sane, Shaped, JobsFit, FoundFits, Turns
    <2>3. Moves(t)
      BY <1>1, <1>3, <2>1, ExtendsAppend DEF Moves, Emit, Logs, Base, Turns
    <2>4. OwnerHasLock'
      <3> SUFFICES ASSUME NEW u \in Threads
                   PROVE  (call'[u].pc = "store" \/ call'[u].pc = "emit") <=> lock' = u
        BY DEF OwnerHasLock, At
      <3>1. (call[u].pc = "store" \/ call[u].pc = "emit") <=> lock = u
        BY DEF Base, OwnerHasLock, At
      <3> QED BY <1>1, <2>1, <3>1, NoneAssumption DEF Turns
    <2>5. LogsAgree'
      BY <1>4, <2>1 DEF LogsAgree
    <2>6. \A u \in Threads : Sane(call'[u], buffer', matches')
      BY <2>2, <2>3, OthersStaySane
    <2> QED BY <2>3, <2>4, <2>5, <2>6, TypedNext DEF Base, Moves
  <1>6. CASE Len(c.found) # 1
    <2>1. Turns(t, "store", c.ingest, c.ev, c.todo, Tail(c.found)) /\ lock' = lock
      BY <1>6, EmitTurns DEF Emit
    <2>2. FoundFits(call'[t], matches) /\ Len(call'[t].found) = Len(c.found) - 1
      BY <1>1, <1>2, <2>1, FewerFound DEF Sane, Turns
    <2>3. JobsFit(call'[t], buffer)
      BY <1>1, <2>1, SameJobs DEF Sane, Turns
    <2>4. Shaped(call'[t])
      <3>1. /\ call'[t].pc = "store" /\ call'[t].ingest /\ call'[t].todo = <<>>
            /\ c.ingest /\ c.todo = <<>>
        BY <1>1, <2>1 DEF Sane, Shaped, Turns
      <3>2. Len(call'[t].found) # 0 /\ Len(call'[t].todo) + Len(call'[t].found) <= MaxRules
        BY <1>1, <1>2, <1>6, <2>2, <3>1, BoundAssumption DEF Sane, Shaped
      <3>3. call'[t].found # <<>>
        BY <3>2
      <3> QED BY <3>1, <3>2, <3>3 DEF Shaped
    <2>5. Moves(t)
      BY <1>1, <1>3, <2>1, ExtendsAppend DEF Moves, Emit, Logs, Base, Turns
    <2>6. OwnerHasLock'
      BY <1>1, <2>1 DEF Base, OwnerHasLock, At, Turns
    <2>7. LogsAgree'
      BY <1>1, <1>4, <2>1 DEF LogsAgree, At, Turns
    <2>8. \A u \in Threads : Sane(call'[u], buffer', matches')
      BY <2>2, <2>3, <2>4, <2>5, OthersStaySane DEF Sane, Emit
    <2> QED BY <2>5, <2>6, <2>7, <2>8, TypedNext DEF Base, Moves
  <1> QED BY <1>5, <1>6

LEMMA InitBase == Init => Base
  <1> SUFFICES ASSUME Init PROVE Base
    OBVIOUS
  <1>1. Logs
    BY IdleType DEF Init, Logs
  <1>2. \A t \in Threads : call[t].pc = "idle" /\ Sane(call[t], buffer, matches)
    BY DEF Init, Idle, Sane, Shaped, JobsFit, FoundFits
  <1>3. Len(rules) <= MaxRules
    BY BoundAssumption DEF Init
  <1>4. OwnerHasLock
    BY <1>2, NoneAssumption DEF Init, OwnerHasLock, At
  <1>5. LogsAgree
    BY DEF Init, LogsAgree
  <1> QED BY <1>1, <1>2, <1>3, <1>4, <1>5, Typed DEF Base

LEMMA StutterBase == Base /\ UNCHANGED vars => Base'
  <1> SUFFICES ASSUME Base, UNCHANGED vars PROVE Base'
    OBVIOUS
  <1>1. TypeOK'
    BY TypedNext, Typed DEF Base, Logs, vars
  <1> QED BY <1>1 DEF Base, vars, OwnerHasLock, LogsAgree, At

LEMMA NextBase == Base /\ [Next]_vars => Base'
  BY IngestStep, AddRuleStep, SnapshotStep, RunScheduledStep, ReadBufferStep, EvalStep, MatchStep,
     DoneStep, AcquireStep, StoreStep, EmitStep, StutterBase DEF Next, Continue

LEMMA BaseInvariant == Spec => []Base
  BY InitBase, NextBase, PTL DEF Spec

(* The logs, the lock and the calls keep their types (ingest_event and     *)
(* run_scheduled_rules).                                                   *)
THEOREM TypeCorrect == Spec => []TypeOK
  <1>1. Base => TypeOK
    BY DEF Base
  <1> QED BY <1>1, BaseInvariant, PTL

(* The announcements are the stored triggers in the same order, whatever   *)
(* the threads do between two critical sections (the publication loop).    *)
THEOREM AnnouncedInOrderHolds == Spec => []AnnouncedInOrder
  <1>1. ASSUME Base PROVE AnnouncedInOrder
    <2>1. TypeOK /\ Logs
      BY <1>1, Typed DEF Base
    <2>2. events \in Seq(Triggers) /\ triggers \in Seq(Triggers) /\ Len(events) \in Nat
      BY <2>1 DEF Logs
    <2>3. CASE triggers = events
      <3>1. SubSeq(events, 1, Len(events)) = events
        BY <2>2, SubSeqFull
      <3> QED BY <2>1, <2>2, <2>3, <3>1 DEF AnnouncedInOrder
    <2>4. CASE lock # None /\ At(lock, "emit")
      <3> DEFINE x == Head(call[lock].found)
      <3>1. triggers = Append(events, x)
        BY <1>1, <2>4 DEF Base, LogsAgree
      <3> HIDE DEF x
      <3>2. Len(triggers) = Len(events) + 1 /\ \A n \in 1..Len(events) : triggers[n] = events[n]
        BY <2>2, <3>1
      <3>3. SubSeq(triggers, 1, Len(events)) = events
        <4>1. \A n \in 1..Len(events) : triggers[n] \in Triggers
          BY <2>2, <3>2
        <4>2. /\ SubSeq(triggers, 1, Len(events)) \in Seq(Triggers)
              /\ Len(SubSeq(triggers, 1, Len(events))) = Len(events)
              /\ \A n \in 1..Len(events) : SubSeq(triggers, 1, Len(events))[n] = events[n]
          BY <2>2, <3>2, <4>1
        <4> QED BY <2>2, <4>2, SeqEqual
      <3>4. ~Unlocked
        BY <2>4 DEF Unlocked
      <3>5. Len(triggers) <= Len(events) + 1
        BY <2>2, <3>2
      <3> QED BY <2>1, <3>3, <3>4, <3>5 DEF AnnouncedInOrder
    <2> QED BY <1>1, <2>3, <2>4 DEF Base, LogsAgree
  <1> QED BY <1>1, BaseInvariant, PTL

-----------------------------------------------------------------------------
(***************************************************************************)
(* A match has one trigger: in the hands of one thread, and then stored.   *)
(***************************************************************************)
(* The triggers of a call that are not stored yet.                         *)
Held(c)       == {k \in 1..Len(c.found) : ~(c.pc = "emit" /\ k = 1)}
Carries(c, m) == \E k \in Held(c) : c.found[k].match = m
Stored(ts, m) == \E j \in 1..Len(ts) : ts[j].match = m

StoredFit(ts, ms) ==
  /\ \A j \in 1..Len(ts) :
       LET m == ts[j].match
       IN  m \in 1..Len(ms) /\ ms[m].ingest /\ ms[m].rule = ts[j].rule
  /\ \A j, k \in 1..Len(ts) : ts[j].match = ts[k].match => j = k

InOnePlace(cs, ts) ==
  \A m \in Nat : \A t \in Threads : Carries(cs[t], m) =>
    /\ ~Stored(ts, m)
    /\ \A u \in Threads : Carries(cs[u], m) => t = u

InSomePlace(cs, ts, ms) ==
  \A m \in 1..Len(ms) : ms[m].ingest => Stored(ts, m) \/ \E t \in Threads : Carries(cs[t], m)

Handed ==
  /\ StoredFit(triggers, matches) /\ InOnePlace(call, triggers)
  /\ InSomePlace(call, triggers, matches)

LEMMA CarriedFits ==
  ASSUME NEW c, NEW ms, FoundFits(c, ms), NEW m, Carries(c, m)
  PROVE  m \in 1..Len(ms) /\ ms[m].ingest = c.ingest
  BY DEF Carries, Held, FoundFits

LEMMA SameHands ==
  ASSUME NEW c, NEW d, d.found = c.found, c.pc # "emit", d.pc # "emit"
  PROVE  \A m : Carries(d, m) <=> Carries(c, m)
  BY DEF Carries, Held

LEMMA EmptyHands ==
  ASSUME NEW c, c.found = <<>>
  PROVE  \A m : ~Carries(c, m)
  BY DEF Carries, Held

LEMMA MoreHands ==
  ASSUME NEW c \in Calls, NEW d, NEW x \in Triggers, d.found = Append(c.found, x),
         c.pc # "emit", d.pc # "emit"
  PROVE  \A m : Carries(d, m) <=> Carries(c, m) \/ m = x.match
  <1> DEFINE K == Len(c.found) + 1
  <1>1. c.found \in Seq(Triggers)
    BY DEF Calls
  <1>2. /\ K - 1 \in Nat /\ Len(d.found) = K /\ d.found[K] = x
        /\ \A k \in 1..(K - 1) : d.found[k] = c.found[k]
    BY <1>1
  <1>3. Held(c) = 1..(K - 1) /\ Held(d) = 1..K
    BY <1>1, <1>2 DEF Held
  <1>4. \A k \in 1..K : k = K \/ k \in 1..(K - 1)
    BY <1>2
  <1>5. K \in 1..K /\ \A k \in 1..(K - 1) : k \in 1..K
    BY <1>2
  <1> HIDE DEF K
  <1> QED BY <1>2, <1>3, <1>4, <1>5 DEF Carries

(* The trigger that is stored leaves the hands of the thread; when it has  *)
(* been announced it leaves the call.                                      *)
LEMMA StoredHands ==
  ASSUME NEW c \in Calls, NEW d, NEW ms, FoundFits(c, ms), d.found = c.found, c.found # <<>>,
         c.pc = "store", d.pc = "emit"
  PROVE  /\ \A m : Carries(d, m) <=> Carries(c, m) /\ m # Head(c.found).match
         /\ Carries(c, Head(c.found).match)
  <1>1. c.found \in Seq(Triggers) /\ Len(c.found) \in Nat /\ Head(c.found) = c.found[1] /\ 1 \in 1..Len(c.found)
    BY DEF Calls
  <1>2. Held(c) = 1..Len(c.found) /\ Held(d) = {k \in 1..Len(c.found) : k # 1}
    BY DEF Held
  <1>3. \A k \in 1..Len(c.found) : c.found[k].match = c.found[1].match => k = 1
    BY <1>1 DEF FoundFits
  <1> QED BY <1>1, <1>2, <1>3 DEF Carries

LEMMA EmittedHands ==
  ASSUME NEW c \in Calls, NEW d, d.found = Tail(c.found), c.found # <<>>,
         c.pc = "emit", d.pc = "store"
  PROVE  \A m : Carries(d, m) <=> Carries(c, m)
  <1>1. c.found \in Seq(Triggers) /\ Len(c.found) \in Nat
    BY DEF Calls
  <1>2. /\ Len(d.found) = Len(c.found) - 1
        /\ \A k \in 1..Len(d.found) : d.found[k] = c.found[k + 1]
    BY <1>1
  <1>3. Held(c) = {k \in 1..Len(c.found) : k # 1} /\ Held(d) = 1..Len(d.found)
    BY DEF Held
  <1>4. /\ \A k \in Held(d) : k + 1 \in Held(c) /\ d.found[k] = c.found[k + 1]
        /\ \A k \in Held(c) : k - 1 \in Held(d) /\ d.found[k - 1] = c.found[k]
    BY <1>1, <1>2, <1>3
  <1> QED BY <1>4 DEF Carries

LEMMA LastHands ==
  ASSUME NEW c \in Calls, c.pc = "emit", Len(c.found) = 1
  PROVE  \A m : ~Carries(c, m)
  BY DEF Carries, Held

-----------------------------------------------------------------------------
(* A step of t that makes no match and stores no trigger, and after which  *)
(* its hands hold what they held; a scheduled run may drop what it found.  *)
LEMMA HandsRest ==
  ASSUME Base, Base', Handed, NEW t \in Threads, matches' = matches, triggers' = triggers,
         \A u \in Threads : u # t => call'[u] = call[u],
         \A m : Carries(call'[t], m) => Carries(call[t], m),
         \A m \in 1..Len(matches) : matches[m].ingest /\ Carries(call[t], m) => Carries(call'[t], m)
  PROVE  Handed'
  <1>1. InOnePlace(call', triggers)
    <2> SUFFICES ASSUME NEW m \in Nat, NEW u \in Threads, Carries(call'[u], m)
                 PROVE  /\ ~Stored(triggers, m)
                        /\ \A v \in Threads : Carries(call'[v], m) => u = v
      BY DEF InOnePlace
    <2>1. \A v \in Threads : Carries(call'[v], m) => Carries(call[v], m)
      OBVIOUS
    <2> QED BY <2>1 DEF Handed, InOnePlace
  <1>2. InSomePlace(call', triggers, matches)
    <2> SUFFICES ASSUME NEW m \in 1..Len(matches), matches[m].ingest, ~Stored(triggers, m)
                 PROVE  \E v \in Threads : Carries(call'[v], m)
      BY DEF InSomePlace
    <2>1. PICK v \in Threads : Carries(call[v], m)
      BY DEF Handed, InSomePlace
    <2>2. Carries(call'[v], m)
      BY <2>1
    <2> QED BY <2>2
  <1> QED BY <1>1, <1>2 DEF Handed

LEMMA HandsMatch ==
  ASSUME Base, Base', Handed, NEW t \in Threads, Match(t)
  PROVE  Handed'
  <1> DEFINE c == call[t]
             x == TriggerOf(Head(c.todo))
             y == MatchOf(t, Head(c.todo))
             N == Len(matches) + 1
  <1>1. /\ Logs /\ c \in Calls /\ c.pc = "match" /\ matches \in Seq(Matches)
        /\ Len(matches) \in Nat /\ N \in Nat
    BY Typed DEF Base, Logs, Match, At
  <1>2. /\ x \in Triggers /\ y \in Matches /\ x.match = N
        /\ Turns(t, "eval", c.ingest, c.ev, Tail(c.todo), Append(c.found, x))
    BY MatchTurns DEF TriggerOf
  <1>3. /\ matches' = Append(matches, y) /\ Len(matches') = N
        /\ \A m \in 1..Len(matches) : matches'[m] = matches[m]
        /\ triggers' = triggers
    BY <1>1, <1>2 DEF Match
  <1>4. \A m : Carries(call'[t], m) <=> Carries(call[t], m) \/ m = N
    <2> DEFINE d == call'[t]
    <2>1. d.found = Append(c.found, x) /\ d.pc # "emit" /\ c.pc # "emit"
      BY <1>1, <1>2 DEF Turns
    <2>2. c \in Calls /\ x \in Triggers
      BY <1>1, <1>2
    <2> HIDE DEF c, d, x
    <2>3. \A m : Carries(d, m) <=> Carries(c, m) \/ m = x.match
      BY <2>1, <2>2, MoreHands
    <2> QED BY <1>2, <2>3 DEF c, d
  <1>5. \A u \in Threads : u # t => call'[u] = call[u]
    BY <1>2 DEF Turns
  <1>6. ~Stored(triggers, N) /\ \A u \in Threads : ~Carries(call[u], N)
    <2>1. \A m : Stored(triggers, m) => m \in 1..Len(matches)
      BY DEF Handed, StoredFit, Stored
    <2>2. \A u \in Threads : \A m : Carries(call[u], m) => m \in 1..Len(matches)
      BY CarriedFits DEF Base, Sane
    <2> QED BY <1>1, <2>1, <2>2
  <1> HIDE DEF N
  <1>7. InOnePlace(call', triggers)
    <2> SUFFICES ASSUME NEW m \in Nat, NEW u \in Threads, Carries(call'[u], m)
                 PROVE  /\ ~Stored(triggers, m)
                        /\ \A v \in Threads : Carries(call'[v], m) => u = v
      BY DEF InOnePlace
    <2>1. CASE m = N
      BY <1>4, <1>5, <1>6, <2>1
    <2>2. CASE m # N
      <3>1. \A v \in Threads : Carries(call'[v], m) => Carries(call[v], m)
        BY <1>4, <1>5, <2>2
      <3> QED BY <3>1 DEF Handed, InOnePlace
    <2> QED BY <2>1, <2>2
  <1>8. InSomePlace(call', triggers, matches')
    <2> SUFFICES ASSUME NEW m \in 1..N, matches'[m].ingest, ~Stored(triggers, m)
                 PROVE  \E v \in Threads : Carries(call'[v], m)
      BY <1>3 DEF InSomePlace
    <2>1. CASE m = N
      BY <1>4, <2>1
    <2>2. CASE m # N
      <3>1. m \in 1..Len(matches) /\ matches[m].ingest
        BY <1>1, <1>3, <2>2 DEF N
      <3>2. PICK v \in Threads : Carries(call[v], m)
        BY <3>1 DEF Handed, InSomePlace
      <3>3. Carries(call'[v], m)
        BY <1>4, <1>5, <3>2
      <3> QED BY <3>3
    <2> QED BY <2>1, <2>2
  <1>9. StoredFit(triggers, matches')
    <2>1. \A m \in 1..Len(matches) : m \in 1..Len(matches') /\ matches'[m] = matches[m]
      BY <1>1, <1>3 DEF N
    <2> QED BY <2>1 DEF Handed, StoredFit
  <1> QED BY <1>3, <1>7, <1>8, <1>9 DEF Handed

LEMMA HandsStore ==
  ASSUME Base, Base', Handed, NEW t \in Threads, Store(t)
  PROVE  Handed'
  <1> DEFINE c == call[t]
             x == Head(c.found)
             K == Len(triggers) + 1
  <1>1. /\ Logs /\ c \in Calls /\ Sane(c, buffer, matches) /\ c.pc = "store"
        /\ triggers \in Seq(Triggers) /\ Len(triggers) \in Nat
    BY Typed DEF Base, Logs, Store, At
  <1>2. /\ c.found \in Seq(Triggers) /\ c.found # <<>> /\ c.ingest
        /\ x = c.found[1] /\ 1 \in 1..Len(c.found) /\ x \in Triggers
    BY <1>1 DEF Calls, Sane, Shaped
  <1>3. Turns(t, "emit", c.ingest, c.ev, c.todo, c.found) /\ matches' = matches
    BY StoreTurns DEF Store
  <1>4. /\ triggers' = Append(triggers, x) /\ Len(triggers') = K /\ triggers'[K] = x
        /\ \A j \in 1..Len(triggers) : triggers'[j] = triggers[j]
    BY <1>1, <1>2 DEF Store
  <1>5. /\ \A m : Carries(call'[t], m) <=> Carries(call[t], m) /\ m # x.match
        /\ Carries(call[t], x.match)
    BY <1>1, <1>2, <1>3, StoredHands DEF Turns, Sane
  <1>6. \A u \in Threads : u # t => call'[u] = call[u]
    BY <1>3 DEF Turns
  <1>7. /\ x.match \in 1..Len(matches) /\ matches[x.match].ingest
        /\ matches[x.match].rule = x.rule /\ x.match \in Nat
    <2> DEFINE m == c.found[1].match
    <2>1. m \in 1..Len(matches) /\ matches[m].ingest = c.ingest /\ matches[m].rule = c.found[1].rule
      BY <1>1, <1>2 DEF Sane, FoundFits
    <2>2. m \in Nat
      BY <1>1, <2>1 DEF Logs
    <2> QED BY <1>2, <2>1, <2>2
  <1>8. \A j \in 1..K : j = K \/ j \in 1..Len(triggers)
    BY <1>1
  <1>9. \A m : Stored(triggers', m) <=> Stored(triggers, m) \/ m = x.match
    <2>1. K \in 1..K /\ \A j \in 1..Len(triggers) : j \in 1..K
      BY <1>1
    <2> HIDE DEF K, x
    <2> QED BY <1>4, <1>8, <2>1 DEF Stored
  <1>10. ~Stored(triggers, x.match) /\ \A u \in Threads : Carries(call[u], x.match) => u = t
    BY <1>5, <1>7 DEF Handed, InOnePlace
  <1> HIDE DEF K, x
  <1>11. StoredFit(triggers', matches)
    <2>1. ASSUME NEW j \in 1..K
          PROVE  LET m == triggers'[j].match
                 IN  m \in 1..Len(matches) /\ matches[m].ingest /\ matches[m].rule = triggers'[j].rule
      <3>1. CASE j = K
        BY <1>4, <1>7, <3>1
      <3>2. CASE j \in 1..Len(triggers)
        BY <1>4, <3>2 DEF Handed, StoredFit
      <3> QED BY <1>8, <3>1, <3>2
    <2>2. ASSUME NEW j \in 1..K, NEW k \in 1..K, triggers'[j].match = triggers'[k].match
          PROVE  j = k
      <3>1. \A i \in 1..Len(triggers) : triggers'[i] = triggers[i] /\ triggers[i].match # x.match
        BY <1>4, <1>10 DEF Stored
      <3>2. \A h, i \in 1..Len(triggers) : triggers[h].match = triggers[i].match => h = i
        BY DEF Handed, StoredFit
      <3> QED BY <1>4, <1>8, <2>2, <3>1, <3>2
    <2> QED BY <1>4, <2>1, <2>2 DEF StoredFit
  <1>12. InOnePlace(call', triggers')
    <2> SUFFICES ASSUME NEW m \in Nat, NEW u \in Threads, Carries(call'[u], m)
                 PROVE  /\ ~Stored(triggers', m)
                        /\ \A v \in Threads : Carries(call'[v], m) => u = v
      BY DEF InOnePlace
    <2>1. \A v \in Threads : Carries(call'[v], m) => Carries(call[v], m) /\ m # x.match
      BY <1>5, <1>6, <1>10
    <2> QED BY <1>9, <2>1 DEF Handed, InOnePlace
  <1>13. InSomePlace(call', triggers', matches)
    <2> SUFFICES ASSUME NEW m \in 1..Len(matches), matches[m].ingest, ~Stored(triggers', m)
                 PROVE  \E v \in Threads : Carries(call'[v], m)
      BY DEF InSomePlace
    <2>1. ~Stored(triggers, m) /\ m # x.match
      BY <1>9
    <2>2. PICK v \in Threads : Carries(call[v], m)
      BY <2>1 DEF Handed, InSomePlace
    <2>3. Carries(call'[v], m)
      BY <1>5, <1>6, <2>1, <2>2
    <2> QED BY <2>3
  <1> QED BY <1>3, <1>11, <1>12, <1>13 DEF Handed

LEMMA HandedNext ==
  ASSUME Base, Base', Handed, [Next]_vars
  PROVE  Handed'
  <1> USE DEF Turns
  <1>1. \A t \in Threads : call[t] \in Calls /\ Sane(call[t], buffer, matches)
    BY Typed DEF Base, Logs
  <1>2. ASSUME NEW t \in Threads, NEW e \in Events, Ingest(t, e)
        PROVE  Handed'
    <2>1. call[t].found = <<>> /\ call'[t].found = <<>> /\ call[t].pc = "idle" /\ call'[t].pc = "snapshot"
      BY <1>1, <1>2, IngestTurns DEF Sane, Shaped, Ingest, At
    <2>2. \A m : ~Carries(call[t], m) /\ ~Carries(call'[t], m)
      BY <2>1, EmptyHands
    <2>3. \A u \in Threads : u # t => call'[u] = call[u]
      BY <1>2, IngestTurns
    <2> QED BY <1>2, <2>2, <2>3, HandsRest DEF Ingest
  <1>3. ASSUME NEW r \in Rules, AddRule(r)
        PROVE  Handed'
    BY <1>3 DEF AddRule, Handed
  <1>4. ASSUME NEW t \in Threads, Snapshot(t)
        PROVE  Handed'
    BY <1>4, SnapshotTurns, SameHands, HandsRest DEF Snapshot, At
  <1>5. ASSUME NEW t \in Threads, RunScheduled(t)
        PROVE  Handed'
    BY <1>5, RunScheduledTurns, SameHands, HandsRest DEF RunScheduled, At
  <1>6. ASSUME NEW t \in Threads, ReadBuffer(t)
        PROVE  Handed'
    BY <1>6, ReadBufferTurns, SameHands, HandsRest DEF ReadBuffer, At
  <1>7. ASSUME NEW t \in Threads, Eval(t)
        PROVE  Handed'
    <2>1. call'[t].found = call[t].found /\ call[t].pc # "emit" /\ call'[t].pc # "emit"
          /\ \A u \in Threads : u # t => call'[u] = call[u]
      BY <1>7, EvalTurns DEF Eval, At
    <2> QED BY <1>7, <2>1, SameHands, HandsRest DEF Eval
  <1>8. ASSUME NEW t \in Threads, Match(t)
        PROVE  Handed'
    BY <1>8, HandsMatch
  <1>9. ASSUME NEW t \in Threads, Done(t)
        PROVE  Handed'
    <2>1. call'[t].found = <<>> /\ \A u \in Threads : u # t => call'[u] = call[u]
      BY <1>9, DoneTurns
    <2>2. \A m : ~Carries(call'[t], m)
      BY <2>1, EmptyHands
    <2>3. ASSUME NEW m \in 1..Len(matches), Carries(call[t], m) PROVE ~matches[m].ingest
      <3>1. call[t].found # <<>> /\ matches[m].ingest = call[t].ingest
        BY <1>1, <2>3, EmptyHands, CarriedFits DEF Sane
      <3> QED BY <1>9, <3>1 DEF Done
    <2> QED BY <1>9, <2>1, <2>2, <2>3, HandsRest DEF Done
  <1>10. ASSUME NEW t \in Threads, Acquire(t)
         PROVE  Handed'
    BY <1>10, AcquireTurns, SameHands, HandsRest DEF Acquire, At
  <1>11. ASSUME NEW t \in Threads, Store(t)
         PROVE  Handed'
    BY <1>11, HandsStore
  <1>12. ASSUME NEW t \in Threads, Emit(t)
         PROVE  Handed'
    <2>1. call[t].pc = "emit" /\ call[t].found # <<>> /\ matches' = matches /\ triggers' = triggers
      BY <1>1, <1>12 DEF Emit, At, Sane, Shaped
    <2>2. CASE Len(call[t].found) = 1
      <3>1. call'[t].found = <<>> /\ \A u \in Threads : u # t => call'[u] = call[u]
        BY <1>12, <2>2, EmitTurns
      <3> QED BY <1>1, <2>1, <2>2, <3>1, EmptyHands, LastHands, HandsRest
    <2>3. CASE Len(call[t].found) # 1
      <3>1. /\ call'[t].found = Tail(call[t].found) /\ call'[t].pc = "store"
            /\ \A u \in Threads : u # t => call'[u] = call[u]
        BY <1>12, <2>3, EmitTurns
      <3>2. \A m : Carries(call'[t], m) <=> Carries(call[t], m)
        BY <1>1, <2>1, <3>1, EmittedHands
      <3> QED BY <2>1, <3>1, <3>2, HandsRest
    <2> QED BY <2>2, <2>3
  <1>13. ASSUME UNCHANGED vars
         PROVE  Handed'
    BY <1>13 DEF vars, Handed
  <1> QED
    BY <1>2, <1>3, <1>4, <1>5, <1>6, <1>7, <1>8, <1>9, <1>10, <1>11, <1>12, <1>13
       DEF Next, Continue

LEMMA HandedInvariant == Spec => [](Base /\ Handed)
  <1>1. Init => Handed
    <2> SUFFICES ASSUME Init PROVE Handed
      OBVIOUS
    <2>1. \A t \in Threads : \A m : ~Carries(call[t], m)
      BY EmptyHands DEF Init, Idle
    <2> QED BY <2>1 DEF Init, Handed, StoredFit, InOnePlace, InSomePlace
  <1>2. Base /\ Base' /\ Handed /\ [Next]_vars => Handed'
    BY HandedNext
  <1> QED BY <1>1, <1>2, BaseInvariant, PTL DEF Spec

(* Each match of an ingest has exactly one trigger, with its rule, however *)
(* many threads push matches and triggers at the same time, and the match  *)
(* of a scheduled run has none stored (evaluate_rule).                     *)
THEOREM OneTriggerPerMatchHolds == Spec => []OneTriggerPerMatch
  <1>1. ASSUME Base, Handed PROVE OneTriggerPerMatch
    <2> SUFFICES ASSUME NEW m \in 1..Len(matches)
                 PROVE  LET stored == {k \in 1..Len(triggers) : triggers[k].match = m}
                            held   == {h \in Threads \X (1..(MaxRules + 1)) : Holds(h[1], h[2], m)}
                        IN  /\ matches[m].ingest => Cardinality(stored) + Cardinality(held) = 1
                            /\ ~matches[m].ingest => stored = {}
                            /\ \A k \in stored : triggers[k].rule = matches[m].rule
      BY DEF OneTriggerPerMatch
    <2> DEFINE stored == {k \in 1..Len(triggers) : triggers[k].match = m}
               held   == {h \in Threads \X (1..(MaxRules + 1)) : Holds(h[1], h[2], m)}
    <2>1. /\ \A k \in stored : matches[m].ingest /\ triggers[k].rule = matches[m].rule
          /\ \A j, k \in stored : j = k
      BY <1>1 DEF Handed, StoredFit
    <2>2. m \in Nat /\ Logs
      BY <1>1, Typed DEF Base, Logs
    <2>3. \A h \in held : h[1] \in Threads /\ h[2] \in Held(call[h[1]])
                         /\ call[h[1]].found[h[2]].match = m /\ h = <<h[1], h[2]>>
      <3> SUFFICES ASSUME NEW h \in held
                   PROVE  h[1] \in Threads /\ h[2] \in Held(call[h[1]])
                         /\ call[h[1]].found[h[2]].match = m /\ h = <<h[1], h[2]>>
        OBVIOUS
      <3>1. h[1] \in Threads /\ h[2] \in 1..(MaxRules + 1) /\ h = <<h[1], h[2]>> /\ Holds(h[1], h[2], m)
        OBVIOUS
      <3>2. call[h[1]].found \in Seq(Triggers)
        BY <2>2, <3>1 DEF Logs, Calls
      <3>3. Len(call[h[1]].found) \in Nat
        BY <3>2
      <3> QED BY <3>1, <3>3, BoundAssumption DEF Holds, Held, At
    <2>4. ASSUME matches[m].ingest
          PROVE  Cardinality(stored) + Cardinality(held) = 1
      <3>1. CASE Stored(triggers, m)
        <4>1. PICK j : j \in stored
          BY <3>1 DEF Stored
        <4>2. stored = {j}
          BY <2>1, <4>1
        <4>3. \A t \in Threads : ~Carries(call[t], m)
          BY <1>1, <2>2, <3>1 DEF Handed, InOnePlace
        <4>4. held = {}
          BY <2>3, <4>3 DEF Carries
        <4> HIDE DEF stored, held
        <4>5. Cardinality(stored) = 1 /\ Cardinality(held) = 0
          BY <4>2, <4>4, FS_Singleton, FS_EmptySet
        <4> QED BY <4>5
      <3>2. CASE ~Stored(triggers, m)
        <4>1. PICK t \in Threads : Carries(call[t], m)
          BY <1>1, <2>4, <3>2 DEF Handed, InSomePlace
        <4>2. PICK k \in Held(call[t]) : call[t].found[k].match = m
          BY <4>1 DEF Carries
        <4>3. Sane(call[t], buffer, matches) /\ call[t] \in Calls /\ call[t].ingest
          <5>1. Sane(call[t], buffer, matches) /\ call[t] \in Calls
            BY <1>1, <2>2 DEF Base, Logs
          <5>2. matches[m].ingest = call[t].ingest
            BY <4>1, <5>1, CarriedFits DEF Sane
          <5> QED BY <2>4, <5>1, <5>2
        <4>4. k \in 1..(MaxRules + 1) /\ k <= Len(call[t].found) /\ k \in 1..Len(call[t].found)
          <5> DEFINE a == Len(call[t].todo)
                     b == Len(call[t].found)
          <5>1. a \in Nat /\ b \in Nat /\ a + b <= MaxRules
            <6>1. a \in Nat /\ b \in Nat
              BY <4>3 DEF Calls
            <6>2. a + b <= MaxRules
              BY <4>3 DEF Sane, Shaped
            <6> QED BY <6>1, <6>2
          <5>2. k \in 1..b
            BY <4>2 DEF Held
          <5> HIDE DEF a, b
          <5>3. k \in 1..(MaxRules + 1) /\ k <= b /\ k \in 1..b
            BY <5>1, <5>2, BoundAssumption
          <5> QED BY <5>3 DEF b
        <4>5. <<t, k>> \in held
          BY <4>2, <4>4 DEF Holds, Held, At
        <4>6. \A h \in held : h = <<t, k>>
          <5> SUFFICES ASSUME NEW h \in held PROVE h = <<t, k>>
            OBVIOUS
          <5>1. /\ h[1] \in Threads /\ h[2] \in Held(call[h[1]])
                /\ call[h[1]].found[h[2]].match = m /\ h = <<h[1], h[2]>>
            BY <2>3
          <5>2. Carries(call[h[1]], m)
            BY <5>1 DEF Carries
          <5>3. h[1] = t
            BY <1>1, <2>2, <4>1, <5>1, <5>2 DEF Handed, InOnePlace
          <5>4. h[2] = k
            BY <4>2, <4>3, <4>4, <5>1, <5>3 DEF Sane, FoundFits, Held
          <5> QED BY <5>1, <5>3, <5>4
        <4> HIDE DEF held
        <4>7. held = {<<t, k>>} /\ stored = {}
          BY <3>2, <4>5, <4>6 DEF Stored
        <4> HIDE DEF stored
        <4>8. Cardinality(stored) = 0 /\ Cardinality(held) = 1
          BY <4>7, FS_Singleton, FS_EmptySet
        <4> QED BY <4>8
      <3> QED BY <3>1, <3>2
    <2> QED BY <2>1, <2>4
  <1> QED BY <1>1, HandedInvariant, PTL

-----------------------------------------------------------------------------
(***************************************************************************)
(* What a rule means, of a given buffer.                                   *)
(***************************************************************************)
Meant(b, r, n, S) ==
  CASE r.kind = "Behavioral" ->
         \/ r.threshold = 0
         \/ \E W \in SUBSET S :
              /\ Cardinality(W) = r.threshold
              /\ \A w \in W : Has(b[w].event, r.field, TextOf(b[n].event, r.field))
    [] r.kind = "Correlation" ->
         /\ TextOf(b[n].event, "event_kind") \in r.kinds
         /\ \A k \in r.kinds : \E w \in S : Has(b[w].event, "event_kind", k)
    [] OTHER -> EvalSigma(r, b[n].event)

LEMMA WarrantsMeant == \A r, n, S : Warrants(r, n, S) <=> Meant(buffer, r, n, S)
  <1> SUFFICES ASSUME NEW r, NEW n, NEW S
               PROVE  Warrants(r, n, S) <=> Meant(buffer, r, n, S)
    OBVIOUS
  <1>1. CASE r.kind = "Behavioral"
    BY <1>1 DEF Warrants, Meant, EventAt
  <1>2. CASE r.kind = "Correlation"
    <2>1. r.kind # "Behavioral"
      BY <1>2
    <2>2. (\E k \in r.kinds : TextOf(EventAt(n), "event_kind") = k)
            <=> TextOf(buffer[n].event, "event_kind") \in r.kinds
      BY DEF EventAt
    <2>3. r.kinds \subseteq {EventAt(w)["event_kind"] : w \in {v \in S : "event_kind" \in DOMAIN EventAt(v)}}
            <=> \A k \in r.kinds : \E w \in S : Has(buffer[w].event, "event_kind", k)
      BY DEF EventAt, Has
    <2> QED BY <1>2, <2>1, <2>2, <2>3 DEF Warrants, Meant
  <1>3. CASE r.kind # "Behavioral" /\ r.kind # "Correlation"
    BY <1>3 DEF Warrants, Meant, EventAt
  <1> QED BY <1>1, <1>2, <1>3

(* More events warrant more, and it depends on no others.                  *)
LEMMA MeantGrows ==
  ASSUME NEW b, NEW b2, NEW n, NEW r, NEW S, NEW T, S \subseteq T,
         b2[n] = b[n], \A w \in S : b2[w] = b[w], Meant(b, r, n, S)
  PROVE  Meant(b2, r, n, T)
  <1>1. CASE r.kind = "Behavioral"
    BY <1>1 DEF Meant
  <1>2. CASE r.kind = "Correlation"
    BY <1>2 DEF Meant
  <1>3. CASE r.kind # "Behavioral" /\ r.kind # "Correlation"
    BY <1>3 DEF Meant
  <1> QED BY <1>1, <1>2, <1>3

Counted(f, v) == {n \in 1..Len(buffer) : Has(EventAt(n), f, v)}

LEMMA CountedFinite ==
  ASSUME buffer \in Seq(Buffered), NEW f, NEW v
  PROVE  /\ IsFiniteSet(Counted(f, v)) /\ CountOf(f, v) = Cardinality(Counted(f, v))
         /\ CountOf(f, v) \in Nat
  <1>1. Len(buffer) \in Nat
    OBVIOUS
  <1>2. IsFiniteSet(1..Len(buffer)) /\ Counted(f, v) \in SUBSET (1..Len(buffer))
    BY <1>1, UpTo DEF Counted
  <1> QED BY <1>2, FS_Subset, FS_CardinalityType DEF CountOf, Counted

(* What a rule means by the events so far is found by the counters, and    *)
(* what the counters find, it means by all events in the buffer.           *)
LEMMA MeantIsFound ==
  ASSUME buffer \in Seq(Buffered), NEW n \in 1..Len(buffer), NEW r \in Rules,
         Meant(buffer, r, n, 1..n)
  PROVE  Evaluate(r, EventAt(n))
  <1> DEFINE v == TextOf(EventAt(n), r.field)
  <1>1. \A w \in 1..n : w \in 1..Len(buffer)
    OBVIOUS
  <1>2. CASE r.kind = "Behavioral"
    <2>1. CountOf(r.field, v) \in Nat /\ r.threshold \in Nat
      BY CountedFinite, RuleAssumption DEF IsRule
    <2>2. CountOf(r.field, v) >= r.threshold
      <3>1. CASE r.threshold = 0
        BY <2>1, <3>1
      <3>2. CASE r.threshold # 0
        <4>1. PICK W \in SUBSET (1..n) :
                /\ Cardinality(W) = r.threshold
                /\ \A w \in W : Has(EventAt(w), r.field, v)
          BY <1>2, <3>2 DEF Meant, EventAt
        <4>2. W \in SUBSET Counted(r.field, v)
          BY <1>1, <4>1 DEF Counted
        <4>3. Cardinality(W) <= Cardinality(Counted(r.field, v))
          BY <4>2, CountedFinite, FS_Subset
        <4> QED BY <2>1, <4>1, <4>3, CountedFinite
      <3> QED BY <3>1, <3>2
    <2> QED BY <1>2, <2>2 DEF Evaluate, EvalBehavioral
  <1>3. CASE r.kind = "Correlation"
    <2>1. TextOf(EventAt(n), "event_kind") \in r.kinds
      BY <1>3 DEF Meant, EventAt
    <2>2. ASSUME NEW k \in r.kinds PROVE CountOf("event_kind", k) > 0
      <3>1. PICK w \in 1..n : Has(EventAt(w), "event_kind", k)
        BY <1>3 DEF Meant, EventAt
      <3>2. Counted("event_kind", k) # {}
        BY <1>1, <3>1 DEF Counted
      <3>3. Cardinality(Counted("event_kind", k)) # 0
        BY <3>2, CountedFinite, FS_EmptySet
      <3> QED BY <3>3, CountedFinite
    <2>3. r.kind # "Behavioral"
      BY <1>3
    <2> QED BY <1>3, <2>1, <2>2, <2>3 DEF Evaluate, EvalCorrelation
  <1>4. CASE r.kind # "Behavioral" /\ r.kind # "Correlation"
    BY <1>4 DEF Meant, Evaluate, EventAt
  <1> QED BY <1>2, <1>3, <1>4

LEMMA FoundIsMeant ==
  ASSUME buffer \in Seq(Buffered), NEW n \in 1..Len(buffer), NEW r \in Rules,
         Evaluate(r, EventAt(n))
  PROVE  Meant(buffer, r, n, 1..Len(buffer))
  <1> DEFINE v == TextOf(EventAt(n), r.field)
  <1>1. CASE r.kind = "Behavioral"
    <2>1. CountOf(r.field, v) >= r.threshold /\ r.threshold \in Nat
      BY <1>1, RuleAssumption DEF Evaluate, EvalBehavioral, IsRule
    <2>2. PICK W \in SUBSET Counted(r.field, v) : Cardinality(W) = r.threshold
      BY <2>1, CountedFinite, SubsetOfSize
    <2>3. W \in SUBSET (1..Len(buffer)) /\ \A w \in W : Has(buffer[w].event, r.field, v)
      BY <2>2 DEF Counted, EventAt
    <2> QED BY <1>1, <2>2, <2>3 DEF Meant, EventAt
  <1>2. CASE r.kind = "Correlation"
    <2>1. r.kind # "Behavioral"
      BY <1>2
    <2>2. /\ TextOf(EventAt(n), "event_kind") \in r.kinds
          /\ \A k \in r.kinds : CountOf("event_kind", k) > 0
      BY <1>2, <2>1 DEF Evaluate, EvalCorrelation
    <2>3. ASSUME NEW k \in r.kinds
          PROVE  \E w \in 1..Len(buffer) : Has(buffer[w].event, "event_kind", k)
      <3>1. Counted("event_kind", k) # {}
        BY <2>2, CountedFinite, FS_EmptySet
      <3> QED BY <3>1 DEF Counted, EventAt
    <2> QED BY <1>2, <2>1, <2>2, <2>3 DEF Meant, EventAt
  <1>3. CASE r.kind # "Behavioral" /\ r.kind # "Correlation"
    BY <1>3 DEF Meant, Evaluate, EventAt
  <1> QED BY <1>1, <1>2, <1>3

-----------------------------------------------------------------------------
(***************************************************************************)
(* What an event warrants is reported, or its ingest is still after it.    *)
(***************************************************************************)
Reported(ts, ms, r, n) ==
  \E j \in 1..Len(ts) : ts[j].rule = r /\ ms[ts[j].match].ev = n

HasJob(c, r)  == \E j \in 1..Len(c.todo) : c.todo[j].rule = r
HasFound(c, r) == \E k \in Held(c) : c.found[k].rule = r
Pursues(c, r, n) ==
  c.ingest /\ c.ev = n /\ (c.pc = "snapshot" \/ HasJob(c, r) \/ HasFound(c, r))

Kept(b, rs, ts, ms, cs, n) ==
  /\ b[n].known <= Len(rs)
  /\ \A k \in 1..b[n].known : rs[k].enabled /\ Meant(b, rs[k], n, 1..n) =>
       Reported(ts, ms, rs[k], n) \/ \E t \in Threads : Pursues(cs[t], rs[k], n)

Promised == \A n \in 1..Len(buffer) : Kept(buffer, rules, triggers, matches, call, n)

LEMMA ReportedStays ==
  ASSUME NEW ts \in Seq(Triggers), NEW ts2 \in Seq(Triggers), Extends(ts, ts2),
         NEW ms \in Seq(Matches), NEW ms2 \in Seq(Matches), Extends(ms, ms2),
         StoredFit(ts, ms), NEW r, NEW n, Reported(ts, ms, r, n)
  PROVE  Reported(ts2, ms2, r, n)
  <1>1. PICK j \in 1..Len(ts) : ts[j].rule = r /\ ms[ts[j].match].ev = n
    BY DEF Reported
  <1>2. j \in 1..Len(ts2) /\ ts2[j] = ts[j]
    <2>1. Len(ts) \in Nat /\ Len(ts2) \in Nat
      OBVIOUS
    <2> QED BY <2>1 DEF Extends
  <1>3. ms2[ts[j].match] = ms[ts[j].match]
    BY DEF StoredFit, Extends
  <1> QED BY <1>1, <1>2, <1>3 DEF Reported

(* A step after which the events that were there are still taken care of.  *)
LEMMA KeptByStep ==
  ASSUME Base, Base', Handed, NEW n \in 1..Len(buffer), n \in 1..Len(buffer'),
         Kept(buffer, rules, triggers, matches, call, n),
         Extends(buffer, buffer'), Extends(rules, rules'), Extends(triggers, triggers'),
         Extends(matches, matches'), NEW t \in Threads,
         \A u \in Threads : u # t => call'[u] = call[u],
         \A r \in Rules : Pursues(call[t], r, n) /\ r.enabled /\ Meant(buffer, r, n, 1..n) =>
           Pursues(call'[t], r, n) \/ Reported(triggers', matches', r, n)
  PROVE  Kept(buffer', rules', triggers', matches', call', n)
  <1>1. /\ Logs /\ Logs' /\ n \in Nat /\ buffer \in Seq(Buffered) /\ buffer[n] \in Buffered
        /\ Len(rules) \in Nat /\ Len(rules') \in Nat
    BY Typed, TypedNext DEF Base, Logs
  <1>2. /\ buffer'[n] = buffer[n] /\ buffer[n].known \in Nat
        /\ buffer[n].known <= Len(rules) /\ Len(rules) <= Len(rules')
    BY <1>1 DEF Extends, Kept, Buffered
  <1>3. ASSUME NEW k \in 1..buffer[n].known, rules'[k].enabled, Meant(buffer', rules'[k], n, 1..n)
        PROVE  \/ Reported(triggers', matches', rules'[k], n)
               \/ \E u \in Threads : Pursues(call'[u], rules'[k], n)
    <2>1. k \in 1..Len(rules) /\ rules'[k] = rules[k] /\ rules[k] \in Rules
      BY <1>1, <1>2 DEF Extends, Logs
    <2>2. \A w \in 1..n : buffer[w] = buffer'[w]
      BY <1>1 DEF Extends
    <2>3. Meant(buffer, rules[k], n, 1..n)
      BY <1>1, <1>2, <1>3, <2>1, <2>2, MeantGrows
    <2>4. CASE Reported(triggers, matches, rules[k], n)
      <3>1. Reported(triggers', matches', rules[k], n)
        BY <1>1, <2>4, ReportedStays DEF Logs, Handed
      <3> QED BY <2>1, <3>1
    <2>5. CASE \E u \in Threads : Pursues(call[u], rules[k], n)
      <3>1. PICK u \in Threads : Pursues(call[u], rules[k], n)
        BY <2>5
      <3>2. Pursues(call'[u], rules[k], n) \/ Reported(triggers', matches', rules[k], n)
        BY <1>3, <2>1, <2>3, <3>1
      <3> QED BY <2>1, <3>2
    <2> QED BY <1>3, <2>1, <2>3, <2>4, <2>5 DEF Kept
  <1> QED BY <1>1, <1>2, <1>3 DEF Kept

(* The pursuit of one thread, step by step.                                *)
LEMMA SnapshotPursues ==
  ASSUME Base, Promised, NEW t \in Threads, Snapshot(t), NEW n \in 1..Len(buffer),
         NEW k \in 1..buffer[n].known, rules[k].enabled, Pursues(call[t], rules[k], n)
  PROVE  Pursues(call'[t], rules[k], n)
  <1>1. Logs /\ buffer[n] \in Buffered /\ Len(rules) \in Nat /\ buffer[n].known \in Nat
    <2>1. Logs
      BY Typed DEF Base
    <2>2. buffer[n] \in Buffered /\ Len(rules) \in Nat
      BY <2>1 DEF Logs
    <2> QED BY <2>1, <2>2 DEF Buffered
  <1>2. k \in 1..Len(rules)
    BY <1>1 DEF Promised, Kept
  <1>3. PICK i \in 1..Len(EnabledRules) : EnabledRules[i] = rules[k]
    BY <1>1, <1>2, RulesSifted DEF Logs
  <1>4. EnabledRules \in Seq(Rules) /\ call[t].ev \in Nat
    BY <1>1, RulesSifted DEF Logs, Calls
  <1>5. /\ call'[t].todo = JobsFor(EnabledRules, call[t].ev)
        /\ call'[t].ingest = call[t].ingest /\ call'[t].ev = call[t].ev
    BY SnapshotTurns DEF Turns
  <1>6. i \in 1..Len(call'[t].todo) /\ call'[t].todo[i] = [rule |-> EnabledRules[i], ev |-> call[t].ev]
    BY <1>4, <1>5, JobsForType
  <1>7. HasJob(call'[t], rules[k])
    BY <1>3, <1>6 DEF HasJob
  <1> QED BY <1>5, <1>7 DEF Pursues

LEMMA FirstOrRest ==
  ASSUME NEW c \in Calls, NEW d, d.todo = Tail(c.todo), c.todo # <<>>, NEW r, HasJob(c, r)
  PROVE  Head(c.todo).rule = r \/ HasJob(d, r)
  <1>1. c.todo \in Seq(Jobs)
    BY DEF Calls
  <1>2. PICK j \in 1..Len(c.todo) : c.todo[j].rule = r
    BY DEF HasJob
  <1>3. CASE j = 1
    BY <1>1, <1>2, <1>3
  <1>4. CASE j # 1
    <2>1. j - 1 \in 1..Len(Tail(c.todo)) /\ Tail(c.todo)[j - 1] = c.todo[j]
      BY <1>1, <1>4
    <2> QED BY <1>2, <2>1 DEF HasJob
  <1> QED BY <1>3, <1>4

LEMMA EvalPursues ==
  ASSUME Base, NEW t \in Threads, Eval(t), NEW n \in 1..Len(buffer), NEW r \in Rules,
         Pursues(call[t], r, n), Meant(buffer, r, n, 1..n)
  PROVE  Pursues(call'[t], r, n)
  <1> DEFINE c == call[t]
             job == Head(c.todo)
  <1>1. /\ Logs /\ c \in Calls /\ Sane(c, buffer, matches) /\ c.pc = "eval" /\ c.todo # <<>>
        /\ buffer \in Seq(Buffered)
    BY Typed DEF Base, Logs, Eval, At
  <1>2. c.ingest /\ c.ev = n /\ (HasJob(c, r) \/ HasFound(c, r))
    BY <1>1 DEF Pursues
  <1>3. CASE Evaluate(job.rule, EventAt(job.ev))
    <2>1. /\ call'[t].todo = c.todo /\ call'[t].found = c.found /\ call'[t].ingest = c.ingest
          /\ call'[t].ev = c.ev /\ call'[t].pc = "match"
      BY <1>3, EvalTurns DEF Turns
    <2> QED BY <1>1, <1>2, <2>1 DEF Pursues, HasJob, HasFound, Held
  <1>4. CASE ~Evaluate(job.rule, EventAt(job.ev))
    <2>1. /\ call'[t].todo = Tail(c.todo) /\ call'[t].found = c.found /\ call'[t].ingest = c.ingest
          /\ call'[t].ev = c.ev /\ call'[t].pc = "eval"
      BY <1>4, EvalTurns DEF Turns
    <2>2. CASE HasFound(c, r)
      BY <1>1, <1>2, <2>1, <2>2 DEF Pursues, HasFound, Held
    <2>3. CASE HasJob(c, r)
      <3>1. job.ev = n
        <4>1. c.todo \in Seq(Jobs)
          BY <1>1 DEF Calls
        <4>2. 1 \in 1..Len(c.todo) /\ job = c.todo[1]
          BY <1>1, <4>1
        <4> QED BY <1>1, <1>2, <4>2 DEF Sane, JobsFit
      <3>2. job.rule # r
        BY <1>1, <1>4, <3>1, MeantIsFound
      <3>3. HasJob(call'[t], r)
        BY <1>1, <2>1, <2>3, <3>2, FirstOrRest
      <3> QED BY <1>2, <2>1, <3>3 DEF Pursues
    <2> QED BY <1>2, <2>2, <2>3
  <1> QED BY <1>3, <1>4

LEMMA MatchPursues ==
  ASSUME Base, NEW t \in Threads, Match(t), NEW n, NEW r, Pursues(call[t], r, n)
  PROVE  Pursues(call'[t], r, n)
  <1> DEFINE c == call[t]
             x == TriggerOf(Head(c.todo))
             K == Len(c.found) + 1
  <1>1. /\ Logs /\ c \in Calls /\ c.pc = "match" /\ c.todo # <<>> /\ c.found \in Seq(Triggers)
    BY MatchTurns, Typed DEF Base, Logs, Match, At, Calls
  <1>2. /\ x \in Triggers /\ call'[t].pc = "eval" /\ call'[t].ingest = c.ingest
        /\ call'[t].ev = c.ev /\ call'[t].todo = Tail(c.todo) /\ call'[t].found = Append(c.found, x)
    BY MatchTurns DEF Turns
  <1>3. c.ingest /\ c.ev = n /\ (HasJob(c, r) \/ HasFound(c, r))
    BY <1>1 DEF Pursues
  <1>4. /\ Len(c.found) \in Nat /\ Len(Append(c.found, x)) = K /\ Append(c.found, x)[K] = x
        /\ \A k \in 1..Len(c.found) : Append(c.found, x)[k] = c.found[k]
    BY <1>1, <1>2
  <1>5. Held(call'[t]) = 1..K /\ K \in 1..K /\ \A k \in 1..Len(c.found) : k \in 1..K
    BY <1>2, <1>4 DEF Held
  <1>6. x.rule = Head(c.todo).rule
    BY DEF TriggerOf
  <1> HIDE DEF K, x
  <1>7. CASE HasFound(c, r)
    BY <1>2, <1>3, <1>4, <1>5, <1>7 DEF Pursues, HasFound, Held
  <1>8. CASE HasJob(c, r)
    <2>1. Head(c.todo).rule = r \/ HasJob(call'[t], r)
      BY <1>1, <1>2, <1>8, FirstOrRest
    <2>2. CASE Head(c.todo).rule = r
      BY <1>2, <1>3, <1>4, <1>5, <1>6, <2>2 DEF Pursues, HasFound
    <2>3. CASE HasJob(call'[t], r)
      BY <1>2, <1>3, <2>3 DEF Pursues
    <2> QED BY <2>1, <2>2, <2>3
  <1> QED BY <1>3, <1>7, <1>8

LEMMA StorePursues ==
  ASSUME Base, NEW t \in Threads, Store(t), NEW n, NEW r, Pursues(call[t], r, n)
  PROVE  Pursues(call'[t], r, n) \/ Reported(triggers', matches', r, n)
  <1> DEFINE c == call[t]
             x == Head(c.found)
  <1>1. /\ Logs /\ c \in Calls /\ Sane(c, buffer, matches) /\ c.pc = "store"
        /\ triggers \in Seq(Triggers) /\ c.found \in Seq(Triggers)
    BY Typed DEF Base, Logs, Store, At, Calls
  <1>2. /\ c.found # <<>> /\ c.ingest /\ c.todo = <<>>
        /\ x = c.found[1] /\ 1 \in 1..Len(c.found) /\ x \in Triggers
    BY <1>1 DEF Sane, Shaped
  <1>3. /\ call'[t].pc = "emit" /\ call'[t].ingest = c.ingest /\ call'[t].ev = c.ev
        /\ call'[t].found = c.found /\ matches' = matches
    BY StoreTurns DEF Store, Turns
  <1>4. c.ev = n /\ \E k \in 1..Len(c.found) : c.found[k].rule = r
    <2>1. ~HasJob(c, r)
      BY <1>2 DEF HasJob
    <2> QED BY <1>1, <2>1 DEF Pursues, HasFound, Held
  <1>5. PICK k \in 1..Len(c.found) : c.found[k].rule = r
    BY <1>4
  <1>6. CASE k = 1
    <2>1. x.rule = r /\ matches[x.match].ev = n
      BY <1>1, <1>2, <1>4, <1>5, <1>6 DEF Sane, FoundFits
    <2>2. /\ triggers' = Append(triggers, x) /\ Len(triggers) + 1 \in 1..Len(triggers')
          /\ triggers'[Len(triggers) + 1] = x
      BY <1>1, <1>2 DEF Store
    <2> QED BY <1>3, <2>1, <2>2 DEF Reported
  <1>7. CASE k # 1
    <2>1. HasFound(call'[t], r)
      BY <1>3, <1>5, <1>7 DEF HasFound, Held
    <2> QED BY <1>2, <1>3, <1>4, <2>1 DEF Pursues
  <1> QED BY <1>6, <1>7

LEMMA EmitPursues ==
  ASSUME Base, NEW t \in Threads, Emit(t), NEW n, NEW r, Pursues(call[t], r, n)
  PROVE  Pursues(call'[t], r, n)
  <1> DEFINE c == call[t]
  <1>1. /\ Logs /\ c \in Calls /\ Sane(c, buffer, matches) /\ c.pc = "emit" /\ c.found \in Seq(Triggers)
        /\ Len(c.found) \in Nat
    BY Typed DEF Base, Logs, Emit, At, Calls
  <1>2. c.found # <<>> /\ c.todo = <<>>
    BY <1>1 DEF Sane, Shaped
  <1>3. c.ingest /\ c.ev = n /\ \E k \in 1..Len(c.found) : k # 1 /\ c.found[k].rule = r
    <2>1. ~HasJob(c, r)
      BY <1>2 DEF HasJob
    <2> QED BY <1>1, <2>1 DEF Pursues, HasFound, Held
  <1>4. PICK k \in 1..Len(c.found) : k # 1 /\ c.found[k].rule = r
    BY <1>3
  <1>5. Len(c.found) # 1
    BY <1>1, <1>4
  <1>6. /\ call'[t].pc = "store" /\ call'[t].ingest = c.ingest /\ call'[t].ev = c.ev
        /\ call'[t].found = Tail(c.found)
    BY <1>5, EmitTurns DEF Turns
  <1>7. k - 1 \in 1..Len(Tail(c.found)) /\ Tail(c.found)[k - 1] = c.found[k]
    BY <1>1, <1>2, <1>4
  <1>8. HasFound(call'[t], r)
    BY <1>4, <1>6, <1>7 DEF HasFound, Held
  <1> QED BY <1>3, <1>6, <1>8 DEF Pursues

LEMMA LogsGrow ==
  ASSUME Base, [Next]_vars
  PROVE  /\ Extends(buffer, buffer') /\ Extends(rules, rules')
         /\ Extends(triggers, triggers') /\ Extends(matches, matches')
  <1>1. Logs
    BY Typed DEF Base
  <1>2. /\ \A x : Extends(buffer, Append(buffer, x)) /\ Extends(rules, Append(rules, x))
        /\ \A x : Extends(triggers, Append(triggers, x)) /\ Extends(matches, Append(matches, x))
        /\ Extends(buffer, buffer) /\ Extends(rules, rules)
        /\ Extends(triggers, triggers) /\ Extends(matches, matches)
    BY <1>1, ExtendsAppend DEF Logs
  <1> QED
    BY <1>2 DEF Next, Continue, AddRule, Ingest, Snapshot, RunScheduled, ReadBuffer, Eval, Match,
                Done, Acquire, Store, Emit, vars

LEMMA PromisedNext ==
  ASSUME Base, Base', Handed, Promised, [Next]_vars
  PROVE  Promised'
  <1> DEFINE Pursued(t) ==
               /\ buffer' = buffer
               /\ \A u \in Threads : u # t => call'[u] = call[u]
               /\ \A n \in 1..Len(buffer) : \A r \in Rules :
                    Pursues(call[t], r, n) /\ Meant(buffer, r, n, 1..n) =>
                      Pursues(call'[t], r, n) \/ Reported(triggers', matches', r, n)
  <1>1. /\ Logs /\ Logs' /\ Len(buffer) \in Nat
        /\ \A t \in Threads : call[t] \in Calls /\ Sane(call[t], buffer, matches)
    BY Typed, TypedNext DEF Base, Logs
  <1>2. ASSUME NEW t \in Threads, Pursued(t)
        PROVE  Promised'
    BY <1>2, LogsGrow, KeptByStep DEF Promised
  <1>3. ASSUME NEW t \in Threads, NEW e \in Events, Ingest(t, e)
        PROVE  Promised'
    <2>1. /\ call[t].pc = "idle" /\ ~call[t].ingest /\ rules' = rules
          /\ buffer' = Append(buffer, [event |-> e, known |-> Len(rules)])
      BY <1>1, <1>3 DEF Ingest, At, Sane, Shaped
    <2>2. /\ call'[t].ingest /\ call'[t].ev = Len(buffer) + 1 /\ call'[t].pc = "snapshot"
          /\ \A u \in Threads : u # t => call'[u] = call[u]
      BY <1>3, IngestTurns DEF Turns
    <2>3. [event |-> e, known |-> Len(rules)] \in Buffered
      BY <1>1 DEF Logs, Buffered
    <2>4. /\ Len(buffer') = Len(buffer) + 1
          /\ buffer'[Len(buffer) + 1].known = Len(rules)
      BY <1>1, <2>1, <2>3 DEF Logs
    <2>5. ASSUME NEW n \in 1..Len(buffer)
          PROVE  Kept(buffer', rules', triggers', matches', call', n)
      <3>1. n \in 1..Len(buffer') /\ Kept(buffer, rules, triggers, matches, call, n)
        BY <1>1, <2>4 DEF Promised
      <3>2. \A r \in Rules : ~Pursues(call[t], r, n)
        BY <2>1 DEF Pursues
      <3> QED BY <2>2, <3>1, <3>2, LogsGrow, KeptByStep
    <2>6. Kept(buffer', rules', triggers', matches', call', Len(buffer) + 1)
      <3>1. \A r : Pursues(call'[t], r, Len(buffer) + 1)
        BY <2>2 DEF Pursues
      <3>2. buffer'[Len(buffer) + 1].known <= Len(rules')
        BY <1>1, <2>1, <2>4 DEF Logs
      <3> QED BY <3>1, <3>2 DEF Kept
    <2>7. \A n \in 1..Len(buffer') : n \in 1..Len(buffer) \/ n = Len(buffer) + 1
      BY <1>1, <2>4
    <2> QED BY <2>5, <2>6, <2>7 DEF Promised
  <1>4. ASSUME NEW r \in Rules, AddRule(r)
        PROVE  Promised'
    <2>1. CASE Threads = {}
      <3>1. /\ buffer' = buffer /\ triggers' = triggers /\ matches' = matches /\ call' = call
            /\ Extends(rules, rules')
        BY <1>4, LogsGrow DEF AddRule
      <3>2. ASSUME NEW n \in 1..Len(buffer)
            PROVE  Kept(buffer', rules', triggers', matches', call', n)
        <4>1. Kept(buffer, rules, triggers, matches, call, n) /\ buffer[n] \in Buffered
          BY <1>1 DEF Promised, Logs
        <4>2. buffer[n].known \in Nat /\ Len(rules) \in Nat /\ Len(rules') \in Nat
          BY <1>1, <4>1 DEF Buffered, Logs
        <4>3. buffer[n].known <= Len(rules) /\ buffer[n].known <= Len(rules')
          BY <3>1, <4>1, <4>2 DEF Kept, Extends
        <4>4. \A k \in 1..buffer[n].known : rules'[k] = rules[k]
          BY <3>1, <4>2, <4>3 DEF Extends
        <4> QED BY <3>1, <4>1, <4>3, <4>4 DEF Kept
      <3> QED BY <3>1, <3>2 DEF Promised
    <2>2. CASE Threads # {}
      <3>1. PICK t \in Threads : TRUE
        BY <2>2
      <3>2. Pursued(t)
        BY <1>4 DEF AddRule
      <3> QED BY <1>2, <3>2
    <2> QED BY <2>1, <2>2
  <1>5. ASSUME NEW t \in Threads, Snapshot(t)
        PROVE  Promised'
    <2>1. /\ buffer' = buffer /\ triggers' = triggers /\ matches' = matches /\ rules' = rules
          /\ \A u \in Threads : u # t => call'[u] = call[u]
      BY <1>5, SnapshotTurns DEF Snapshot, Turns
    <2>2. ASSUME NEW n \in 1..Len(buffer)
          PROVE  Kept(buffer', rules', triggers', matches', call', n)
      <3>1. Kept(buffer, rules, triggers, matches, call, n)
        BY DEF Promised
      <3>2. ASSUME NEW k \in 1..buffer[n].known, rules[k].enabled, Meant(buffer, rules[k], n, 1..n)
            PROVE  \/ Reported(triggers, matches, rules[k], n)
                   \/ \E u \in Threads : Pursues(call'[u], rules[k], n)
        <4>1. CASE Reported(triggers, matches, rules[k], n)
          BY <4>1
        <4>2. CASE \E u \in Threads : Pursues(call[u], rules[k], n)
          <5>1. PICK u \in Threads : Pursues(call[u], rules[k], n)
            BY <4>2
          <5>2. Pursues(call'[u], rules[k], n)
            BY <1>5, <2>1, <3>2, <5>1, SnapshotPursues
          <5> QED BY <5>2
        <4> QED BY <3>1, <3>2, <4>1, <4>2 DEF Kept
      <3> QED BY <2>1, <3>1, <3>2 DEF Kept
    <2> QED BY <2>1, <2>2 DEF Promised
  <1>6. ASSUME NEW t \in Threads, RunScheduled(t)
        PROVE  Promised'
    <2>1. ~call[t].ingest
      BY <1>1, <1>6 DEF RunScheduled, At, Sane, Shaped
    <2>2. Pursued(t)
      BY <1>6, <2>1, RunScheduledTurns DEF RunScheduled, Turns, Pursues
    <2> QED BY <1>2, <2>2
  <1>7. ASSUME NEW t \in Threads, ReadBuffer(t)
        PROVE  Promised'
    <2>1. ~call[t].ingest
      BY <1>1, <1>7 DEF ReadBuffer, At, Sane, Shaped
    <2>2. Pursued(t)
      BY <1>7, <2>1, ReadBufferTurns DEF ReadBuffer, Turns, Pursues
    <2> QED BY <1>2, <2>2
  <1>8. ASSUME NEW t \in Threads, Eval(t)
        PROVE  Promised'
    <2>1. \A u \in Threads : u # t => call'[u] = call[u]
      BY <1>8, EvalTurns DEF Turns
    <2>2. Pursued(t)
      BY <1>8, <2>1, EvalPursues DEF Eval
    <2> QED BY <1>2, <2>2
  <1>9. ASSUME NEW t \in Threads, Match(t)
        PROVE  Promised'
    <2>1. Pursued(t)
      BY <1>9, MatchTurns, MatchPursues DEF Match, Turns
    <2> QED BY <1>2, <2>1
  <1>10. ASSUME NEW t \in Threads, Done(t)
         PROVE  Promised'
    <2>1. \A n, r : ~Pursues(call[t], r, n)
      BY <1>10 DEF Done, At, Pursues, HasJob, HasFound, Held
    <2>2. Pursued(t)
      BY <1>10, <2>1, DoneTurns DEF Done, Turns
    <2> QED BY <1>2, <2>2
  <1>11. ASSUME NEW t \in Threads, Acquire(t)
         PROVE  Promised'
    <2>1. /\ call'[t].todo = call[t].todo /\ call'[t].found = call[t].found
          /\ call'[t].ingest = call[t].ingest /\ call'[t].ev = call[t].ev
          /\ call'[t].pc = "store" /\ call[t].pc = "eval"
          /\ \A u \in Threads : u # t => call'[u] = call[u]
      BY <1>11, AcquireTurns DEF Acquire, At, Turns
    <2>2. \A n, r : Pursues(call[t], r, n) => Pursues(call'[t], r, n)
      BY <2>1 DEF Pursues, HasJob, HasFound, Held
    <2>3. Pursued(t)
      BY <1>11, <2>1, <2>2 DEF Acquire
    <2> QED BY <1>2, <2>3
  <1>12. ASSUME NEW t \in Threads, Store(t)
         PROVE  Promised'
    <2>1. Pursued(t)
      BY <1>12, StoreTurns, StorePursues DEF Store, Turns
    <2> QED BY <1>2, <2>1
  <1>13. ASSUME NEW t \in Threads, Emit(t)
         PROVE  Promised'
    <2>1. \A u \in Threads : u # t => call'[u] = call[u]
      BY <1>13, EmitTurns DEF Turns
    <2>2. Pursued(t)
      BY <1>13, <2>1, EmitPursues DEF Emit
    <2> QED BY <1>2, <2>2
  <1>14. ASSUME UNCHANGED vars
         PROVE  Promised'
    BY <1>14 DEF vars, Promised
  <1> QED
    BY <1>3, <1>4, <1>5, <1>6, <1>7, <1>8, <1>9, <1>10, <1>11, <1>12, <1>13, <1>14
       DEF Next, Continue

LEMMA PromisedInvariant == Spec => [](Base /\ Handed /\ Promised)
  <1>1. Init => Promised
    BY DEF Init, Promised
  <1>2. Base /\ Base' /\ Handed /\ Promised /\ [Next]_vars => Promised'
    BY PromisedNext
  <1> QED BY <1>1, <1>2, HandedInvariant, PTL DEF Spec

(* No detection is lost to a race, whatever other threads ingest, add or   *)
(* publish while an event is evaluated (ingest_event).                     *)
THEOREM CompleteHolds == Spec => []Complete
  <1>1. ASSUME Base, Promised PROVE Complete
    <2> SUFFICES ASSUME NEW n \in 1..Len(buffer), ~InCall(n), NEW k \in 1..buffer[n].known,
                        rules[k].enabled, Warrants(rules[k], n, 1..n)
                 PROVE  \E j \in 1..Len(triggers) :
                          triggers[j].rule = rules[k] /\ matches[triggers[j].match].ev = n
      BY DEF Complete
    <2>1. Meant(buffer, rules[k], n, 1..n)
      BY WarrantsMeant
    <2>2. \A t \in Threads : ~Pursues(call[t], rules[k], n)
      BY DEF InCall, Pursues
    <2> QED BY <1>1, <2>1, <2>2 DEF Promised, Kept, Reported
  <1> QED BY <1>1, PromisedInvariant, PTL

-----------------------------------------------------------------------------
(***************************************************************************)
(* What is matched is warranted.                                           *)
(***************************************************************************)
Judged(x, b) ==
  /\ x.ev \in 1..Len(b) /\ x.rule.enabled
  /\ Meant(b, x.rule, x.ev, 1..Len(b))
  /\ x.ingest \/ x.rule.kind = "Scheduled"

AboutToMatch(c, b) ==
  c.pc = "match" => Meant(b, Head(c.todo).rule, Head(c.todo).ev, 1..Len(b))

AllJudged ==
  /\ \A m \in 1..Len(matches) : Judged(matches[m], buffer)
  /\ \A t \in Threads : AboutToMatch(call[t], buffer)

LEMMA JudgedStays ==
  ASSUME NEW b \in Seq(Buffered), NEW b2 \in Seq(Buffered), Extends(b, b2)
  PROVE  /\ \A r : \A n \in 1..Len(b) : Meant(b, r, n, 1..Len(b)) => Meant(b2, r, n, 1..Len(b2))
         /\ \A x : Judged(x, b) => Judged(x, b2)
  <1>1. Len(b) \in Nat /\ Len(b2) \in Nat /\ Len(b) <= Len(b2) /\ \A n \in 1..Len(b) : b2[n] = b[n]
    BY DEF Extends
  <1>2. 1..Len(b) \subseteq 1..Len(b2)
    BY <1>1
  <1>3. \A r : \A n \in 1..Len(b) : Meant(b, r, n, 1..Len(b)) => Meant(b2, r, n, 1..Len(b2))
    BY <1>1, <1>2, MeantGrows
  <1> QED BY <1>2, <1>3 DEF Judged

LEMMA HeadFits ==
  ASSUME NEW c \in Calls, NEW b, NEW ms, Sane(c, b, ms), c.todo # <<>>, c.pc # "read"
  PROVE  /\ Head(c.todo) \in Jobs /\ Head(c.todo).ev \in 1..Len(b) /\ Head(c.todo).rule.enabled
         /\ c.ingest => Head(c.todo).ev = c.ev
         /\ ~c.ingest => Head(c.todo).rule.kind = "Scheduled"
  <1>1. c.todo \in Seq(Jobs)
    BY DEF Calls
  <1>2. Head(c.todo) \in Jobs /\ Head(c.todo) = c.todo[1] /\ 1 \in 1..Len(c.todo)
    BY <1>1
  <1> QED BY <1>2 DEF Sane, JobsFit

LEMMA AllJudgedNext ==
  ASSUME Base, Base', AllJudged, [Next]_vars
  PROVE  AllJudged'
  <1>1. /\ Logs /\ Logs' /\ buffer \in Seq(Buffered) /\ buffer' \in Seq(Buffered)
        /\ Extends(buffer, buffer')
        /\ \A t \in Threads : call[t] \in Calls /\ Sane(call[t], buffer, matches)
    BY Typed, TypedNext, LogsGrow DEF Base, Logs
  <1>2. ASSUME NEW t \in Threads, \A u \in Threads : u # t => call'[u] = call[u],
               AboutToMatch(call'[t], buffer'), matches' = matches
        PROVE  AllJudged'
    <2>1. \A m \in 1..Len(matches) : Judged(matches[m], buffer')
      BY <1>1, JudgedStays DEF AllJudged
    <2>2. ASSUME NEW u \in Threads, u # t PROVE AboutToMatch(call[u], buffer')
      <3>1. CASE call[u].pc = "match"
        <4>1. call[u].todo # <<>> /\ call[u].pc # "read"
          BY <1>1, <3>1 DEF Sane, Shaped
        <4>2. Head(call[u].todo).ev \in 1..Len(buffer)
          BY <1>1, <4>1, HeadFits
        <4> QED BY <1>1, <3>1, <4>2, JudgedStays DEF AllJudged, AboutToMatch
      <3>2. CASE call[u].pc # "match"
        BY <3>2 DEF AboutToMatch
      <3> QED BY <3>1, <3>2
    <2>3. \A u \in Threads : AboutToMatch(call'[u], buffer')
      BY <1>2, <2>2
    <2> QED BY <1>2, <2>1, <2>3 DEF AllJudged
  <1>3. ASSUME NEW t \in Threads, NEW e \in Events, Ingest(t, e)
        PROVE  AllJudged'
    BY <1>2, <1>3, IngestTurns DEF Ingest, Turns, AboutToMatch
  <1>4. ASSUME NEW r \in Rules, AddRule(r)
        PROVE  AllJudged'
    BY <1>4 DEF AddRule, AllJudged
  <1>5. ASSUME NEW t \in Threads, Snapshot(t)
        PROVE  AllJudged'
    BY <1>2, <1>5, SnapshotTurns DEF Snapshot, Turns, AboutToMatch
  <1>6. ASSUME NEW t \in Threads, RunScheduled(t)
        PROVE  AllJudged'
    BY <1>2, <1>6, RunScheduledTurns DEF RunScheduled, Turns, AboutToMatch
  <1>7. ASSUME NEW t \in Threads, ReadBuffer(t)
        PROVE  AllJudged'
    BY <1>2, <1>7, ReadBufferTurns DEF ReadBuffer, Turns, AboutToMatch
  <1>8. ASSUME NEW t \in Threads, Eval(t)
        PROVE  AllJudged'
    <2> DEFINE job == Head(call[t].todo)
    <2>1. job \in Jobs /\ job.ev \in 1..Len(buffer)
      BY <1>1, <1>8, HeadFits DEF Eval, At
    <2>2. job.rule \in Rules
      BY <2>1 DEF Jobs
    <2>3. matches' = matches /\ buffer' = buffer /\ \A u \in Threads : u # t => call'[u] = call[u]
      BY <1>8, EvalTurns DEF Eval, Turns
    <2>4. CASE Evaluate(job.rule, EventAt(job.ev))
      <3>1. call'[t].todo = call[t].todo
        BY <1>8, <2>4, EvalTurns DEF Turns
      <3>2. Meant(buffer, job.rule, job.ev, 1..Len(buffer))
        BY <1>1, <2>1, <2>2, <2>4, FoundIsMeant
      <3>3. AboutToMatch(call'[t], buffer')
        BY <2>3, <3>1, <3>2 DEF AboutToMatch
      <3> QED BY <1>2, <2>3, <3>3
    <2>5. CASE ~Evaluate(job.rule, EventAt(job.ev))
      <3>1. call'[t].pc = "eval"
        BY <1>8, <2>5, EvalTurns DEF Turns
      <3> QED BY <1>2, <2>3, <3>1 DEF AboutToMatch
    <2> QED BY <2>4, <2>5
  <1>9. ASSUME NEW t \in Threads, Match(t)
        PROVE  AllJudged'
    <2> DEFINE job == Head(call[t].todo)
               y   == MatchOf(t, job)
    <2>1. /\ call[t].pc = "match" /\ call[t].todo # <<>> /\ buffer' = buffer
          /\ y \in Matches /\ matches \in Seq(Matches) /\ matches' = Append(matches, y)
          /\ \A u \in Threads : u # t => call'[u] = call[u]
          /\ call'[t].pc = "eval"
      BY <1>1, <1>9, MatchTurns DEF Match, At, Turns, Logs
    <2>2. /\ job.ev \in 1..Len(buffer) /\ job.rule.enabled
          /\ ~call[t].ingest => job.rule.kind = "Scheduled"
      BY <1>1, <2>1, HeadFits
    <2>3. Meant(buffer, job.rule, job.ev, 1..Len(buffer))
      BY <2>1 DEF AllJudged, AboutToMatch
    <2>4. y.rule = job.rule /\ y.ev = job.ev /\ y.ingest = call[t].ingest
      BY DEF MatchOf
    <2>5. Judged(y, buffer)
      BY <2>2, <2>3, <2>4 DEF Judged
    <2> HIDE DEF job, y
    <2>6. ASSUME NEW m \in 1..Len(matches') PROVE Judged(matches'[m], buffer)
      <3>1. matches'[m] = y \/ (m \in 1..Len(matches) /\ matches'[m] = matches[m])
        BY <2>1
      <3> QED BY <2>5, <3>1 DEF AllJudged
    <2>7. \A u \in Threads : AboutToMatch(call'[u], buffer)
      BY <2>1 DEF AllJudged, AboutToMatch
    <2> QED BY <2>1, <2>6, <2>7 DEF AllJudged
  <1>10. ASSUME NEW t \in Threads, Done(t)
         PROVE  AllJudged'
    BY <1>2, <1>10, DoneTurns DEF Done, Turns, AboutToMatch
  <1>11. ASSUME NEW t \in Threads, Acquire(t)
         PROVE  AllJudged'
    BY <1>2, <1>11, AcquireTurns DEF Acquire, Turns, AboutToMatch
  <1>12. ASSUME NEW t \in Threads, Store(t)
         PROVE  AllJudged'
    BY <1>2, <1>12, StoreTurns DEF Store, Turns, AboutToMatch
  <1>13. ASSUME NEW t \in Threads, Emit(t)
         PROVE  AllJudged'
    <2>1. call'[t].pc # "match" /\ \A u \in Threads : u # t => call'[u] = call[u]
      BY <1>13, EmitTurns DEF Turns
    <2> QED BY <1>2, <1>13, <2>1 DEF Emit, AboutToMatch
  <1>14. ASSUME UNCHANGED vars
         PROVE  AllJudged'
    BY <1>14 DEF vars, AllJudged
  <1> QED
    BY <1>3, <1>4, <1>5, <1>6, <1>7, <1>8, <1>9, <1>10, <1>11, <1>12, <1>13, <1>14
       DEF Next, Continue

LEMMA JudgedInvariant == Spec => [](Base /\ AllJudged)
  <1>1. Init => AllJudged
    BY DEF Init, Idle, AllJudged, AboutToMatch
  <1>2. Base /\ Base' /\ AllJudged /\ [Next]_vars => AllJudged'
    BY AllJudgedNext
  <1> QED BY <1>1, <1>2, BaseInvariant, PTL DEF Spec

-----------------------------------------------------------------------------
(***************************************************************************)
(* An ingest matches a rule no more often than the rule was added.         *)
(***************************************************************************)
Result(r, n)   == [rule |-> r, ev |-> n, ingest |-> TRUE]
Times(rs, r)   == Cardinality(Places(rs, {r}))
Made(ms, r, n) == Cardinality(Places(ms, {Result(r, n)}))
Left(c, r)     == Cardinality(Places(c.todo, {j \in Jobs : j.rule = r}))

Frugal(c, ms, rs) ==
  c.ingest => \A r \in Rules :
    /\ Made(ms, r, c.ev) + Left(c, r) <= Times(rs, r)
    /\ c.pc = "snapshot" => Made(ms, r, c.ev) = 0

Thrifty ==
  /\ \A t, u \in Threads :
       call[t].ingest /\ call[u].ingest /\ call[t].ev = call[u].ev => t = u
  /\ \A t \in Threads : Frugal(call[t], matches, rules)
  /\ \A r \in Rules : \A n \in Nat : Made(matches, r, n) <= Times(rules, r)

LEMMA CountsAreNat ==
  /\ \A rs \in Seq(Rules) : \A r : Times(rs, r) \in Nat
  /\ \A ms \in Seq(Matches) : \A r, n : Made(ms, r, n) \in Nat
  /\ \A c \in Calls : \A r : Left(c, r) \in Nat
  <1>1. ASSUME NEW rs \in Seq(Rules), NEW r PROVE Times(rs, r) \in Nat
    BY PlacesFinite DEF Times
  <1>2. ASSUME NEW ms \in Seq(Matches), NEW r, NEW n PROVE Made(ms, r, n) \in Nat
    BY PlacesFinite DEF Made
  <1>3. ASSUME NEW c \in Calls, NEW r PROVE Left(c, r) \in Nat
    <2>1. c.todo \in Seq(Jobs)
      BY DEF Calls
    <2> QED BY <2>1, PlacesFinite DEF Left
  <1> QED BY <1>1, <1>2, <1>3

LEMMA NothingLeft ==
  ASSUME NEW c, c.todo = <<>>, NEW r
  PROVE  Left(c, r) = 0
  <1>1. Places(c.todo, {j \in Jobs : j.rule = r}) = {}
    BY DEF Places
  <1> QED BY <1>1, FS_EmptySet DEF Left

LEMMA LessLeft ==
  ASSUME NEW c \in Calls, NEW d, d.todo = Tail(c.todo), c.todo # <<>>, NEW r
  PROVE  Left(d, r) + (IF Head(c.todo).rule = r THEN 1 ELSE 0) <= Left(c, r)
  <1> DEFINE V == {j \in Jobs : j.rule = r}
  <1>1. c.todo \in Seq(Jobs) /\ Head(c.todo) \in Jobs
    BY DEF Calls
  <1>2. Head(c.todo) \in V <=> Head(c.todo).rule = r
    BY <1>1
  <1> HIDE DEF V
  <1>3. Cardinality(Places(Tail(c.todo), V)) + (IF Head(c.todo) \in V THEN 1 ELSE 0)
          = Cardinality(Places(c.todo, V))
    BY <1>1, PlacesTail
  <1>4. Cardinality(Places(c.todo, V)) \in Nat
    BY <1>1, PlacesFinite
  <1>5. Left(d, r) + (IF Head(c.todo).rule = r THEN 1 ELSE 0) = Left(c, r)
    BY <1>2, <1>3 DEF Left, V
  <1>6. Left(c, r) \in Nat
    BY <1>4 DEF Left, V
  <1> QED BY <1>5, <1>6

LEMMA OneMoreMade ==
  ASSUME NEW ms \in Seq(Matches), NEW y \in Matches, NEW r, NEW n
  PROVE  Made(Append(ms, y), r, n) = Made(ms, r, n) + (IF y = Result(r, n) THEN 1 ELSE 0)
  <1>1. Cardinality(Places(Append(ms, y), {Result(r, n)}))
          = Cardinality(Places(ms, {Result(r, n)})) + (IF y \in {Result(r, n)} THEN 1 ELSE 0)
    BY PlacesAppend
  <1> QED BY <1>1 DEF Made

LEMMA OneMoreTime ==
  ASSUME NEW rs \in Seq(Rules), NEW x \in Rules, NEW r
  PROVE  Times(rs, r) <= Times(Append(rs, x), r)
  <1>1. Cardinality(Places(Append(rs, x), {r}))
          = Cardinality(Places(rs, {r})) + (IF x \in {r} THEN 1 ELSE 0)
    BY PlacesAppend
  <1>2. Cardinality(Places(rs, {r})) \in Nat
    BY PlacesFinite
  <1> QED BY <1>1, <1>2 DEF Times

(* An ingest starts with a job for each time an enabled rule was added.    *)
LEMMA JobsOfRules ==
  ASSUME NEW use \in Seq(Rules), NEW ev \in Nat, NEW c, c.todo = JobsFor(use, ev), NEW r
  PROVE  Left(c, r) = Times(use, r)
  <1>1. /\ JobsFor(use, ev) \in Seq(Jobs) /\ Len(JobsFor(use, ev)) = Len(use)
        /\ \A k \in 1..Len(use) : JobsFor(use, ev)[k] = [rule |-> use[k], ev |-> ev]
    BY JobsForType
  <1>2. ASSUME NEW k \in 1..Len(use)
        PROVE  JobsFor(use, ev)[k] \in {j \in Jobs : j.rule = r} <=> use[k] \in {r}
    <2>1. JobsFor(use, ev)[k] = [rule |-> use[k], ev |-> ev] /\ use[k] \in Rules
      BY <1>1
    <2>2. [rule |-> use[k], ev |-> ev] \in Jobs
      BY <2>1 DEF Jobs
    <2> QED BY <2>1, <2>2
  <1>3. Places(c.todo, {j \in Jobs : j.rule = r}) = Places(use, {r})
    BY <1>1, <1>2 DEF Places
  <1> QED BY <1>3 DEF Left, Times

-----------------------------------------------------------------------------
(* A step of t that makes no match and adds no job to an ingest.           *)
LEMMA ThriftyRest ==
  ASSUME Base, Base', Thrifty, NEW t \in Threads, matches' = matches, rules' = rules,
         \A u \in Threads : u # t => call'[u] = call[u],
         call'[t].ingest =>
           /\ call[t].ingest /\ call'[t].ev = call[t].ev /\ call'[t].pc # "snapshot"
           /\ \A r \in Rules : Left(call'[t], r) <= Left(call[t], r)
  PROVE  Thrifty'
  <1>1. \A u, v \in Threads :
          call'[u].ingest /\ call'[v].ingest /\ call'[u].ev = call'[v].ev => u = v
    BY DEF Thrifty
  <1>2. Frugal(call'[t], matches, rules)
    <2> SUFFICES ASSUME call'[t].ingest, NEW r \in Rules
                 PROVE  Made(matches, r, call'[t].ev) + Left(call'[t], r) <= Times(rules, r)
      BY DEF Frugal
    <2> DEFINE a == Made(matches, r, call[t].ev)
               b == Left(call[t], r)
               c == Left(call'[t], r)
               d == Times(rules, r)
    <2>1. Logs /\ Logs'
      BY Typed, TypedNext DEF Base
    <2>2. a \in Nat /\ b \in Nat /\ c \in Nat /\ d \in Nat
      BY <2>1, CountsAreNat DEF Logs
    <2>3. a + b <= d /\ c <= b
      BY DEF Thrifty, Frugal
    <2>4. Made(matches, r, call'[t].ev) = a
      OBVIOUS
    <2> HIDE DEF a, b, c, d
    <2>5. a + c <= d
      BY <2>2, <2>3
    <2> QED BY <2>4, <2>5 DEF c, d
  <1>3. \A u \in Threads : Frugal(call'[u], matches, rules)
    BY <1>2 DEF Thrifty
  <1> QED BY <1>1, <1>3 DEF Thrifty

LEMMA ThriftyIngest ==
  ASSUME Base, Base', AllJudged, Thrifty, NEW t \in Threads, NEW e \in Events, Ingest(t, e)
  PROVE  Thrifty'
  <1> DEFINE N == Len(buffer) + 1
  <1>1. /\ Logs /\ N \in Nat /\ matches' = matches /\ rules' = rules /\ matches \in Seq(Matches)
        /\ rules \in Seq(Rules) /\ \A u \in Threads : Sane(call[u], buffer, matches)
    BY Typed DEF Base, Logs, Ingest
  <1>2. /\ call'[t].ev = N /\ call'[t].todo = <<>>
        /\ \A u \in Threads : u # t => call'[u] = call[u]
    BY IngestTurns DEF Turns
  <1>3. \A u \in Threads : call[u].ingest => call[u].ev # N
    BY <1>1 DEF Sane, JobsFit
  <1>4. \A u, v \in Threads :
          call'[u].ingest /\ call'[v].ingest /\ call'[u].ev = call'[v].ev => u = v
    BY <1>2, <1>3 DEF Thrifty
  <1>5. \A r \in Rules : Made(matches, r, N) = 0
    <2> SUFFICES ASSUME NEW r \in Rules PROVE Made(matches, r, N) = 0
      OBVIOUS
    <2>1. \A m \in 1..Len(matches) : matches[m].ev # N
      BY <1>1 DEF AllJudged, Judged
    <2>2. Result(r, N).ev = N
      BY DEF Result
    <2>3. Places(matches, {Result(r, N)}) = {}
      BY <2>1, <2>2 DEF Places
    <2> QED BY <2>3, FS_EmptySet DEF Made
  <1>6. Frugal(call'[t], matches, rules)
    <2> SUFFICES ASSUME NEW r \in Rules
                 PROVE  /\ Made(matches, r, N) + Left(call'[t], r) <= Times(rules, r)
                        /\ Made(matches, r, N) = 0
      BY <1>2 DEF Frugal
    <2>1. Left(call'[t], r) = 0 /\ Times(rules, r) \in Nat
      BY <1>1, <1>2, NothingLeft, CountsAreNat
    <2> QED BY <1>5, <2>1
  <1>7. \A u \in Threads : Frugal(call'[u], matches, rules)
    BY <1>2, <1>6 DEF Thrifty
  <1> QED BY <1>1, <1>4, <1>7 DEF Thrifty

LEMMA ThriftyAddRule ==
  ASSUME Base, Base', Thrifty, NEW x \in Rules, AddRule(x)
  PROVE  Thrifty'
  <1>1. /\ Logs /\ rules \in Seq(Rules) /\ matches \in Seq(Matches) /\ rules' \in Seq(Rules)
        /\ rules' = Append(rules, x) /\ matches' = matches /\ call' = call
        /\ \A t \in Threads : call[t] \in Calls
    BY Typed, TypedNext DEF Base, Logs, AddRule
  <1>2. \A r \in Rules : Times(rules, r) \in Nat /\ Times(rules', r) \in Nat
                      /\ Times(rules, r) <= Times(rules', r)
    BY <1>1, OneMoreTime, CountsAreNat
  <1>3. ASSUME NEW t \in Threads PROVE Frugal(call[t], matches, rules')
    <2> SUFFICES ASSUME call[t].ingest, NEW r \in Rules
                 PROVE  /\ Made(matches, r, call[t].ev) + Left(call[t], r) <= Times(rules', r)
                        /\ call[t].pc = "snapshot" => Made(matches, r, call[t].ev) = 0
      BY DEF Frugal
    <2> DEFINE a == Made(matches, r, call[t].ev)
               b == Left(call[t], r)
    <2>1. a \in Nat /\ b \in Nat
      BY <1>1, CountsAreNat
    <2>2. a + b <= Times(rules, r) /\ (call[t].pc = "snapshot" => a = 0)
      BY DEF Thrifty, Frugal
    <2> HIDE DEF a, b
    <2>3. a + b <= Times(rules', r)
      BY <1>2, <2>1, <2>2
    <2> QED BY <2>2, <2>3 DEF a, b
  <1>4. \A r \in Rules : \A n \in Nat : Made(matches, r, n) <= Times(rules', r)
    <2> SUFFICES ASSUME NEW r \in Rules, NEW n \in Nat PROVE Made(matches, r, n) <= Times(rules', r)
      OBVIOUS
    <2>1. Made(matches, r, n) \in Nat /\ Made(matches, r, n) <= Times(rules, r)
      BY <1>1, CountsAreNat DEF Thrifty
    <2> QED BY <1>2, <2>1
  <1> QED BY <1>1, <1>3, <1>4 DEF Thrifty

LEMMA ThriftySnapshot ==
  ASSUME Base, Base', Thrifty, NEW t \in Threads, Snapshot(t)
  PROVE  Thrifty'
  <1>1. /\ Logs /\ rules \in Seq(Rules) /\ matches' = matches /\ rules' = rules
        /\ call[t] \in Calls /\ call[t].pc = "snapshot"
    BY Typed DEF Base, Logs, Snapshot, At
  <1>2. /\ call'[t].ev = call[t].ev /\ call'[t].ingest = call[t].ingest /\ call'[t].pc = "eval"
        /\ call'[t].todo = JobsFor(EnabledRules, call[t].ev)
        /\ \A u \in Threads : u # t => call'[u] = call[u]
    BY SnapshotTurns DEF Turns
  <1>3. EnabledRules \in Seq(Rules) /\ call[t].ev \in Nat
    BY <1>1, RulesSifted DEF Calls
  <1>4. Frugal(call'[t], matches, rules)
    <2> SUFFICES ASSUME call[t].ingest, NEW r \in Rules
                 PROVE  Made(matches, r, call[t].ev) + Left(call'[t], r) <= Times(rules, r)
      BY <1>2 DEF Frugal
    <2>1. Made(matches, r, call[t].ev) = 0
      BY <1>1 DEF Thrifty, Frugal
    <2>2. Left(call'[t], r) = Times(EnabledRules, r)
      BY <1>2, <1>3, JobsOfRules
    <2>3. Times(EnabledRules, r) <= Times(rules, r)
      BY <1>1, SiftCounts DEF Times, EnabledRules
    <2>4. Times(EnabledRules, r) \in Nat
      BY <1>3, CountsAreNat
    <2> QED BY <2>1, <2>2, <2>3, <2>4
  <1>5. \A u, v \in Threads :
          call'[u].ingest /\ call'[v].ingest /\ call'[u].ev = call'[v].ev => u = v
    BY <1>2 DEF Thrifty
  <1>6. \A u \in Threads : Frugal(call'[u], matches, rules)
    BY <1>2, <1>4 DEF Thrifty
  <1> QED BY <1>1, <1>5, <1>6 DEF Thrifty

LEMMA ThriftyMatch ==
  ASSUME Base, Base', Thrifty, NEW t \in Threads, Match(t)
  PROVE  Thrifty'
  <1> DEFINE job == Head(call[t].todo)
             y   == MatchOf(t, job)
  <1>1. /\ matches \in Seq(Matches) /\ matches' \in Seq(Matches) /\ rules \in Seq(Rules)
        /\ rules' = rules /\ y \in Matches /\ matches' = Append(matches, y)
        /\ call[t] \in Calls /\ call'[t] \in Calls /\ call[t].todo # <<>>
        /\ Sane(call[t], buffer, matches) /\ call[t].pc = "match"
    <2>1. Logs /\ Logs' /\ Sane(call[t], buffer, matches)
      BY Typed, TypedNext DEF Base
    <2>2. call[t].todo # <<>> /\ y \in Matches
      BY <2>1, MatchTurns DEF Match, At, Sane, Shaped
    <2> QED BY <2>1, <2>2 DEF Logs, Match, At
  <1>2. /\ call'[t].ev = call[t].ev /\ call'[t].ingest = call[t].ingest /\ call'[t].pc = "eval"
        /\ call'[t].todo = Tail(call[t].todo)
        /\ \A u \in Threads : u # t => call'[u] = call[u]
    BY <1>1, MatchTurns DEF Turns
  <1>3. /\ y.rule = job.rule /\ y.ev = job.ev /\ y.ingest = call[t].ingest
        /\ job.rule \in Rules
    BY <1>1 DEF MatchOf, Matches
  <1>4. call[t].ingest => y = Result(job.rule, call[t].ev)
    <2>1. call[t].ingest => job.ev = call[t].ev
      BY <1>1, HeadFits
    <2> QED BY <2>1 DEF MatchOf, Result
  <1> HIDE DEF job, y
  <1>5. \A r \in Rules : \A n \in Nat :
          Made(matches', r, n) = Made(matches, r, n) + (IF y = Result(r, n) THEN 1 ELSE 0)
    BY <1>1, OneMoreMade
  <1>6. \A u \in Threads, r \in Rules :
          u # t /\ call[u].ingest => y # Result(r, call[u].ev)
    <2>1. ASSUME NEW u \in Threads, NEW r \in Rules, u # t, call[u].ingest,
                 y = Result(r, call[u].ev)
          PROVE  FALSE
      <3>1. y.ingest /\ y.ev = call[u].ev
        BY <2>1 DEF Result
      <3>2. call[t].ingest
        BY <1>3, <3>1
      <3>3. y.ev = call[t].ev
        BY <1>4, <3>2 DEF Result
      <3> QED BY <2>1, <3>1, <3>2, <3>3 DEF Thrifty
    <2> QED BY <2>1
  <1>7. ASSUME call[t].ingest, NEW r \in Rules
        PROVE  Made(matches', r, call[t].ev) + Left(call'[t], r) <= Times(rules, r)
    <2> DEFINE a == Made(matches, r, call[t].ev)
               b == Left(call[t], r)
               c == Left(call'[t], r)
               d == Times(rules, r)
               e == Made(matches', r, call[t].ev)
    <2>1. a \in Nat /\ b \in Nat /\ c \in Nat /\ d \in Nat
      BY <1>1, CountsAreNat
    <2>2. a + b <= d
      BY <1>7 DEF Thrifty, Frugal
    <2>3. y = Result(r, call[t].ev) <=> job.rule = r
      BY <1>4, <1>7 DEF Result
    <2>4. call[t].ev \in Nat
      BY <1>1 DEF Calls
    <2>5. e = a + (IF job.rule = r THEN 1 ELSE 0)
      BY <1>5, <2>3, <2>4
    <2>6. c + (IF job.rule = r THEN 1 ELSE 0) <= b
      BY <1>1, <1>2, LessLeft DEF job
    <2> HIDE DEF a, b, c, d, e
    <2>7. e + c <= d
      BY <2>1, <2>2, <2>5, <2>6
    <2> QED BY <2>7 DEF c, d, e
  <1>8. ASSUME NEW u \in Threads PROVE Frugal(call'[u], matches', rules)
    <2>1. CASE u = t
      BY <1>2, <1>7, <2>1 DEF Frugal
    <2>2. CASE u # t
      <3> SUFFICES ASSUME call[u].ingest, NEW r \in Rules
                   PROVE  Made(matches', r, call[u].ev) = Made(matches, r, call[u].ev)
        BY <1>2, <2>2 DEF Thrifty, Frugal
      <3>1. call[u].ev \in Nat /\ y # Result(r, call[u].ev)
        BY <1>6, <2>2, Typed DEF Base, Logs, Calls
      <3>2. Made(matches, r, call[u].ev) \in Nat
        BY <1>1, CountsAreNat
      <3>3. Made(matches', r, call[u].ev) = Made(matches, r, call[u].ev) + 0
        BY <1>5, <3>1
      <3> QED BY <3>2, <3>3
    <2> QED BY <2>1, <2>2
  <1>9. ASSUME NEW r \in Rules, NEW n \in Nat
        PROVE  Made(matches', r, n) <= Times(rules, r)
    <2>1. CASE y # Result(r, n)
      <3>1. Made(matches, r, n) \in Nat /\ Made(matches', r, n) = Made(matches, r, n) + 0
        BY <1>1, <1>5, <2>1, CountsAreNat
      <3>2. Made(matches', r, n) = Made(matches, r, n)
        BY <3>1
      <3> QED BY <3>2 DEF Thrifty
    <2>2. CASE y = Result(r, n)
      <3>1. y.ingest /\ y.ev = n
        BY <2>2 DEF Result
      <3>2. call[t].ingest /\ call[t].ev = n
        BY <1>3, <1>4, <3>1 DEF Result
      <3>3. Made(matches', r, n) + Left(call'[t], r) <= Times(rules, r)
        BY <1>7, <3>2
      <3>4. Made(matches', r, n) \in Nat /\ Left(call'[t], r) \in Nat /\ Times(rules, r) \in Nat
        BY <1>1, CountsAreNat
      <3> QED BY <3>3, <3>4
    <2> QED BY <2>1, <2>2
  <1>10. \A u, v \in Threads :
           call'[u].ingest /\ call'[v].ingest /\ call'[u].ev = call'[v].ev => u = v
    BY <1>2 DEF Thrifty
  <1> QED BY <1>1, <1>8, <1>9, <1>10 DEF Thrifty

LEMMA ThriftyNext ==
  ASSUME Base, Base', AllJudged, Thrifty, [Next]_vars
  PROVE  Thrifty'
  <1>1. \A t \in Threads : call[t] \in Calls /\ Shaped(call[t])
    BY Typed DEF Base, Logs, Sane
  <1>2. ASSUME NEW c \in Calls, NEW d \in Calls, d.todo = c.todo \/ (c.todo # <<>> /\ d.todo = Tail(c.todo)),
               NEW r
        PROVE  Left(d, r) <= Left(c, r)
    <2>1. Left(c, r) \in Nat /\ Left(d, r) \in Nat
      BY CountsAreNat
    <2>2. CASE d.todo = c.todo
      <3>1. Left(d, r) = Left(c, r)
        BY <2>2 DEF Left
      <3> QED BY <2>1, <3>1
    <2>3. CASE c.todo # <<>> /\ d.todo = Tail(c.todo)
      <3>1. Left(d, r) + (IF Head(c.todo).rule = r THEN 1 ELSE 0) <= Left(c, r)
        BY <2>3, LessLeft
      <3> QED BY <2>1, <3>1
    <2> QED BY <1>2, <2>2, <2>3
  <1>3. \A t \in Threads : call'[t] \in Calls
    BY TypedNext DEF Base, Logs
  <1>4. ASSUME NEW t \in Threads, RunScheduled(t) PROVE Thrifty'
    <2>1. ~call[t].ingest
      BY <1>1, <1>4 DEF RunScheduled, At, Shaped
    <2> QED BY <1>4, <2>1, RunScheduledTurns, ThriftyRest DEF RunScheduled, Turns
  <1>5. ASSUME NEW t \in Threads, ReadBuffer(t) PROVE Thrifty'
    <2>1. ~call[t].ingest
      BY <1>1, <1>5 DEF ReadBuffer, At, Shaped
    <2> QED BY <1>5, <2>1, ReadBufferTurns, ThriftyRest DEF ReadBuffer, Turns
  <1>6. ASSUME NEW t \in Threads, Eval(t) PROVE Thrifty'
    <2>1. /\ call'[t].pc # "snapshot" /\ call'[t].ingest = call[t].ingest /\ call'[t].ev = call[t].ev
          /\ call'[t].todo = call[t].todo \/ call'[t].todo = Tail(call[t].todo)
          /\ \A u \in Threads : u # t => call'[u] = call[u]
      BY <1>6, EvalTurns DEF Turns
    <2>2. \A r \in Rules : Left(call'[t], r) <= Left(call[t], r)
      BY <1>1, <1>2, <1>3, <1>6, <2>1 DEF Eval
    <2>3. matches' = matches /\ rules' = rules
      BY <1>6 DEF Eval
    <2> QED BY <2>1, <2>2, <2>3, ThriftyRest
  <1>7. ASSUME NEW t \in Threads, Done(t) PROVE Thrifty'
    BY <1>7, DoneTurns, ThriftyRest DEF Done, Turns
  <1>8. ASSUME NEW t \in Threads, Acquire(t) PROVE Thrifty'
    <2>1. /\ call'[t].pc # "snapshot" /\ call'[t].ingest = call[t].ingest /\ call'[t].ev = call[t].ev
          /\ call'[t].todo = call[t].todo /\ \A u \in Threads : u # t => call'[u] = call[u]
      BY <1>8, AcquireTurns DEF Turns
    <2>2. \A r \in Rules : Left(call'[t], r) <= Left(call[t], r)
      BY <1>1, <1>2, <1>3, <2>1
    <2> QED BY <1>8, <2>1, <2>2, ThriftyRest DEF Acquire
  <1>9. ASSUME NEW t \in Threads, Store(t) PROVE Thrifty'
    <2>1. /\ call'[t].pc # "snapshot" /\ call'[t].ingest = call[t].ingest /\ call'[t].ev = call[t].ev
          /\ call'[t].todo = call[t].todo /\ \A u \in Threads : u # t => call'[u] = call[u]
      BY <1>9, StoreTurns DEF Turns
    <2>2. \A r \in Rules : Left(call'[t], r) <= Left(call[t], r)
      BY <1>1, <1>2, <1>3, <2>1
    <2> QED BY <1>9, <2>1, <2>2, ThriftyRest DEF Store
  <1>10. ASSUME NEW t \in Threads, Emit(t) PROVE Thrifty'
    <2>1. \A u \in Threads : u # t => call'[u] = call[u]
      BY <1>10, EmitTurns DEF Turns
    <2>2. matches' = matches /\ rules' = rules
      BY <1>10 DEF Emit
    <2>3. CASE Len(call[t].found) = 1
      <3>1. ~call'[t].ingest
        BY <1>10, <2>3, EmitTurns DEF Turns
      <3> QED BY <2>1, <2>2, <3>1, ThriftyRest
    <2>4. CASE Len(call[t].found) # 1
      <3>1. /\ call'[t].pc # "snapshot" /\ call'[t].ingest = call[t].ingest
            /\ call'[t].ev = call[t].ev /\ call'[t].todo = call[t].todo
        BY <1>10, <2>4, EmitTurns DEF Turns
      <3>2. \A r \in Rules : Left(call'[t], r) <= Left(call[t], r)
        BY <1>1, <1>2, <1>3, <3>1
      <3> QED BY <2>1, <2>2, <3>1, <3>2, ThriftyRest
    <2> QED BY <2>3, <2>4
  <1>11. ASSUME UNCHANGED vars PROVE Thrifty'
    BY <1>11 DEF vars, Thrifty
  <1> QED
    BY <1>4, <1>5, <1>6, <1>7, <1>8, <1>9, <1>10, <1>11,
       ThriftyAddRule, ThriftyIngest, ThriftySnapshot, ThriftyMatch
       DEF Next, Continue

LEMMA ThriftyInvariant == Spec => [](Base /\ AllJudged /\ Thrifty)
  <1>1. ASSUME Init PROVE Thrifty
    <2>1. /\ rules = <<>> /\ matches = <<>> /\ \A t \in Threads : ~call[t].ingest
      BY <1>1 DEF Init, Idle
    <2>2. \A r, n : Places(matches, {Result(r, n)}) = {}
      BY <2>1 DEF Places
    <2>3. \A r : Places(rules, {r}) = {}
      BY <2>1 DEF Places
    <2>4. \A r, n : Made(matches, r, n) = 0 /\ Times(rules, r) = 0
      BY <2>2, <2>3, FS_EmptySet DEF Made, Times
    <2> QED BY <2>1, <2>4 DEF Thrifty, Frugal
  <1>2. Base /\ Base' /\ AllJudged /\ Thrifty /\ [Next]_vars => Thrifty'
    BY ThriftyNext
  <1> QED BY <1>1, <1>2, JudgedInvariant, PTL DEF Spec

(* No match is made up, in every state: it is of an enabled rule that the  *)
(* events buffered by now warrant, scheduled runs match scheduled rules    *)
(* only, and an ingest matches a rule at most once for each time add_rule  *)
(* put it among the rules (evaluate_rule, ingest_event, run_scheduled).    *)
THEOREM SoundHolds == Spec => []Sound
  <1>1. ASSUME Base, AllJudged, Thrifty PROVE Sound
    <2> SUFFICES ASSUME NEW m \in 1..Len(matches)
                 PROVE  LET x == matches[m]
                        IN  /\ x.rule.enabled
                            /\ Warrants(x.rule, x.ev, 1..Len(buffer))
                            /\ x.ingest \/ x.rule.kind = "Scheduled"
                            /\ x.ingest => Cardinality({j \in 1..Len(matches) : matches[j] = x})
                                             <= Cardinality({k \in 1..Len(rules) : rules[k] = x.rule})
      BY DEF Sound
    <2> DEFINE x == matches[m]
    <2>1. matches \in Seq(Matches) /\ x \in Matches
      BY <1>1, Typed DEF Base, Logs
    <2>2. Judged(x, buffer)
      BY <1>1 DEF AllJudged
    <2>3. x.rule.enabled /\ Warrants(x.rule, x.ev, 1..Len(buffer)) /\ (x.ingest \/ x.rule.kind = "Scheduled")
      BY <2>2, WarrantsMeant DEF Judged
    <2>4. ASSUME x.ingest
          PROVE  Cardinality({j \in 1..Len(matches) : matches[j] = x})
                   <= Cardinality({k \in 1..Len(rules) : rules[k] = x.rule})
      <3>1. x.rule \in Rules /\ x.ev \in Nat /\ x = Result(x.rule, x.ev)
        BY <2>1, <2>4 DEF Matches, Result
      <3>2. {j \in 1..Len(matches) : matches[j] = x} = Places(matches, {Result(x.rule, x.ev)})
        BY <3>1 DEF Places
      <3>3. {k \in 1..Len(rules) : rules[k] = x.rule} = Places(rules, {x.rule})
        BY DEF Places
      <3>4. Made(matches, x.rule, x.ev) <= Times(rules, x.rule)
        BY <1>1, <3>1 DEF Thrifty
      <3> QED BY <3>2, <3>3, <3>4 DEF Made, Times
    <2> QED BY <2>3, <2>4
  <1> QED BY <1>1, ThriftyInvariant, PTL
=============================================================================
