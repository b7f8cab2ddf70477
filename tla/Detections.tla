---------------------------- MODULE Detections ----------------------------
(***************************************************************************)
(* The detection engine (detections/src/engine.rs).  Threads ingest events,*)
(* run the scheduled rules and add rules; every call takes the one RwLock  *)
(* many times, and the other threads run between two of its critical       *)
(* sections.  Only the publication of triggers holds the lock throughout.  *)
(***************************************************************************)
EXTENDS Naturals, Sequences, FiniteSets, Sifting

CONSTANTS
  Threads,    \* the threads that call the engine
  Rules,      \* the rules that may be added, see RuleType
  Events,     \* the events that may be ingested: field -> text, partial
  Values,     \* the texts a field may have
  Empty,      \* the text "", which stands in for a missing field
  None,       \* no selection in the rule, or nobody holds the lock
  MaxRules,   \* bound: rules after which none is added
  MaxEvents,  \* bound: buffered events after which none is ingested
  MaxMatches  \* bound: matches after which no scheduled run starts

RuleKinds == {"SigmaInspired", "Behavioral", "Correlation", "Scheduled"}

(* The conditions of a rule are a JSON object; of it each kind of rule uses*)
(* the selection (field -> the texts accepted), the field and threshold to *)
(* count, or the event kinds to correlate.                                 *)
IsRule(r) ==
  /\ r.kind \in RuleKinds
  /\ r.enabled \in BOOLEAN
  /\ r.selection = None \/ \A f \in DOMAIN r.selection : r.selection[f] \subseteq Values
  /\ r.threshold \in Nat
  /\ r.kinds \subseteq Values

ASSUME RuleAssumption  == \A r \in Rules : IsRule(r)
ASSUME ValueAssumption == Empty \in Values
ASSUME EventAssumption == \A e \in Events : \A f \in DOMAIN e : e[f] \in Values
ASSUME NoneAssumption  == None \notin Threads
ASSUME BoundAssumption == MaxRules \in Nat /\ MaxEvents \in Nat /\ MaxMatches \in Nat

VARIABLES
  rules,     \* the rules, in the order they were added
  buffer,    \* event_buffer; with each event, how many rules there were when
             \* it was pushed (an auxiliary count that no action reads)
  matches,   \* the match records; a match is known by its index
  triggers,  \* the stored triggers
  lock,      \* the thread that holds the write lock across several steps
  events,    \* the triggers the emitter has announced
  call       \* thread -> the call it is in, and where

vars == <<rules, buffer, matches, triggers, lock, events, call>>

(* A job is one evaluate_rule: a rule and the buffered event it is for.    *)
Idle == [pc |-> "idle", ingest |-> FALSE, ev |-> 0, todo |-> <<>>, found |-> <<>>]

Init ==
  /\ rules = <<>> /\ buffer = <<>> /\ matches = <<>> /\ triggers = <<>>
  /\ lock = None /\ events = <<>>
  /\ call = [t \in Threads |-> Idle]

At(t, pc)  == call[t].pc = pc
Unlocked   == lock = None
Return(t)  == call' = [call EXCEPT ![t] = Idle]
EventAt(n) == buffer[n].event

-----------------------------------------------------------------------------
(***************************************************************************)
(* The conditions.                                                         *)
(***************************************************************************)
Has(e, f, v) == f \in DOMAIN e /\ e[f] = v
TextOf(e, f) == IF f \in DOMAIN e THEN e[f] ELSE Empty
CountOf(f, v) == Cardinality({n \in 1..Len(buffer) : Has(EventAt(n), f, v)})

(* An empty selection accepts every event.                                 *)
EvalSigma(r, e) ==
  /\ r.selection # None
  /\ \A f \in DOMAIN r.selection : f \in DOMAIN e /\ e[f] \in r.selection[f]

(* Mutant of EvalBehavioral: one event more than the threshold is needed.  *)
EvalBehavioralAbove(r, e) == CountOf(r.field, TextOf(e, r.field)) > r.threshold

(* Every buffered event with the same text in the field counts, whoever    *)
(* pushed it and whether or not it came before this one.                   *)
EvalBehavioral(r, e) == CountOf(r.field, TextOf(e, r.field)) >= r.threshold

EvalCorrelation(r, e) ==
  /\ TextOf(e, "event_kind") \in r.kinds
  /\ \A k \in r.kinds : CountOf("event_kind", k) > 0

Evaluate(r, e) ==
  CASE r.kind = "Behavioral"  -> EvalBehavioral(r, e)
    [] r.kind = "Correlation" -> EvalCorrelation(r, e)
    [] OTHER                  -> EvalSigma(r, e)

ReadsBuffer(r) == r.kind \in {"Behavioral", "Correlation"}

-----------------------------------------------------------------------------
(***************************************************************************)
(* The calls.                                                              *)
(***************************************************************************)
(* add_rule; it neither checks the rule nor looks for it among the others. *)
AddRule(r) ==
  /\ Unlocked /\ Len(rules) < MaxRules
  /\ rules' = Append(rules, r)
  /\ UNCHANGED <<buffer, matches, triggers, lock, events, call>>

(* ingest_event pushes the event, then takes the rules under another lock. *)
Ingest(t, e) ==
  /\ At(t, "idle") /\ Unlocked /\ Len(buffer) < MaxEvents
  /\ buffer' = Append(buffer, [event |-> e, known |-> Len(rules)])
  /\ call' = [call EXCEPT ![t].pc = "snapshot", ![t].ingest = TRUE,
                          ![t].ev = Len(buffer) + 1]
  /\ UNCHANGED <<rules, matches, triggers, lock, events>>

Enabled(r) == r.enabled

Snapshot(t) ==
  /\ At(t, "snapshot") /\ Unlocked
  /\ LET use == Sift(rules, {k \in 1..Len(rules) : Enabled(rules[k])})
     IN  call' = [call EXCEPT ![t].pc = "eval",
                    ![t].todo = [k \in 1..Len(use) |-> [rule |-> use[k], ev |-> call[t].ev]]]
  /\ UNCHANGED <<rules, buffer, matches, triggers, lock, events>>

(* run_scheduled_rules takes the rules and the buffer under two locks.     *)
EnabledScheduled(r) == r.enabled /\ r.kind = "Scheduled"

RunScheduled(t) ==
  /\ At(t, "idle") /\ Unlocked /\ Len(matches) < MaxMatches
  /\ LET use == Sift(rules, {k \in 1..Len(rules) : EnabledScheduled(rules[k])})
     IN  call' = [call EXCEPT ![t].pc = "read",
                    ![t].todo = [k \in 1..Len(use) |-> [rule |-> use[k], ev |-> 0]]]
  /\ UNCHANGED <<rules, buffer, matches, triggers, lock, events>>

(* Every rule against every event ever buffered, rule by rule.             *)
ReadBuffer(t) ==
  /\ At(t, "read") /\ Unlocked
  /\ LET n == Len(buffer)
         use == call[t].todo
     IN  call' = [call EXCEPT ![t].pc = "eval",
                    ![t].todo = [k \in 1..(Len(use) * n) |->
                      [rule |-> use[((k - 1) \div n) + 1].rule, ev |-> ((k - 1) % n) + 1]]]
  /\ UNCHANGED <<rules, buffer, matches, triggers, lock, events>>

(* evaluate_rule decides under a read lock, or under none, ...             *)
Eval(t) ==
  /\ At(t, "eval") /\ call[t].todo # <<>>
  /\ LET job == Head(call[t].todo)
     IN  /\ ReadsBuffer(job.rule) => Unlocked
         /\ IF Evaluate(job.rule, EventAt(job.ev))
            THEN call' = [call EXCEPT ![t].pc = "match"]
            ELSE call' = [call EXCEPT ![t].todo = Tail(@)]
  /\ UNCHANGED <<rules, buffer, matches, triggers, lock, events>>

MatchOf(t, job) == [rule |-> job.rule, ev |-> job.ev, ingest |-> call[t].ingest]

TriggerOf(job) == [rule |-> job.rule, match |-> Len(matches) + 1]

(* Mutants of Match: the match is stored but its trigger is lost; the same *)
(* rule is evaluated for the same event again.                             *)
MatchUntriggered(t) ==
  /\ At(t, "match") /\ Unlocked
  /\ matches' = Append(matches, MatchOf(t, Head(call[t].todo)))
  /\ call' = [call EXCEPT ![t].pc = "eval", ![t].todo = Tail(@)]
  /\ UNCHANGED <<rules, buffer, triggers, lock, events>>
MatchAgain(t) ==
  /\ At(t, "match") /\ Unlocked
  /\ matches' = Append(matches, MatchOf(t, Head(call[t].todo)))
  /\ call' = [call EXCEPT ![t].pc = "eval",
                          ![t].found = Append(@, TriggerOf(Head(call[t].todo)))]
  /\ UNCHANGED <<rules, buffer, triggers, lock, events>>

(* ... and stores the match under a write lock.                            *)
Match(t) ==
  /\ At(t, "match") /\ Unlocked
  /\ matches' = Append(matches, MatchOf(t, Head(call[t].todo)))
  /\ call' = [call EXCEPT ![t].pc = "eval", ![t].todo = Tail(@),
                          ![t].found = Append(@, TriggerOf(Head(call[t].todo)))]
  /\ UNCHANGED <<rules, buffer, triggers, lock, events>>

(* A scheduled run, or an ingest that found nothing, returns from the loop;*)
(* what a scheduled run found goes to its caller and nowhere else.         *)
Done(t) ==
  /\ At(t, "eval") /\ call[t].todo = <<>>
  /\ call[t].found = <<>> \/ ~call[t].ingest
  /\ Return(t)
  /\ UNCHANGED <<rules, buffer, matches, triggers, lock, events>>

(* Mutant of Acquire: the lock is taken for each push, not for the loop.   *)
AcquireBriefly(t) ==
  /\ At(t, "eval") /\ call[t].todo = <<>>
  /\ call[t].found # <<>> /\ call[t].ingest
  /\ Unlocked
  /\ call' = [call EXCEPT ![t].pc = "store"]
  /\ UNCHANGED <<rules, buffer, matches, triggers, lock, events>>

Acquire(t) ==
  /\ At(t, "eval") /\ call[t].todo = <<>>
  /\ call[t].found # <<>> /\ call[t].ingest
  /\ Unlocked
  /\ lock' = t
  /\ call' = [call EXCEPT ![t].pc = "store"]
  /\ UNCHANGED <<rules, buffer, matches, triggers, events>>

Store(t) ==
  /\ At(t, "store")
  /\ triggers' = Append(triggers, Head(call[t].found))
  /\ call' = [call EXCEPT ![t].pc = "emit"]
  /\ UNCHANGED <<rules, buffer, matches, lock, events>>

(* Mutant of Emit: the lock is not released on the way out.                *)
EmitLocked(t) ==
  /\ At(t, "emit")
  /\ events' = Append(events, Head(call[t].found))
  /\ IF Len(call[t].found) = 1
     THEN Return(t)
     ELSE call' = [call EXCEPT ![t].pc = "store", ![t].found = Tail(@)]
  /\ UNCHANGED <<rules, buffer, matches, triggers, lock>>

Emit(t) ==
  /\ At(t, "emit")
  /\ events' = Append(events, Head(call[t].found))
  /\ IF Len(call[t].found) = 1
     THEN Return(t) /\ lock' = None
     ELSE call' = [call EXCEPT ![t].pc = "store", ![t].found = Tail(@)] /\ UNCHANGED lock
  /\ UNCHANGED <<rules, buffer, matches, triggers>>

Continue(t) ==
  Snapshot(t) \/ ReadBuffer(t) \/ Eval(t) \/ Match(t) \/ Done(t)
    \/ Acquire(t) \/ Store(t) \/ Emit(t)

Next ==
  \/ \E r \in Rules : AddRule(r)
  \/ \E t \in Threads :
       \/ \E e \in Events : Ingest(t, e)
       \/ RunScheduled(t)
       \/ Continue(t)

Spec == Init /\ [][Next]_vars

(* A thread in a call is scheduled, and parking_lot's RwLock is eventually *)
(* fair: a thread that finds it free again and again gets it.              *)
FairSpec == Spec /\ \A t \in Threads : SF_vars(Continue(t))

-----------------------------------------------------------------------------
(***************************************************************************)
(* Properties.                                                             *)
(***************************************************************************)
Triggers == [rule : Rules, match : Nat]

TypeOK ==
  /\ rules    \in Seq(Rules)
  /\ buffer   \in Seq([event : Events, known : Nat])
  /\ matches  \in Seq([rule : Rules, ev : Nat, ingest : BOOLEAN])
  /\ triggers \in Seq(Triggers)
  /\ lock     \in Threads \cup {None}
  /\ events   \in Seq(Triggers)
  /\ call \in [Threads ->
       [pc : {"idle", "snapshot", "read", "eval", "match", "store", "emit"},
        ingest : BOOLEAN, ev : Nat,
        todo : Seq([rule : Rules, ev : Nat]), found : Seq(Triggers)]]

(* The announcements are the stored triggers in the same order, and when   *)
(* the lock is free none is outstanding: whoever counts the triggers and   *)
(* reads the emitter sees the same history (the publication loop).         *)
AnnouncedInOrder ==
  /\ TypeOK
  /\ SubSeq(triggers, 1, Len(events)) = events
  /\ Len(triggers) <= Len(events) + 1
  /\ Unlocked => Len(triggers) = Len(events)

(* The k-th of the triggers that t found is for m and not stored yet.      *)
Holds(t, k, m) ==
  /\ k <= Len(call[t].found) /\ call[t].found[k].match = m
  /\ ~(At(t, "emit") /\ k = 1)

(* A match made by an ingest has exactly one trigger, with its rule: stored*)
(* or, while the ingest is under way, in its hands.  Uuids tie the two, so *)
(* no interleaving of the pushes may cross them (evaluate_rule).  The match*)
(* of a scheduled run has none stored, so nobody downstream hears of it    *)
(* (run_scheduled_rules).                                                  *)
OneTriggerPerMatch ==
  \A m \in 1..Len(matches) :
    LET stored == {k \in 1..Len(triggers) : triggers[k].match = m}
        held   == {h \in Threads \X (1..(MaxRules + 1)) : Holds(h[1], h[2], m)}
    IN  /\ matches[m].ingest => Cardinality(stored) + Cardinality(held) = 1
        /\ ~matches[m].ingest => stored = {}
        /\ \A k \in stored : triggers[k].rule = matches[m].rule

(* What a rule means, without counters or threads: n is the event it is    *)
(* evaluated for and S the events it may look at.                          *)
Warrants(r, n, S) ==
  CASE r.kind = "Behavioral" ->
         \/ r.threshold = 0
         \/ \E W \in SUBSET S :
              /\ Cardinality(W) = r.threshold
              /\ \A w \in W : Has(EventAt(w), r.field, TextOf(EventAt(n), r.field))
    [] r.kind = "Correlation" ->
         /\ \E k \in r.kinds : TextOf(EventAt(n), "event_kind") = k
         /\ r.kinds \subseteq {EventAt(w)["event_kind"] :
                                 w \in {v \in S : "event_kind" \in DOMAIN EventAt(v)}}
    [] OTHER -> EvalSigma(r, EventAt(n))

InCall(n) == \E t \in Threads : call[t].ingest /\ call[t].ev = n

(* No detection is lost to a race: once the ingest of an event has returned*)
(* there is a trigger for every enabled rule that was there when the event *)
(* was pushed and that the events up to it warrant, whatever other threads *)
(* ingested or added meanwhile.                                            *)
Complete ==
  \A n \in 1..Len(buffer) : ~InCall(n) =>
    \A k \in 1..buffer[n].known :
      rules[k].enabled /\ Warrants(rules[k], n, 1..n) =>
        \E j \in 1..Len(triggers) :
          triggers[j].rule = rules[k] /\ matches[triggers[j].match].ev = n

(* And none is made up: every match is of an enabled rule that the events  *)
(* buffered by now warrant; a scheduled run matches scheduled rules only,  *)
(* and an ingest matches a rule once for each time the rule was added.     *)
Sound ==
  \A m \in 1..Len(matches) :
    LET x == matches[m]
    IN  /\ x.rule.enabled
        /\ Warrants(x.rule, x.ev, 1..Len(buffer))
        /\ x.ingest \/ x.rule.kind = "Scheduled"
        /\ x.ingest => Cardinality({j \in 1..Len(matches) : matches[j] = x})
                        <= Cardinality({k \in 1..Len(rules) : rules[k] = x.rule})

(* A call that has begun returns: the publication loop gives the lock back,*)
(* no thread waits for it for ever, and so a thread is outside of a call   *)
(* again and again.                                                        *)
CallsReturn == \A t \in Threads : []<>At(t, "idle")
=============================================================================
