-------------------------------- MODULE Itdr --------------------------------
(***************************************************************************)
(* The identity threat engine (itdr/src/engine.rs).  An authentication     *)
(* event is analysed against the profile of its user under one write lock; *)
(* its threats are then announced one by one without a lock, and the event *)
(* is stored last, under a lock of its own.  Profiles are keyed by user_id *)
(* alone: equal names of different tenants are one user here.              *)
(***************************************************************************)
EXTENDS Naturals, Sequences, FiniteSets

CONSTANTS
  Threads,           \* the threads that call ingest_auth
  Users,             \* the user_ids
  Positions,         \* the positions parse_geo can read
  Km,                \* the distance in km between two places (haversine_km)
  Events,            \* the events that may be ingested, see Event
  None,              \* no position
  FailureThreshold,  \* AUTH_FAILURE_THRESHOLD
  MaxEvents          \* bound: analysed events per user

ImpossibleTravelKmh == 900
CompromiseRisk      == 80
RiskPerFactor       == 15
MaxRisk             == 100

(* "abusive" stands for a source_ip in 203.0.113.0/24, "at" for observed_at*)
(* in hours; events need not arrive in the order they were observed in.    *)
Event ==
  [user : Users, place : Positions \cup {None}, at : Nat,
   success : BOOLEAN, mfa : BOOLEAN, abusive : BOOLEAN]

(* What is assumed of the constants, by the modules that use this one, too.*)
Assumption ==
  /\ None \notin Positions /\ Km \in [Positions \X Positions -> Nat]
  /\ Events \subseteq Event
  /\ FailureThreshold \in Nat \ {0} /\ MaxEvents \in Nat

VARIABLES
  profile,  \* users: the user's state; a user not met has the initial one
  seen,     \* user -> the events analysed, in order (auxiliary: the only
            \* thing an action reads of it is how many there are)
  threats,  \* the stored threats, each with its event as an index in seen
  stored,   \* auth_events, as pairs <<user, index in seen>>
  feed,     \* what the emitter received
  work      \* thread -> the event it is ingesting and the threats to announce

vars == <<profile, seen, threats, stored, feed, work>>

Kinds == {"ExcessiveAuthFailures", "MfaBypass", "ImpossibleTravel", "CredentialAbuse", "TokenTheft"}
Idle  == [pc |-> "idle", event |-> <<>>, pending |-> <<>>]

Init ==
  /\ profile = [u \in Users |-> [last |-> <<>>, place |-> None, failures |-> 0, risk |-> 0]]
  /\ seen    = [u \in Users |-> <<>>]
  /\ threats = <<>> /\ stored = <<>> /\ feed = <<>>
  /\ work    = [t \in Threads |-> Idle]

At(t, pc) == work[t].pc = pc

-----------------------------------------------------------------------------
(***************************************************************************)
(* analyze_auth.                                                           *)
(***************************************************************************)
(* Mutant of Failures: a success does not reset the counter.               *)
FailuresEver(p, e) == IF e.success THEN p.failures ELSE p.failures + 1

Failures(p, e) == IF e.success THEN 0 ELSE p.failures + 1

(* The position of the last event that had one, but the time of the last   *)
(* event of any kind; a profile's last is <<>> or <<its time>>.            *)
Travelled(p, e) ==
  /\ e.place # None /\ p.place # None /\ p.last # <<>>
  /\ e.at > p.last[1]
  /\ Km[p.place, e.place] > ImpossibleTravelKmh * (e.at - p.last[1])

When(cond, kind) == IF cond THEN <<kind>> ELSE <<>>

Factors(p, e) ==
  When(~e.success /\ Failures(p, e) >= FailureThreshold, "ExcessiveAuthFailures")
    \o When(e.success /\ ~e.mfa, "MfaBypass")
    \o When(Travelled(p, e), "ImpossibleTravel")
    \o When(~e.success /\ e.abusive, "CredentialAbuse")

(* At most 100 + 4 * 15 before the cap: the u8 does not wrap around.       *)
Risk(p, e) ==
  LET sum == p.risk + RiskPerFactor * Len(Factors(p, e))
  IN  IF sum > MaxRisk THEN MaxRisk ELSE sum

(* Mutant of Place: the first position of a user is kept.                 *)
FirstPlace(p, e) == IF p.place = None THEN e.place ELSE p.place

Place(p, e) == IF e.place = None THEN p.place ELSE e.place

ThreatKinds(p, e) == Factors(p, e) \o When(Risk(p, e) >= CompromiseRisk, "TokenTheft")

Analyze(t, e) ==
  LET u == e.user
      p == profile[u]
      n == Len(seen[u]) + 1
      kinds == ThreatKinds(p, e)
      found == [k \in 1..Len(kinds) |-> [user |-> u, event |-> n, kind |-> kinds[k]]]
  IN  /\ At(t, "idle") /\ n <= MaxEvents
      /\ profile' = [profile EXCEPT ![u] =
           [last |-> <<e.at>>, place |-> Place(p, e), failures |-> Failures(p, e), risk |-> Risk(p, e)]]
      /\ seen' = [seen EXCEPT ![u] = Append(@, e)]
      /\ threats' = threats \o found
      /\ work' = [work EXCEPT ![t] = [pc |-> "announce", event |-> <<u, n>>, pending |-> found]]
      /\ UNCHANGED <<stored, feed>>

-----------------------------------------------------------------------------
(***************************************************************************)
(* The rest of ingest_auth.                                                *)
(***************************************************************************)
Detected(threat)  == [kind |-> "IdentityThreatDetected", threat |-> threat]
Suspected(threat) == [kind |-> "IdentityCompromiseSuspected", threat |-> threat]

(* Mutant of Announce: a token theft is announced as a compromise only.    *)
AnnounceOnce(t) ==
  /\ At(t, "announce") /\ work[t].pending # <<>>
  /\ LET threat == Head(work[t].pending)
     IN  feed' = Append(feed, IF threat.kind = "TokenTheft" THEN Suspected(threat) ELSE Detected(threat))
  /\ work' = [work EXCEPT ![t].pending = Tail(@)]
  /\ UNCHANGED <<profile, seen, threats, stored>>

Announce(t) ==
  /\ At(t, "announce") /\ work[t].pending # <<>>
  /\ LET threat == Head(work[t].pending)
     IN  /\ feed' = Append(feed, Detected(threat))
         /\ work' = IF threat.kind = "TokenTheft"
                    THEN [work EXCEPT ![t].pc = "suspect"]
                    ELSE [work EXCEPT ![t].pending = Tail(@)]
  /\ UNCHANGED <<profile, seen, threats, stored>>

(* Only a token theft is critical and raises the suspicion of a compromise;*)
(* an impossible travel is critical, too, and does not.                    *)
Suspect(t) ==
  /\ At(t, "suspect")
  /\ feed' = Append(feed, Suspected(Head(work[t].pending)))
  /\ work' = [work EXCEPT ![t].pc = "announce", ![t].pending = Tail(@)]
  /\ UNCHANGED <<profile, seen, threats, stored>>

Store(t) ==
  /\ At(t, "announce") /\ work[t].pending = <<>>
  /\ stored' = Append(stored, work[t].event)
  /\ work' = [work EXCEPT ![t] = Idle]
  /\ UNCHANGED <<profile, seen, threats, feed>>

Continue(t) == Announce(t) \/ Suspect(t) \/ Store(t)

Next == \E t \in Threads : (\E e \in Events : Analyze(t, e)) \/ Continue(t)

Spec == Init /\ [][Next]_vars

-----------------------------------------------------------------------------
(***************************************************************************)
(* Properties.                                                             *)
(***************************************************************************)
Threats == [user : Users, event : Nat, kind : Kinds]

TypeOK ==
  /\ profile \in [Users -> [last : Seq(Nat), place : Positions \cup {None},
                            failures : Nat, risk : 0..MaxRisk]]
  /\ seen    \in [Users -> Seq(Events)]
  /\ threats \in Seq(Threats)
  /\ stored  \in Seq(Users \X Nat)
  /\ feed    \in Seq([kind : {"IdentityThreatDetected", "IdentityCompromiseSuspected"}, threat : Threats])
  /\ work \in [Threads -> [pc : {"idle", "announce", "suspect"},
                           event : (Users \X Nat) \cup {<<>>}, pending : Seq(Threats)]]

Raised(u, n, kind) ==
  \E k \in 1..Len(threats) : threats[k] = [user |-> u, event |-> n, kind |-> kind]

(* Excessive failures are reported for an event exactly if it ends a run of*)
(* failures of its user, unbroken by a success, as long as the threshold.  *)
FailuresInARow ==
  \A u \in Users : \A n \in 1..Len(seen[u]) :
    Raised(u, n, "ExcessiveAuthFailures") <=>
      /\ n >= FailureThreshold
      /\ \A m \in (n - FailureThreshold + 1)..n : ~seen[u][m].success

(* The score of a user is what the stored threats of that user add up to,  *)
(* capped; a compromise is suspected by the very event that brings the     *)
(* score to the limit and by every event after it: it never comes down.    *)
RiskAddsUp ==
  \A u \in Users :
    LET Factor(n) == {k \in 1..Len(threats) : /\ threats[k].user = u /\ threats[k].event <= n
                                              /\ threats[k].kind # "TokenTheft"}
        Sum(n) == RiskPerFactor * Cardinality(Factor(n))
    IN  /\ profile[u].risk = IF Sum(Len(seen[u])) > MaxRisk THEN MaxRisk ELSE Sum(Len(seen[u]))
        /\ \A n \in 1..Len(seen[u]) : Raised(u, n, "TokenTheft") <=> Sum(n) >= CompromiseRisk

(* The profile of a user is a function of the user's events in the order   *)
(* they were analysed, though several threads interleave and announce what *)
(* they found with no lock held (analyze_auth).                            *)
ProfileFollowsHistory == TypeOK /\ FailuresInARow /\ RiskAddsUp

Times(x) == Cardinality({k \in 1..Len(feed) : feed[k] = x})

(* Every stored threat is announced once, or is still in the hands of the  *)
(* thread that found it; a suspicion follows each token theft, once; and an*)
(* event is in auth_events only if all of this is done for its threats,    *)
(* although the threads announce without a lock (ingest_auth).             *)
ThreatsAnnounced ==
  \A k \in 1..Len(threats) :
    LET x == threats[k]
        waiting == {t \in Threads : \E j \in 1..Len(work[t].pending) : work[t].pending[j] = x}
        suspecting == {t \in waiting : At(t, "suspect") /\ Head(work[t].pending) = x}
    IN  /\ Times(Detected(x)) + Cardinality(waiting \ suspecting) = 1
        /\ Times(Suspected(x)) =
             IF x.kind = "TokenTheft" /\ waiting = {} THEN 1 ELSE 0
        /\ (\E n \in 1..Len(stored) : stored[n] = <<x.user, x.event>>) => waiting = {}

TooFast(d, e) == e.at > d.at /\ Km[d.place, e.place] > ImpossibleTravelKmh * (e.at - d.at)

(* If the previous event of the user had a position, an impossible travel  *)
(* is reported exactly if that position is too far away for the time.      *)
TravelBetweenNeighbours ==
  \A u \in Users : \A n \in 2..Len(seen[u]) :
    seen[u][n - 1].place # None =>
      (Raised(u, n, "ImpossibleTravel") <=>
         seen[u][n].place # None /\ TooFast(seen[u][n - 1], seen[u][n]))

(* What the threat says ("Impossible travel from {} to {}", with a speed): *)
(* the user was somewhere else too short a time ago.                       *)
TravelIsImpossible ==
  \A u \in Users : \A n \in 1..Len(seen[u]) :
    Raised(u, n, "ImpossibleTravel") =>
      \E m \in 1..(n - 1) : seen[u][m].place # None /\ TooFast(seen[u][m], seen[u][n])
=============================================================================
