------------------------------- MODULE Mitre -------------------------------
(***************************************************************************)
(* The MITRE mapping engine (mitre/src/engine.rs).  A trigger comes with   *)
(* the ids of techniques; each id the engine knows becomes a detection,    *)
(* which is stored, announced and handed to the caller, one id at a time.  *)
(* Mappings are a list of their own: only they count for the coverage.     *)
(***************************************************************************)
EXTENDS Naturals, Sequences, FiniteSets

CONSTANTS
  Callers,     \* the threads that use the engine
  Techniques,  \* the built-in techniques
  Claimed,     \* trigger -> the technique ids its caller passes along
  None,        \* no trigger
  MaxMappings  \* bound: mappings after which none is added

(* What is assumed of the constants, by the modules that use this one.     *)
Assumption ==
  /\ None \notin DOMAIN Claimed
  /\ \A d \in DOMAIN Claimed : Claimed[d] \in Seq({Claimed[d][n] : n \in DOMAIN Claimed[d]})
  /\ Techniques # {} /\ IsFiniteSet(Techniques) /\ MaxMappings \in Nat

VARIABLES
  mappings,   \* the technique ids of the mappings
  hits,       \* <<trigger, technique>> -> stored technique detections
  announced,  \* <<trigger, technique>> -> TechniqueDetected events
  mcall       \* caller -> the trigger, the ids left, the one to announce, and
              \* the techniques it will return

Hits == {<<d, q>> : d \in DOMAIN Claimed, q \in Techniques}
Calm == [trigger |-> None, todo |-> <<>>, emit |-> FALSE, found |-> <<>>]

Init ==
  /\ mappings = <<>>
  /\ hits = [p \in Hits |-> 0] /\ announced = [p \in Hits |-> 0]
  /\ mcall = [c \in Callers |-> Calm]

(* map_detection: an id that is not built in is an error.  The look-up and *)
(* the push are two critical sections, but techniques never change.        *)
MapDetection(q) ==
  /\ q \in Techniques /\ Len(mappings) < MaxMappings
  /\ mappings' = Append(mappings, q)
  /\ UNCHANGED <<hits, announced, mcall>>

(* on_detection_triggered takes the techniques under a read lock.          *)
Trigger(c, d) ==
  /\ mcall[c] = Calm
  /\ mcall' = [mcall EXCEPT ![c] =
       [trigger |-> d, todo |-> Claimed[d], emit |-> FALSE, found |-> <<>>]]
  /\ UNCHANGED <<mappings, hits, announced>>

Skip(c) ==
  /\ mcall[c].todo # <<>> /\ Head(mcall[c].todo) \notin Techniques
  /\ mcall' = [mcall EXCEPT ![c].todo = Tail(@)]
  /\ UNCHANGED <<mappings, hits, announced>>

Claim(c) == <<mcall[c].trigger, Head(mcall[c].todo)>>

Hit(c) ==
  /\ mcall[c].todo # <<>> /\ ~mcall[c].emit /\ Head(mcall[c].todo) \in Techniques
  /\ hits' = [hits EXCEPT ![Claim(c)] = @ + 1]
  /\ mcall' = [mcall EXCEPT ![c].emit = TRUE]
  /\ UNCHANGED <<mappings, announced>>

Announce(c) ==
  /\ mcall[c].emit
  /\ announced' = [announced EXCEPT ![Claim(c)] = @ + 1]
  /\ mcall' = [mcall EXCEPT ![c].emit = FALSE, ![c].todo = Tail(@),
                            ![c].found = Append(@, Head(mcall[c].todo))]
  /\ UNCHANGED <<mappings, hits>>

Work(c) == Skip(c) \/ Hit(c) \/ Announce(c)

(* What was found goes to the caller.                                      *)
Return(c) ==
  /\ mcall[c].trigger # None /\ mcall[c].todo = <<>>
  /\ mcall' = [mcall EXCEPT ![c] = Calm]
  /\ UNCHANGED <<mappings, hits, announced>>

(* coverage_pct, of the mappings and not of what has been detected.        *)
Coverage ==
  (100 * Cardinality({mappings[n] : n \in 1..Len(mappings)})) \div Cardinality(Techniques)

TypeOK ==
  /\ mappings \in Seq(Techniques)
  /\ hits \in [Hits -> Nat] /\ announced \in [Hits -> Nat]
  /\ \A c \in Callers : /\ mcall[c].trigger \in DOMAIN Claimed \cup {None}
                        /\ mcall[c].emit \in BOOLEAN
                        /\ mcall[c].found \in Seq(Techniques)
=============================================================================
