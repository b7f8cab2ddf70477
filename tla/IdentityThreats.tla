--------------------------- MODULE IdentityThreats ---------------------------
(***************************************************************************)
(* The identity threat engine (Itdr) under names of its own, for modules   *)
(* that extend another component too.                                      *)
(***************************************************************************)
CONSTANTS Threads, Users, Positions, Km, Events, None, FailureThreshold, MaxEvents  \* see Itdr
VARIABLES profile, seen, threats, stored, feed, work                                \* see Itdr

Id == INSTANCE Itdr

ASSUME IdentityAssumption == Id!Assumption

ItdrSpec == Id!Spec

(* See Itdr: risk score and runs of failures are functions of the user's   *)
(* events in the order they were analysed (analyze_auth).                  *)
ProfileFollowsHistory == Id!ProfileFollowsHistory

(* See Itdr: a stored threat is announced once, its event stored after it  *)
(* (ingest_auth).                                                          *)
ThreatsAnnounced == Id!ThreatsAnnounced

(* See Itdr: impossible travel between an event and the one before it.     *)
TravelBetweenNeighbours == Id!TravelBetweenNeighbours

(* See Itdr: who is reported to have travelled was elsewhere before.       *)
TravelIsImpossible == Id!TravelIsImpossible
=============================================================================
