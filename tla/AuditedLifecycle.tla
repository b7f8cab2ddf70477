------------------------- MODULE AuditedLifecycle -------------------------
(***************************************************************************)
(* What an audited record store promises its operators, without threads,   *)
(* locks or logs: each record walks a lifecycle one edge at a time, a      *)
(* status is written to the audit trail only if the record entered it, it  *)
(* is announced downstream only if it was audited, and each of the two     *)
(* happens at most once per record and status.  The incident manager is    *)
(* shown to implement it (module Incidents, the refinement Audited).       *)
(***************************************************************************)
CONSTANTS
  Records,   \* the records that may ever be created
  Statuses,  \* the states of the lifecycle
  Initial,   \* the status a record is created with
  Edges      \* the pairs <<from, to>> a record may follow

VARIABLES
  entered,   \* [Records -> SUBSET Statuses]: statuses the record has been in
  audited,   \* ... of these, the ones its audit trail shows
  announced  \* ... of these, the ones announced downstream

avars == <<entered, audited, announced>>

AInit ==
  /\ entered   = [r \in Records |-> {}]
  /\ audited   = [r \in Records |-> {}]
  /\ announced = [r \in Records |-> {}]

(* A record is born in its initial status, and its birth is audited.       *)
Born(r) ==
  /\ entered[r] = {}
  /\ entered' = [entered EXCEPT ![r] = {Initial}]
  /\ audited' = [audited EXCEPT ![r] = {Initial}]
  /\ UNCHANGED announced

(* It moves on from the status it entered last: one it has not yet left.   *)
Advance(r, from, to) ==
  /\ <<from, to>> \in Edges
  /\ from \in entered[r] /\ to \notin entered[r]
  /\ \A s \in entered[r] : <<from, s>> \notin Edges
  /\ entered' = [entered EXCEPT ![r] = @ \cup {to}]
  /\ UNCHANGED <<audited, announced>>

Audit(r, s) ==
  /\ s \in entered[r] \ audited[r]
  /\ audited' = [audited EXCEPT ![r] = @ \cup {s}]
  /\ UNCHANGED <<entered, announced>>

Announce(r, s) ==
  /\ s \in audited[r] \ announced[r]
  /\ announced' = [announced EXCEPT ![r] = @ \cup {s}]
  /\ UNCHANGED <<entered, audited>>

ANext ==
  \E r \in Records :
    \/ Born(r)
    \/ \E from, to \in Statuses : Advance(r, from, to)
    \/ \E s \in Statuses : Audit(r, s) \/ Announce(r, s)

ASpec == AInit /\ [][ANext]_avars
===========================================================================
