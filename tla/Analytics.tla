----------------------------- MODULE Analytics -----------------------------
(***************************************************************************)
(* The analytics service (analytics/src/engine.rs).  Callers hand it copies*)
(* of incidents, triggers and technique detections, which it appends to    *)
(* three lists and never updates; a summary counts over them under one     *)
(* read lock.  Nothing depends on the order of a list, so each is a bag.   *)
(***************************************************************************)
EXTENDS Naturals, Bags, Functions

CONSTANTS
  TenantOf,  \* trigger -> the tenant of the incidents created for it
  Critical   \* the triggers of severity Critical

(* What is assumed of the constants, by the modules that use this one.     *)
Assumption == Critical \subseteq DOMAIN TenantOf

VARIABLES
  copies,      \* copies of incidents: [id, status, detection]
  detections,  \* the triggers recorded
  techniques   \* the technique ids of the technique detections recorded

Init == copies = EmptyBag /\ detections = EmptyBag /\ techniques = EmptyBag

-----------------------------------------------------------------------------
Copy(i, s, d) == [id |-> i, status |-> s, detection |-> d]

(* Mutants of RecordIncident: one copy per detection is enough; a new copy *)
(* of an incident replaces the older ones.                                 *)
RecordIncidentOnce(i, s, d) ==
  /\ copies' = IF \E c \in DOMAIN copies : c.detection = d /\ c.id # i THEN copies
               ELSE copies (+) SetToBag({Copy(i, s, d)})
  /\ UNCHANGED <<detections, techniques>>
RecordIncidentInPlace(i, s, d) ==
  /\ copies' = [c \in {b \in DOMAIN copies : b.id # i} |-> copies[c]] (+) SetToBag({Copy(i, s, d)})
  /\ UNCHANGED <<detections, techniques>>

RecordIncident(i, s, d) ==
  /\ copies' = copies (+) SetToBag({Copy(i, s, d)})
  /\ UNCHANGED <<detections, techniques>>

(* Mutant of RecordDetection: a trigger is counted once.                   *)
RecordDetectionOnce(d) ==
  /\ detections' = SetToBag(DOMAIN detections \cup {d})
  /\ UNCHANGED <<copies, techniques>>

RecordDetection(d) ==
  /\ detections' = detections (+) SetToBag({d})
  /\ UNCHANGED <<copies, techniques>>

RecordTechnique(q) ==
  /\ techniques' = techniques (+) SetToBag({q})
  /\ UNCHANGED <<copies, detections>>

-----------------------------------------------------------------------------
(* summarize.                                                              *)
TenantCopies(tn) == {c \in DOMAIN copies : TenantOf[c.detection] = tn}
Number(S) == SumFunctionOnSet(copies, S)

TotalIncidents(tn) == Number(TenantCopies(tn))
OpenIncidents(tn) ==
  Number({c \in TenantCopies(tn) : c.status \in {"Open", "Investigating"}})
CriticalIncidents(tn) == Number({c \in TenantCopies(tn) : c.detection \in Critical})

(* A trigger has no tenant; it is the tenant's if a copy refers to it.     *)
TotalDetections(tn) ==
  SumFunctionOnSet(detections,
                   {d \in DOMAIN detections : \E c \in TenantCopies(tn) : c.detection = d})

(* Technique detections have no tenant: all of them count for everyone.    *)
TechniquesDetected == SumFunction(techniques)

ThreatScore(tn) ==
  LET score == 2 * OpenIncidents(tn) + 5 * CriticalIncidents(tn)
                 + TotalDetections(tn) + 3 * TechniquesDetected
  IN  IF score > 100 THEN 100 ELSE score
=============================================================================
