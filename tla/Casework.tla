------------------------------ MODULE Casework ------------------------------
(***************************************************************************)
(* Case management (Cases) under names of its own, for modules that extend *)
(* another component too: both have a TypeOK, a Spec and a NoOrphans.      *)
(***************************************************************************)
CONSTANTS Analysts, CaseIds, Nobody, MaxFiled  \* see Cases
VARIABLES workflow, investigator, filed, filing  \* see Cases

C == INSTANCE Cases WITH None <- Nobody

ASSUME CaseworkAssumption == C!Assumption

CaseSpec == C!Spec

(* Every case is in a state of the workflow or not created yet, and what   *)
(* add_comment and add_evidence are about to push has a shelf and a case.  *)
CaseTypeOK == C!TypeOK

(* See Cases: nothing is filed, or about to be, for a case that is missing *)
(* (add_comment, add_evidence).                                            *)
CaseNoOrphans == C!NoOrphans

(* See Cases: a case somebody was assigned to is closed after a review.    *)
NoCloseWithoutReview == C!NoCloseWithoutReview

(* See Cases: only assign_investigator brings back a closed case.          *)
ReopenedByAssignment == C!ReopenedByAssignment

(* See Cases: a case moves along validate_case_transition only.            *)
FollowsWorkflow == C!FollowsWorkflow
=============================================================================
