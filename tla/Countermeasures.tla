-------------------------- MODULE Countermeasures --------------------------
(***************************************************************************)
(* The response engine (Response) under names of its own, for modules that *)
(* extend another component too.                                           *)
(***************************************************************************)
CONSTANTS Tasks, Requests, NoRequest, Foreign, MaxRequests, MaxFeed  \* see Response
VARIABLES requests, executed, results, dropped, feed, work           \* see Response

E == INSTANCE Response WITH None <- NoRequest

ASSUME ResponseAssumption == E!Assumption

ResponseSpec == E!Spec

(* Logs, events and tasks have their types, and every task a request that  *)
(* was submitted, or none (execute_action).                                *)
ResponseTypeOK == E!TypeOK

(* See Response: results "Executed" are acts of the backend, and acts have *)
(* a result, Executed or Failed (execute_action).                          *)
ExecutedMeansActed == E!ExecutedMeansActed

(* See Response: a submission has a result, is under way or was dropped    *)
(* (execute_action).                                                       *)
SubmissionsAccounted == E!SubmissionsAccounted

(* See Response: every result is announced once (execute_action).          *)
ResultsAnnounced == E!ResultsAnnounced
=============================================================================
