----------------------------- MODULE Response -----------------------------
(***************************************************************************)
(* The response engine (response/src/engine.rs).  execute_action logs the  *)
(* request, awaits the backend, logs the result and announces it.  Many    *)
(* tasks are in it at once, and the await is where a task may be dropped   *)
(* by whoever polls it.                                                    *)
(***************************************************************************)
EXTENDS Naturals, Sequences, FiniteSets

CONSTANTS
  Tasks,        \* the futures that may be in execute_action at a time
  Requests,     \* the requests; a caller may submit one again
  None,         \* no request
  Foreign,      \* the events other engines put into the shared emitter
  MaxRequests,  \* bound: logged requests after which none is submitted
  MaxFeed       \* bound: events after which no foreign one is emitted

Statuses == {"Executed", "Failed"}
OwnKinds == {"ResponseActionExecuted", "ResponseActionFailed"}

(* What is assumed of the constants, by the modules that use this one.     *)
Assumption ==
  /\ IsFiniteSet(Tasks)
  /\ None \notin Requests
  /\ \A e \in Foreign : e.kind \notin OwnKinds
  /\ MaxRequests \in Nat /\ MaxFeed \in Nat

VARIABLES
  requests,  \* the request log of the engine
  executed,  \* the requests the backend has acted on, in order (external)
  results,   \* the result log of the engine
  dropped,   \* request -> how many futures of it were dropped (auxiliary: no
             \* action reads it)
  feed,      \* what the shared emitter received, from every engine
  work       \* task -> the request it executes, and where

vars == <<requests, executed, results, dropped, feed, work>>

Idle == [pc |-> "idle", request |-> None, status |-> "Failed"]

Init ==
  /\ requests = <<>> /\ executed = <<>> /\ results = <<>> /\ feed = <<>>
  /\ dropped = [r \in Requests |-> 0]
  /\ work = [k \in Tasks |-> Idle]

At(k, pc) == work[k].pc = pc

(* Mutant of Execute: a request that is in the log already is not logged.  *)
ExecuteLogOnce(k, r) ==
  /\ At(k, "idle") /\ Len(requests) < MaxRequests
  /\ requests' = IF \E n \in 1..Len(requests) : requests[n] = r
                 THEN requests ELSE Append(requests, r)
  /\ work' = [work EXCEPT ![k] = [Idle EXCEPT !.pc = "await", !.request = r]]
  /\ UNCHANGED <<executed, results, dropped, feed>>

(* execute_action up to the await; validate_action accepts every kind.     *)
Execute(k, r) ==
  /\ At(k, "idle") /\ Len(requests) < MaxRequests
  /\ requests' = Append(requests, r)
  /\ work' = [work EXCEPT ![k] = [Idle EXCEPT !.pc = "await", !.request = r]]
  /\ UNCHANGED <<executed, results, dropped, feed>>

(* The backend acts on the request, ...                                    *)
Act(k) ==
  /\ At(k, "await")
  /\ executed' = Append(executed, work[k].request)
  /\ work' = [work EXCEPT ![k].pc = "acted"]
  /\ UNCHANGED <<requests, results, dropped, feed>>

(* Mutant of StatusOf: an error of the backend counts as a result, too.    *)
StatusOfAny(ok) == "Executed"

StatusOf(ok) == IF ok THEN "Executed" ELSE "Failed"

(* ... and answers: Ok only if it acted, an error whether it did or not.   *)
Answer(k, ok) ==
  /\ At(k, "acted") \/ (At(k, "await") /\ ~ok)
  /\ work' = [work EXCEPT ![k].pc = "record", ![k].status = StatusOf(ok)]
  /\ UNCHANGED <<requests, executed, results, dropped, feed>>

(* The future is dropped at the await: nothing after it runs.              *)
Abandon(k) ==
  /\ work[k].pc \in {"await", "acted"}
  /\ dropped' = [dropped EXCEPT ![work[k].request] = @ + 1]
  /\ work' = [work EXCEPT ![k] = Idle]
  /\ UNCHANGED <<requests, executed, results, feed>>

ResultOf(k) == [request |-> work[k].request, status |-> work[k].status]

Record(k) ==
  /\ At(k, "record")
  /\ results' = Append(results, ResultOf(k))
  /\ work' = [work EXCEPT ![k].pc = "announce"]
  /\ UNCHANGED <<requests, executed, dropped, feed>>

EventOf(res) == [kind |-> IF res.status = "Executed" THEN "ResponseActionExecuted"
                                                     ELSE "ResponseActionFailed",
                 of |-> res.request, status |-> res.status]

(* Mutant of Announce: a failure is returned before it is announced.       *)
AnnounceIfExecuted(k) ==
  /\ At(k, "announce")
  /\ feed' = IF work[k].status = "Executed" THEN Append(feed, EventOf(ResultOf(k))) ELSE feed
  /\ work' = [work EXCEPT ![k].pc = "returned"]
  /\ UNCHANGED <<requests, executed, results, dropped>>

(* A failure is announced, too, before it is returned as an error.         *)
Announce(k) ==
  /\ At(k, "announce")
  /\ feed' = Append(feed, EventOf(ResultOf(k)))
  /\ work' = [work EXCEPT ![k].pc = "returned"]
  /\ UNCHANGED <<requests, executed, results, dropped>>

(* The caller takes the result, or the error.                              *)
Return(k) ==
  /\ At(k, "returned")
  /\ work' = [work EXCEPT ![k] = Idle]
  /\ UNCHANGED <<requests, executed, results, dropped, feed>>

EmitForeign(e) ==
  /\ Len(feed) < MaxFeed
  /\ feed' = Append(feed, e)
  /\ UNCHANGED <<requests, executed, results, dropped, work>>

Backend(k) == Act(k) \/ \E ok \in BOOLEAN : Answer(k, ok)
Continue(k) == Record(k) \/ Announce(k) \/ Return(k)

Next ==
  \/ \E k \in Tasks :
       \/ \E r \in Requests : Execute(k, r)
       \/ Backend(k) \/ Abandon(k) \/ Continue(k)
  \/ \E e \in Foreign : EmitForeign(e)

Spec == Init /\ [][Next]_vars

-----------------------------------------------------------------------------
(***************************************************************************)
(* Properties.                                                             *)
(***************************************************************************)
Results == [request : Requests, status : Statuses]

TypeOK ==
  /\ requests \in Seq(Requests)
  /\ executed \in Seq(Requests)
  /\ results  \in Seq(Results)
  /\ dropped  \in [Requests -> Nat]
  /\ feed     \in Seq(Foreign \cup [kind : OwnKinds, of : Requests, status : Statuses])
  /\ work \in [Tasks -> [pc : {"idle", "await", "acted", "record", "announce", "returned"},
                         request : Requests \cup {None}, status : Statuses]]

Count(seq, x)  == Cardinality({n \in 1..Len(seq) : seq[n] = x})
Busy(pcs, r)   == Cardinality({k \in Tasks : work[k].pc \in pcs /\ work[k].request = r})
Settled(r)     == Cardinality({n \in 1..Len(results) : results[n].request = r})

(* Results and acts of the backend agree, retries included.  No result    *)
(* claims an action that was not taken; and an action that was taken is    *)
(* never lost: it has a result (Failed, if the backend acted and then      *)
(* reported an error), its task is on the way to one, or its future was    *)
(* dropped.  Failed alone does not tell whether the backend acted.         *)
ExecutedMeansActed ==
  \A r \in Requests :
    /\ Count(results, [request |-> r, status |-> "Executed"]) <= Count(executed, r)
    /\ Count(executed, r) <= Settled(r) + Busy({"acted", "record"}, r) + dropped[r]

(* Every submission is accounted for, exactly once: it has a result, or is *)
(* under way, or its future was dropped before the result was logged.  A   *)
(* retry is a submission of its own.                                       *)
SubmissionsAccounted ==
  \A r \in Requests :
    Settled(r) + Busy({"await", "acted", "record"}, r) + dropped[r] = Count(requests, r)

(* The emitter and the result log tell the same story: as many events of   *)
(* each kind for each request as results, those about to be sent excepted. *)
ResultsAnnounced ==
  \A res \in Results :
    Count(results, res) =
      Count(feed, EventOf(res))
        + Cardinality({k \in Tasks : At(k, "announce") /\ ResultOf(k) = res})
===========================================================================
