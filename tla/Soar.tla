-------------------------------- MODULE Soar --------------------------------
(***************************************************************************)
(* The SOAR engine (soar/src/engine.rs) on top of a response engine of its *)
(* own (response/src/engine.rs, module Response).  A task that runs a      *)
(* playbook announces the start, awaits the response action the playbook   *)
(* stands for, keeps a record of the execution and announces the end.  Both*)
(* engines write to one emitter, the feed.                                 *)
(***************************************************************************)
EXTENDS Sifting

CONSTANTS
  Tasks,       \* the futures that may be in run_playbook at a time
  Executions,  \* the uuids run_playbook draws, each at most once
  None,        \* no execution
  Chosen       \* the playbooks that are run

ASSUME NoneAssumption      == None \notin Executions
ASSUME ExecutionAssumption == IsFiniteSet(Executions)

(* The six built-in playbooks, one of each kind; they are all enabled, and *)
(* nothing can disable or replace them.                                    *)
Playbooks == {"BlockHost", "BlockDomain", "DisableIdentity", "QuarantineDevice",
              "EscalateIncident", "NotifyTeam"}

ASSUME ChosenAssumption == Chosen \subseteq Playbooks

ActionFor(p) ==
  CASE p = "BlockHost"        -> "BlockIp"
    [] p = "BlockDomain"      -> "BlockDomain"
    [] p = "DisableIdentity"  -> "DisableUser"
    [] p = "QuarantineDevice" -> "QuarantineDevice"
    [] OTHER                  -> "ForceReauthentication"

(* An execution builds a request with a fresh uuid; the execution it is for*)
(* stands for that uuid.                                                   *)
Request == [execution : Executions, action : {ActionFor(p) : p \in Playbooks}]
RequestOf(x, p) == [execution |-> x, action |-> ActionFor(p)]

Outcomes == {"Completed", "Failed"}
Started(x) == [kind |-> "PlaybookStarted", of |-> x, status |-> "Running"]
Ended(x, s) == [kind |-> "PlaybookCompleted", of |-> x, status |-> s]
PlaybookEvents == {Started(x) : x \in Executions}
                    \cup {Ended(x, s) : x \in Executions, s \in Outcomes}

VARIABLES
  requests, executed, results, dropped, feed, work,  \* see Response
  executions,  \* the log of executions, in the order they ended
  run          \* task -> the execution it runs, and where

svars == <<executions, run>>
vars  == <<requests, executed, results, dropped, feed, work, executions, run>>

(* Every execution submits one request, so the log is bounded by them, and *)
(* the feed by the two events of each execution and the one of its request.*)
R == INSTANCE Response WITH
       Requests <- Request, Foreign <- PlaybookEvents,
       MaxRequests <- Cardinality(Executions), MaxFeed <- 3 * Cardinality(Executions)

NotRunning == [pc |-> "idle", execution |-> None, playbook |-> "NotifyTeam", status |-> "Failed"]

Init ==
  /\ R!Init
  /\ executions = <<>>
  /\ run = [k \in Tasks |-> NotRunning]

At(k, pc) == run[k].pc = pc

Emitted(e) == \E n \in 1..Len(feed) : feed[n] = e

(* A fresh uuid: none that was drawn before.                               *)
Fresh(x) == ~Emitted(Started(x))

(* Mutant of Start: the action is announced before it is taken.            *)
StartOptimistically(k, x, p) ==
  /\ At(k, "idle") /\ Fresh(x)
  /\ feed' = feed \o <<Started(x), R!EventOf([request |-> RequestOf(x, p), status |-> "Executed"])>>
  /\ run' = [run EXCEPT ![k] = [NotRunning EXCEPT !.pc = "submit", !.execution = x, !.playbook = p]]
  /\ UNCHANGED <<requests, executed, results, dropped, work, executions>>

(* run_playbook finds the playbook and announces that it runs; the id of a *)
(* playbook that does not exist is an error and changes nothing.           *)
Start(k, x, p) ==
  /\ At(k, "idle") /\ Fresh(x)
  /\ feed' = Append(feed, Started(x))
  /\ run' = [run EXCEPT ![k] = [NotRunning EXCEPT !.pc = "submit", !.execution = x, !.playbook = p]]
  /\ UNCHANGED <<requests, executed, results, dropped, work, executions>>

(* Mutant of Submit: the SOAR engine logs the request itself, too.         *)
SubmitLogged(k) ==
  LET q == RequestOf(run[k].execution, run[k].playbook)
  IN  /\ At(k, "submit")
      /\ requests' = requests \o <<q, q>>
      /\ work' = [work EXCEPT ![k] = [R!Idle EXCEPT !.pc = "await", !.request = q]]
      /\ run' = [run EXCEPT ![k].pc = "await"]
      /\ UNCHANGED <<executed, results, dropped, feed, executions>>

Submit(k) ==
  /\ At(k, "submit")
  /\ R!Execute(k, RequestOf(run[k].execution, run[k].playbook))
  /\ run' = [run EXCEPT ![k].pc = "await"]
  /\ UNCHANGED executions

(* The response engine, and behind it the backend, at work for this task.  *)
Respond(k) == (R!Backend(k) \/ R!Record(k) \/ R!Announce(k)) /\ UNCHANGED svars

(* Mutants of Keep: a failed action is submitted again; the log keeps the  *)
(* execution as it started.                                                *)
KeepOrRetry(k) ==
  /\ At(k, "await") /\ R!Return(k)
  /\ IF work[k].status = "Executed"
     THEN /\ executions' = Append(executions, [of |-> run[k].execution, status |-> "Completed"])
          /\ run' = [run EXCEPT ![k].pc = "end", ![k].status = "Completed"]
     ELSE run' = [run EXCEPT ![k].pc = "submit"] /\ UNCHANGED executions

KeepRunning(k) ==
  /\ At(k, "await") /\ R!Return(k)
  /\ executions' = Append(executions, [of |-> run[k].execution, status |-> "Running"])
  /\ run' = [run EXCEPT ![k].pc = "end", ![k].status = "Completed"]

Outcome(k) == IF work[k].status = "Executed" THEN "Completed" ELSE "Failed"

(* The action has returned; the execution is logged with its outcome.      *)
Keep(k) ==
  /\ At(k, "await") /\ R!Return(k)
  /\ executions' = Append(executions, [of |-> run[k].execution, status |-> Outcome(k)])
  /\ run' = [run EXCEPT ![k].pc = "end", ![k].status = Outcome(k)]

(* Mutant of End: a failed execution returns its error and says nothing.   *)
EndIfCompleted(k) ==
  /\ At(k, "end")
  /\ feed' = IF run[k].status = "Completed"
             THEN Append(feed, Ended(run[k].execution, "Completed")) ELSE feed
  /\ run' = [run EXCEPT ![k] = NotRunning]
  /\ UNCHANGED <<requests, executed, results, dropped, work, executions>>

(* PlaybookCompleted is also the event of an execution that failed.        *)
End(k) ==
  /\ At(k, "end")
  /\ feed' = Append(feed, Ended(run[k].execution, run[k].status))
  /\ run' = [run EXCEPT ![k] = NotRunning]
  /\ UNCHANGED <<requests, executed, results, dropped, work, executions>>

(* Dropping the future of run_playbook drops the one of execute_action.    *)
Abandon(k) ==
  /\ At(k, "await") /\ R!Abandon(k)
  /\ run' = [run EXCEPT ![k] = NotRunning]
  /\ UNCHANGED executions

Continue(k) == Submit(k) \/ Respond(k) \/ Keep(k) \/ End(k)

Next ==
  \E k \in Tasks :
    \/ \E x \in Executions, p \in Chosen : Start(k, x, p)
    \/ Continue(k) \/ Abandon(k)

Spec == Init /\ [][Next]_vars

(* The executor polls a task that can go on, and the backend answers.      *)
FairSpec == Spec /\ \A k \in Tasks : WF_vars(Continue(k))

-----------------------------------------------------------------------------
(***************************************************************************)
(* Properties.                                                             *)
(***************************************************************************)
TypeOK ==
  /\ R!TypeOK
  /\ executions \in Seq([of : Executions, status : Outcomes])
  /\ run \in [Tasks -> [pc : {"idle", "submit", "await", "end"}, execution : Executions \cup {None},
                        playbook : Playbooks, status : Outcomes]]

(* What the shared emitter shows of one execution: the start, then what    *)
(* became of the action it stands for, then the end with the same outcome; *)
(* a task that was dropped leaves a beginning of it.                       *)
About(x, e) == IF e.kind \in R!OwnKinds THEN e.of.execution = x ELSE e.of = x
Story(p, x, s) ==
  <<Started(x),
    R!EventOf([request |-> RequestOf(x, p),
               status  |-> IF s = "Completed" THEN "Executed" ELSE "Failed"]),
    Ended(x, s)>>

(* The events of an execution, picked out of those of all the other tasks, *)
(* are such a story or a beginning of one (run_playbook, execute_action).  *)
CausalFeed ==
  \A x \in Executions :
    LET seen == Sift(feed, {n \in 1..Len(feed) : About(x, feed[n])})
    IN  \E p \in Playbooks, s \in Outcomes, n \in 0..3 : seen = SubSeq(Story(p, x, s), 1, n)

(* The three logs agree: an execution is logged once, is announced as ended*)
(* only if it is logged, and is logged as completed if and only if the     *)
(* response log has its action as executed, which the backend has taken. It*)
(* does at most one thing to the outside: nothing retries by itself.       *)
LogsAgree ==
  \A x \in Executions :
    LET logged == {n \in 1..Len(executions) : executions[n].of = x}
        acted  == {n \in 1..Len(executed) : executed[n].execution = x}
    IN  /\ Cardinality(logged) <= 1 /\ Cardinality(acted) <= 1
        /\ \A s \in Outcomes : Emitted(Ended(x, s)) =>
             \E n \in logged : executions[n].status = s
        /\ \A n \in logged :
             executions[n].status = "Completed" <=>
               \E j \in 1..Len(results) : results[j].request.execution = x
                                       /\ results[j].status = "Executed"
        /\ \A n \in logged : executions[n].status = "Completed" => acted # {}

(* A playbook that started ends, completed or failed, if the backend       *)
(* answers and the future is not dropped.                                  *)
EveryStartEnds ==
  \A x \in Executions :
    Emitted(Started(x)) ~>
      (\E s \in Outcomes : Emitted(Ended(x, s)))
        \/ \E q \in Chosen : dropped[RequestOf(x, q)] > 0

(* Seen from the response engine the SOAR engine is one more caller: every *)
(* behaviour is one of Response, the playbook events being foreign to it.  *)
IsResponse == R!Spec
=============================================================================
