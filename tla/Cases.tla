------------------------------- MODULE Cases -------------------------------
(***************************************************************************)
(* Case management (cases/src/engine.rs).  A case is moved through its     *)
(* workflow by two calls, transition and assign_investigator, that several *)
(* analysts make at the same time, each under one write lock; comments and *)
(* evidence are filed in two steps, a look-up and a push.                  *)
(***************************************************************************)
EXTENDS Naturals, FiniteSets

CONSTANTS
  Analysts,  \* the threads that call the engine, and the names they assign
  CaseIds,   \* the uuids create_case draws, each at most once
  None,      \* no workflow state yet, no investigator, nothing to file
  MaxFiled   \* bound: comments, and items of evidence, filed by a case after
             \* which no further one is begun

Shelves == {"comments", "evidence"}
States  == {"New", "Assigned", "InReview", "Closed"}

(* What is assumed of the constants, by the modules that use this one, too.*)
Assumption ==
  None \notin Analysts \cup States \cup (Shelves \X CaseIds) /\ MaxFiled \in Nat

VARIABLES
  workflow,      \* case -> workflow_state, None before it is created
  investigator,  \* case -> the analyst assigned last, or None
  filed,         \* shelf -> case -> how many are filed for it
  filing         \* analyst -> <<shelf, case>> looked up and about to be filed

vars == <<workflow, investigator, filed, filing>>

Init ==
  /\ workflow     = [c \in CaseIds |-> None]
  /\ investigator = [c \in CaseIds |-> None]
  /\ filed        = [s \in Shelves |-> [c \in CaseIds |-> 0]]
  /\ filing       = [a \in Analysts |-> None]

Exists(c) == workflow[c] # None
Free(a)   == filing[a] = None

Create(a, c) ==
  /\ Free(a) /\ ~Exists(c)
  /\ workflow' = [workflow EXCEPT ![c] = "New"]
  /\ UNCHANGED <<investigator, filed, filing>>

(* Mutants of Assign: the state of the case is left as it is; the name goes*)
(* into the state.                                                         *)
AssignOnly(a, c, who) ==
  /\ Free(a) /\ Exists(c)
  /\ investigator' = [investigator EXCEPT ![c] = who]
  /\ UNCHANGED <<workflow, filed, filing>>
AssignSwapped(a, c, who) ==
  /\ Free(a) /\ Exists(c)
  /\ workflow' = [workflow EXCEPT ![c] = who]
  /\ UNCHANGED <<investigator, filed, filing>>

(* assign_investigator asks nothing about the state the case is in.        *)
Assign(a, c, who) ==
  /\ Free(a) /\ Exists(c)
  /\ investigator' = [investigator EXCEPT ![c] = who]
  /\ workflow' = [workflow EXCEPT ![c] = "Assigned"]
  /\ UNCHANGED <<filed, filing>>

Edges == {<<"New", "Assigned">>, <<"Assigned", "InReview">>,
          <<"InReview", "Closed">>, <<"New", "Closed">>}

(* Mutant of ValidTransition: a closed case may be sent back to review.    *)
ValidOrReopened(from, to) == <<from, to>> \in Edges \cup {<<"Closed", "InReview">>}

ValidTransition(from, to) == <<from, to>> \in Edges

Transition(a, c, to) ==
  /\ Free(a) /\ Exists(c)
  /\ ValidTransition(workflow[c], to)
  /\ workflow' = [workflow EXCEPT ![c] = to]
  /\ UNCHANGED <<investigator, filed, filing>>

(* Mutant of LookUp: ensure_case_exists is not called.                     *)
LookUpNothing(a, s, c) ==
  /\ Free(a)
  /\ filed[s][c] < MaxFiled
  /\ filing' = [filing EXCEPT ![a] = <<s, c>>]
  /\ UNCHANGED <<workflow, investigator, filed>>

(* add_comment and add_evidence: ensure_case_exists under a read lock, ... *)
LookUp(a, s, c) ==
  /\ Free(a) /\ Exists(c)
  /\ filed[s][c] < MaxFiled
  /\ filing' = [filing EXCEPT ![a] = <<s, c>>]
  /\ UNCHANGED <<workflow, investigator, filed>>

(* ... then the push under a write lock.                                   *)
File(a) ==
  /\ ~Free(a)
  /\ filed' = [filed EXCEPT ![filing[a][1]][filing[a][2]] = @ + 1]
  /\ filing' = [filing EXCEPT ![a] = None]
  /\ UNCHANGED <<workflow, investigator>>

Next ==
  \E a \in Analysts :
    \/ \E c \in CaseIds :
         \/ Create(a, c)
         \/ \E who \in Analysts : Assign(a, c, who)
         \/ \E to \in States : Transition(a, c, to)
         \/ \E s \in Shelves : LookUp(a, s, c)
    \/ File(a)

Spec == Init /\ [][Next]_vars

-----------------------------------------------------------------------------
(***************************************************************************)
(* Properties.                                                             *)
(***************************************************************************)
TypeOK ==
  /\ workflow     \in [CaseIds -> States \cup {None}]
  /\ investigator \in [CaseIds -> Analysts \cup {None}]
  /\ filed        \in [Shelves -> [CaseIds -> Nat]]
  /\ filing       \in [Analysts -> (Shelves \X CaseIds) \cup {None}]

(* Comments and evidence, those under way included, belong to cases that   *)
(* exist: nothing is ever removed, so the unlocked gap between the look-up *)
(* and the push of add_comment and add_evidence does no harm.              *)
NoOrphans ==
  \A c \in CaseIds :
    (\E s \in Shelves : filed[s][c] > 0 \/ \E a \in Analysts : filing[a] = <<s, c>>)
      => Exists(c)

(* A case somebody has been put on is closed only out of a review, however *)
(* assignments and transitions of different analysts interleave: the short *)
(* cut from New to Closed is for cases nobody was ever assigned to.        *)
NoCloseWithoutReview ==
  [][\A c \in CaseIds :
       (investigator[c] # None /\ workflow[c] # "Closed" /\ workflow'[c] = "Closed")
         => workflow[c] = "InReview"]_vars

(* A closed case comes back only by an assignment, and as an assigned case:*)
(* whoever reopens it has put somebody on it.                              *)
ReopenedByAssignment ==
  [][\A c \in CaseIds :
       (workflow[c] = "Closed" /\ workflow'[c] # "Closed")
         => workflow'[c] = "Assigned" /\ investigator'[c] # None]_vars

(* What validate_case_transition rejects as an "invalid case transition"   *)
(* never happens to a case.                                                *)
FollowsWorkflow ==
  [][\A c \in CaseIds :
       (Exists(c) /\ workflow'[c] # workflow[c])
         => <<workflow[c], workflow'[c]>> \in Edges]_vars
=============================================================================
