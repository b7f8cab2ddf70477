# WireSentinel-XDR in TLA+

A verification development for the Rust workspace in `src/`: TLA+ modules
translated from the engines' source, TLC configurations that check them on small
instances, and proofs, checked by TLAPS, of the properties that hold for any
number of threads and records.

Run TLC on a configuration with `tlc -workers 2 -config MCx.cfg MCx.tla`, and the
proofs with `tlapm M.tla` for each of `SiftingLemmas`, `LifecycleProofs`,
`SoarProofs`, `DetectionsProofs`, `NdrProofs`, `AttackGraphAndItdrProofs`,
`IngestAndHuntProofs` and `PipelineProofs`.

## 1. Inventory

The workspace is a set of in-memory engines. Each is one value behind
`&self` with a `parking_lot::RwLock` around its state, is shared by any number of
threads, and reports to a shared `XdrEventEmitter`. Nothing is persisted: a restart
loses everything, so there is no crash recovery to verify. There are no timers and
no network code: the transport, the controller and the data lake are other crates.

What is hard here is therefore **interleaving**. Most operations take the lock
several times, once per read or push, and emit with no lock held: any other thread
may run in between. Two operations (`ResponseEngine::execute_action` and
`SoarEngine::run_playbook`) are `async` and may be dropped, or fail, at their await.

| Component | Source | State | Operations | Hard behaviours | What makes it correct |
|---|---|---|---|---|---|
| Incident manager | `incidents/src/engine.rs` | incidents, timeline, artifacts | `create_incident`, `on_detection_triggered`, `transition`, `add_artifact` | status, log entry and event are three separate steps | the log and the events of an incident are those of the walk it made, once each |
| Detection engine | `detections/src/engine.rs` | rules, event buffer, matches, triggers | `add_rule`, `ingest_event`, `run_scheduled_rules` | rules and buffer are read under different locks; triggers are emitted with the write lock held | no detection lost, made up, or announced out of order |
| Case management | `cases/src/engine.rs` | cases, comments, evidence | `create_case`, `assign_investigator`, `transition`, `add_comment`, `add_evidence` | two calls move one workflow; look-up and push are separate | no orphans; no case closed around its review |
| Response engine | `response/src/engine.rs` | request log, result log | `execute_action` (async) | retries, backends that act and then fail, dropped futures | logs, announcements and acts agree |
| SOAR engine | `soar/src/engine.rs` | playbooks, executions | `run_playbook` (async) | two engines write to one emitter; dropped futures | one causal story per execution; at most one act |
| ITDR | `itdr/src/engine.rs` | profile per user, auth events, threats | `ingest_auth` | analysis under the lock, announcements without | counters, score, threats and announcements agree with the history |
| Event emitter | `xdr-core/src/emitter.rs` | list of events | `emit`, `drain` | written by every engine | append only until drained |
| NDR | `ndr/src/engine.rs` | DNS and flow windows, findings | `ingest_dns`, `ingest_flow` | the beaconing window is examined under one lock and given up under another | one finding per window |
| Threat hunting | `hunting/src/engine.rs` | hunts, results | `create_hunt`, `run_hunt`, `generate_timeline` | runs of one hunt overlap; the lake grows while it is searched without a lock | a timeline is what the runs had to find; the status tells whether somebody runs it |
| Attack graph | `attack-graph/src/engine.rs` | nodes, edges | `add_node`, `add_edge`, `discover_paths`, `blast_radius`, `lateral_movement_analysis` | cycles, parallel edges, unknown nodes, the depth bound; the lock is held throughout | the paths are the simple paths up to the bound, the radius is what can be reached, and searches end |
| MITRE mapping | `mitre/src/engine.rs` | mappings, technique detections | `map_detection`, `on_detection_triggered`, `coverage_pct` | each technique is stored and announced in separate steps | stored, announced and returned agree |
| Analytics | `analytics/src/engine.rs` | copies of incidents, triggers, technique detections | `record_incident`, `record_detection`, `record_technique`, `summarize` | copies go stale and are never replaced | copies are true, add up to what was delivered, and hide nothing open |
| Platform | `sdk/src/platform.rs` | the engines | `new`, `drain_events` | one emitter for all; the engines meet only in their callers | composition, as in `tests/tests/` |
| EDR | `edr/src/engine.rs` | five vectors of events | `ingest_process`, `_file`, `_registry`, `_service`, `_driver` | announced before it is stored, while a consumer drains | one announcement for each event with a finding |
| Security policies | `xdr-core/src/security.rs` | none | validators | none; no engine calls them | - |
| Controller DTOs | `controller/src/` | none | data types | none | - |

**Interactions.** Every engine calls `emit`; the emitter does not call back. The
SOAR engine owns a response engine and calls `execute_action`, sharing one emitter.
Detections, MITRE and incidents meet only through triggers that a caller passes on
(`on_detection_triggered`). Analytics is fed copies by a caller. The backend of the
response engine is a trait object supplied from outside.

`PROJECT.json` lists the components with their status and, under `hazards`, what
can go wrong in each at the line where it bites.

## 2. Modules

| Module | Models |
|---|---|
| `Incidents` | the incident manager |
| `AuditedLifecycle` | abstract specification: a store of records that is audited and announced |
| `Detections` | the detection engine |
| `DetectionsProofs` | theorems about `Detections` |
| `Cases` | case management |
| `Casework` | `Cases` under names of its own, for modules that extend another component too |
| `Response` | the response engine, with its external backend |
| `Countermeasures` | `Response` under names of its own |
| `LifecycleProofs` | theorems about `Incidents`, refinement included, `Casework` and `Countermeasures` |
| `Soar` | the SOAR engine composed with an instance of `Response` over one feed |
| `SoarProofs` | theorems about `Soar`, refinement of `Response` included |
| `Itdr` | the identity threat engine |
| `IdentityThreats` | `Itdr` under names of its own |
| `Ndr` | the network engine |
| `NdrProofs` | theorems about `Ndr` |
| `AttackGraph` | the attack graph engine |
| `AttackGraphAndItdrProofs` | theorems about `AttackGraph` and `IdentityThreats` |
| `Edr` | the endpoint engine and the draining of the emitter |
| `Hunting` | the threat hunting engine, over an external data lake |
| `IngestAndHunt` | `Edr` and `Hunting` composed as `tests/tests/platform_integration.rs` does |
| `IngestAndHuntProofs` | theorems about `IngestAndHunt` |
| `Mitre` | the MITRE mapping engine |
| `Analytics` | the analytics service |
| `Pipeline` | `Incidents`, `Mitre` and `Analytics` composed as `tests/tests/detection_to_incident.rs` does |
| `PipelineProofs` | theorems about `Pipeline` |
| `Sifting` | `Iterator::filter` and `Vec::retain` on a sequence |
| `SiftingLemmas` | what sifting and picking keep, and how counts change by one element |
| `MCIncidents`, ... | small sets, definitions and symmetry for TLC |

### Conventions

* **A step is a critical section or an emission.** A thread (or task) has a program
  counter and what it carries between two critical sections; steps of different
  threads interleave. A call that returns an error and changes nothing is no step.
* **Records are known by a model value or an index**, not by a uuid; a creator draws
  an id nobody has drawn, because `Uuid::new_v4` does.
* **An emission is an append** to the sequence the emitter has received. This is what
  `CollectingEmitter::emit` does under its own mutex.
* **Bounds** are constants named `Max...`; they appear only in guards of actions that
  begin something, so that what has begun always runs to its end (but for `MaxLake`, which
  leaves an agent holding an event the lake has no room for).
* **Auxiliary state** (`known` in `Detections`, `runs` in `Hunting`, `seen` in `Itdr` and `Ndr`, `dropped` in
  `Response`; `executed` there stands for the outside world) is named as such where it is
  declared.
* **Filtering** a sequence is `Sift`, which names the elements by their rank among the
  chosen indices. It returns what `SelectSeq` does without recursion, so that it can be
  reasoned about. `Ndr` uses it for `Vec::retain`, `Hunting` for the searches, `AttackGraph` for
  the edges that lead on.
* **Finitely many.** Where a property counts threads, or a history in the order of what a set of
  executions did, the module assumes that there are finitely many of them (`ThreadAssumption`,
  `AgentsAssumption`, `ExecutionAssumption`, a part of `Assumption` in `Response`); `Pipeline` counts
  incidents and triggers, too (`Finitely`). A process has no others.
* **Assumptions on constants** are an `ASSUME` of the module itself, or, in the modules that are
  used through `INSTANCE` only, a definition `Assumption` that the using module assumes.
* Each definition named "Mutant of X" is a plausible bug in the code of X. No action
  uses it. For every property there is one that breaks it.

### How the models correspond to the code

**Incidents.** `status`, `resolvedAt`, `artifacts` are the fields of the stored
incidents; `timeline` is the audit log, split by incident (the order of entries of
*different* incidents in the one vector is abstracted away); `events` is the emitter,
split the same way. `create_incident` is `Create` (log entry, line 62), `CreatePush`
(line 63) and `Emit` (64-70). `transition` is `Transition` (the block under the write
lock, 81-104), `TransitionRecord` (106-111) and `Emit`. `add_artifact` is `AddArtifact`
(the read-locked check) and `Attach`. Descriptions, severities and time values are
left out; a time stamp is represented by the status whose transition set it.

**Detections.** `Ingest` pushes an event, `Snapshot` reads the enabled rules, `Eval`
decides one rule (reading the whole buffer if the rule is behavioral or a
correlation), `Match` stores a match and prepares its trigger; `Acquire`, `Store` and
`Emit` are the publication loop, throughout which `lock` is held, as in the code.
`RunScheduled` and `ReadBuffer` are the two reads of `run_scheduled_rules`, which then
shares `Eval` and `Match` and ends in `Done`, announcing nothing. Events are partial
functions from fields to texts; the four kinds of conditions are evaluated as the code
does, with a missing field read as the empty text where it does so.

**Cases.** `transition` and `assign_investigator` are one critical section each;
comments and evidence are `LookUp` and `File`.

**Response.** `Execute` is everything up to the await. The backend is external: it
acts (`Act`) and answers (`Answer`), where an error may come whether it acted or not.
`Abandon` drops the future at the await. `Record` and `Announce` are the two effects
after it. Retries are further `Execute` steps with the same request.

**Soar.** A task is in `run` what its playbook does and in `work` what its response
action does. `Start`, `Submit`, `Keep` and `End` are the parts of `run_playbook`
around the call of `execute_action`, whose steps are those of the instance `R` of
`Response`, over the same `feed`.

**Itdr.** `Analyze` is `analyze_auth`, one critical section. `Announce`, `Suspect` and
`Store` are the loop of `ingest_auth` and its last line. Positions are names with a
table of distances, in place of `parse_geo` and `haversine_km`, and time is in hours.

**Ndr.** `ingest_flow` begins with `Observe`, the critical section of
`analyze_beaconing`: the time is pushed, old ones are dropped, and the window is judged.
If it is a beacon, `Beacon` announces it with no lock held and `Forget` removes the
window under another lock. `Scan` and `AnnounceScan` are `analyze_port_scan`. The two
remaining analyses look at nothing but the flow, and their sets of ports are disjoint, so
a flow carries the one alarm it raises (`Alarm`); `ingest_dns` (`Query`) shares that step
and the last, `Store`. A clock ticks between any two steps. The mean of the intervals is
multiplied out, so that no fractions are needed; the code rounds to whole seconds first.

**AttackGraph.** `discover_paths` and `blast_radius` are loops, one step per iteration:
`Arrive` and `Follow` (lines 76-101), then `Sort`; `Spread` (115-123). An edge is known
by its index. While a search runs `query` is set and no action changes the graph,
because the code holds the read lock; other searches would share nothing with it, so one
at a time is enough. The queue, the paths and the set of visited nodes are state, so that
properties can speak of a search that is half done.

**Edr.** An event is a family and the set of facts its analysis reads off it. `Analyze` is
the analysis with its emission, `Store` the push after it. The emitter is split into what
is `pending` and what a consumer has taken (`Drain`).

**Hunting.** A run is `Begin` (mark it Running, 62-66), `Search`, or `CorrelateFirst` and
`CorrelateSecond` for the one search that lists the lake twice, and `Finish` (76-82, one
write lock). The text of a query is represented by what contains it: kinds and payloads.

**IngestAndHunt.** An agent ingests an event into `Edr` and then ships a record of it to the
lake of `Hunting`, where other producers put records, too.

**Mitre.** `Trigger`, then for each claimed technique id `Skip`, or `Hit` (the push, 133) and
`Announce` (134-139), then `Return`.

**Analytics.** Three bags, since nothing depends on the order of the vectors, three actions
that add to them, and the figures of `summarize` as operators.

**Pipeline.** A deliverer makes the calls of the test `detection_triggers_incident` one
after the other, each in its own steps: the incident is created (`Deliver`, `InIncidents`),
its clone recorded, the trigger recorded, the MITRE engine called and each technique it
returns recorded. A trigger may be delivered again, as `on_detection_triggered` allows.
Analysts move incidents (`Move`) and may record the clone they get or keep it to
themselves; they are callers that the repository does not have yet, the only ones through
which the analytics could learn of a transition. Nothing else is shared between engines.

## 3. Runs

All runs that pass are exhaustive. "Deadlock" is not checked, because every instance is
bounded: once its ids, events or requests are used up, every thread is idle for good.
That what has begun is finished is checked as a liveness property where a step could
really be kept from happening (`CallsReturn`, `EveryChangeAnnounced`, `EveryStartEnds`,
`QueriesReturn`).

| Run | Instance | Shows |
|---|---|---|
| `incidents` | 3 threads, 1 incident, fair | the log with the entries in flight is one legal walk to the present status (`AuditTrail`); nothing is logged or announced twice (`AuditOnce`); announcements follow the log (`AnnouncedAfterAudit`); `NoOrphans`; every status is announced in the end; refinement of `AuditedLifecycle` |
| `detections` | 2 threads; behavioral, correlation, scheduled and disabled rules, 2 of them added; 2 events; fair | triggers and announcements are one history (`AnnouncedInOrder`); a match of an ingest has exactly one trigger and one of a scheduled run none (`OneTriggerPerMatch`); no warranted detection is lost to a race (`Complete`); none is unwarranted or doubled (`Sound`); every call returns (`CallsReturn`) |
| `cases` | 2 analysts, 2 cases | `NoOrphans`; a case with an investigator is closed only out of a review; it comes back only by an assignment |
| `cases_workflow` | 2 analysts, 1 case | violated: `FollowsWorkflow`, see Findings |
| `response` | 2 tasks, 2 requests, 3 submissions, futures dropped, foreign events | a result "Executed" means an act, and an act has a result (Executed or Failed), a task on the way to one or a dropped future (`ExecutedMeansActed`); every submission has one result, is under way or was dropped (`SubmissionsAccounted`); results and announcements are the same (`ResultsAnnounced`), retries included |
| `soar` | 2 tasks, 2 executions, 2 playbooks, futures dropped, fair | the feed of an execution is one story in causal order (`CausalFeed`); the three logs agree and nothing is done twice (`LogsAgree`); every start that is not dropped ends; `Soar` is a client that `Response` allows (`IsResponse`) |
| `itdr` | 2 threads, 1 user, 4 events out of 7, threshold 2 | failures in a row, the score and the suspicion of a compromise follow from the history (`ProfileFollowsHistory`); threats are announced once, before their event is stored; between neighbours with positions, impossible travel is reported exactly if it is one |
| `itdr_stale` | 1 thread, 3 events, 2 cities, times 0-2 in any order | violated: `TravelIsImpossible`, see Findings |
| `ndr` | 2 threads, 2 destinations of one pair of hosts, 4 flows and queries, clock 0-2, flows up to 1 late | a regular window is always being reported (`BeaconsReported`); what was reported and given up is not reported again (`ReportedOnce`); before a finding a recent connection is in its window, and none ever leaves it but for age or with a window that is given up for a finding (`NothingForgotten`); a scan is reported once, by the flow that fills the count, and alarms come once and before the flow is stored (`ThreatsReported`) |
| `attack_graph` | 3 nodes (2 devices), up to 3 edges out of 8 (both ways between any two, a loop, a parallel edge of another weight), depths 0-2, fair | at each step every simple path up to the bound has been found once or continues one route in the queue, and nothing else is found (`PathsExact`); the radius is what can be reached, each node being expanded once (`BlastRadiusExact`); every search gives the lock back (`QueriesReturn`) |
| `ingest_and_hunt` | 2 agents, 2 hunters, 2 of 4 hunts (one of each kind), 2 runs, 2 records in the lake out of 4, 2 tenants, each of 2 events ingested up to twice | a timeline is exactly what its finished runs had to find, and nothing of another tenant but through a correlation (`ResultsExact`); a hunt is Running only while somebody runs it (`StatusHonest`); a drain neither loses nor repeats a finding, and whatever a hunt can find has been announced (`FindingsDelivered`) |
| `pipeline` | 2 deliverers, 1 analyst, 2 incidents, triggers of 2 tenants delivered up to twice, 2 transitions, known and unknown techniques | incidents, recorded incidents, recorded detections, technique detections, their announcements and their copies agree at every moment (`SummaryAddsUp`); copies are stale but true and hide no open incident (`CopiesHonest`); the score of a tenant never comes down (`ScoreNeverFalls`) |

The type invariant of a module is `TypeOK`. In `incidents`, `cases` and `soar` (which
includes that of `Response`) it is checked by that name; elsewhere it is the first conjunct
of `AnnouncedInOrder`, `ProfileFollowsHistory`, `BeaconsReported`, `PathsExact`,
`FindingsDelivered` and `SummaryAddsUp`.

**Why the bounds are enough to be interesting.** Two threads suffice to race any step
against any other on one record; incidents have three, so that one may overtake between
two others. Incidents do not refer to each other, and the proofs hold for any number of
them. Two events are the fewest that meet a threshold of 2, and the second is pushed
while the first is evaluated. Three submissions of two requests contain a retry racing
another request. Three events with every factor reach both the cap of 100 and the limit of
80 of the identity score; a fourth, harmless or not, comes after them. An event ingested twice
has its finding announced twice, with a drain between, before or after. Four flows are a beacon of three and one more that arrives
between its two locks, or a scan that is exceeded. The thresholds that the code fixes at 5
failures, 5 connections and 20 flows are parameters, instantiated with 2, 3 and 3; all
others are the code's own numbers. Three connections are the fewest with two intervals to
compare. Three nodes and three edges contain a cycle that does not come back to the source,
a loop, two parallel edges with an edge after them, and routes longer than each depth; the
thread that searches is alone, because the lock makes it so. Two runs of one hunt are the
fewest that overlap, and one record of each of two events suffices for a correlation. Two
deliveries of one trigger are the fewest that repeat it; two transitions make an incident
Investigating and then Contained, or close it, and a copy of each may be recorded. The
threat score of a tenant stays below its cap of 100 there: that the cap does not make it
fall is for the proof (`ScoreRises`).

**Fairness.** Weak fairness on a thread's or task's next step in `Incidents`
and `Soar`: a call that has begun runs on a scheduled thread, and a lock it waits for is
held by others for one step only, so its step stays enabled. Nobody is obliged to begin a
call. For `Soar` this includes the backend answering, an assumption about the outside. In
`AttackGraph` it is on the search under way, whose thread waits for nothing. In
`Detections` a thread may find the lock taken again and again, because it is held
across several steps, so the fairness is strong; `parking_lot::RwLock` is eventually
fair, which is what this says. The other modules are checked for safety only.

## 4. Proofs

Every safety property of every passing run is proved for all values of the constants, action
properties included, and so are the two refinements (`ImplementsAudited`, `IsResponse`). The assumptions are those the modules
state. They say what kind of value a constant is, that the value for "none" is
not one of the others, that bounds are numbers, and where something is counted that it is
finite. Each inductive invariant, layer by layer, was checked with TLC on the instance of
the run before it was proved.

The proofs share a shape. A definition of the state (`CallFits(call[t], seen)`) takes the
state it speaks of as arguments, so that lemmas can compare two states; each action has a
lemma with the name of the action; a `Frame` or `Stays` lemma says once what an action of
one thread leaves true of the others.

### Incidents

`LifecycleProofs` proves, for any sets `Threads` and `Ids` and from the assumptions
`NoneAssumption` (the value for "not there" is no id and no status) and
`BoundAssumption` only:

* `TypeCorrect`: `Spec => []TypeOK`;
* `AuditTrailHolds`, `AuditOnceHolds`, `AnnouncedAfterAuditHolds`, `NoOrphansHolds`: the
  safety properties of the run;
* `CreatedFirstHolds` and `ResolvedStampedHolds`: the log starts with the creation, and
  `resolved_at` is set exactly while an incident is resolved or closed;
* `Refinement`: `Spec => ImplementsAudited`, every step of the manager being a step of
  `AuditedLifecycle` or a stutter under the mapping in `Incidents`.

None of the properties is inductive by itself: a step of one thread relies on what
another thread, between two critical sections, still has to do. The invariant `IInv`
therefore adds to them

* `CallsAgree`: what a thread carries is still true of its incident. One that is about
  to log has stored a status that the log does not show yet; one that is about to
  announce has logged it and not announced it; one that is about to store a new
  incident has logged its creation, and nothing else has happened to it;
* `OneOwner`: no two threads carry the same change of status of one incident, which is
  where the exclusive write lock of `transition` and the acyclic edges come in: to make
  the same change again, an incident would have to come back to a status it has left;
* `Known`: an incident that is not stored has no trace but the log entry of the thread
  creating it, and one that is stored has been logged.

The proof has one lemma per step of the code (`CreateStep`, `CreatePushStep`,
`TransitionStep`, `RecordStep`, `EmitStep`, `ArtifactStep`, `StutterStep`) over lemmas
on `Append` and on what one more entry does to a log. The refinement uses `IInv` the
same way, with one lemma per step. `IInv` itself was checked with TLC before it was
proved.

### Cases

The same module proves all four properties of the run `cases`, for any analysts and cases,
from `CaseworkAssumption`. The invariant adds to `TypeOK` and `NoOrphans` that an assigned case
is not new (`AssignedIsNotNew`): the short cut from `New` to `Closed` is the only way
around a review, and it is shut once somebody has been assigned, because no edge leads back
to `New`. The two action properties follow from it and from `CaseWorkflow`, which says
what a step can do to the workflow of a case.

### Sequences and counts

`SiftingLemmas` has what the others need and the provers do not know. Since induction over
sequences is out of reach, everything is reduced to the set of places of a sequence where
something holds. `PlacesAppend`, `PlacesTail` and `PlacesConcat` say how the number of
places changes with the sequence. `RankAttained` takes a least element (`Least`, from the
library's theorem that the proper subsets of a finite set are well founded), so that the
element of each rank exists, and with it `SiftProperties`, `SiftCount` and `SiftCounts`: what
is sifted are the chosen elements, in their order, each as often as it was chosen.
`PickedAppend` says that the history of one execution grows by the event appended to the
feed or stays as it is. `OneOff` is for counts of threads: a set changed at one thread has
one element more, one less, or as many.

### Response

The third part of `LifecycleProofs`: `ResponseTypeCorrect`, `ExecutedMeansActedHolds`,
`SubmissionsAccountedHolds` and `ResultsAnnouncedHolds`, for any tasks, requests and backends, from
`ResponseAssumption`. The last two, with the types,
are inductive. The first needs two more, one for each of its bounds. `ActsCovered`: the results
"Executed" of a request and the tasks for which the backend has acted, or answered that it did,
and which have not logged it are together no more than its acts. `ActsSettled`: its acts are no
more than its results of either status, the tasks between act and result, and its dropped
futures; that a result may be Failed although the backend acted is why this is a bound and no
equation. A step moves each of the sets of tasks that are counted by at most one task (`Moves`).

### Soar

`SoarProofs`: `CausalFeedHolds`, `LogsAgreeHolds` and `ImplementsResponse`. The histories of
different executions are interleaved in one feed and three logs; the invariant is stated for
the history of each:

* `Shapes`: a task awaits an action exactly if the response engine works for it, on the
  request of its execution;
* `Apart`: an execution is run by one task, because an id is drawn once;
* `Records`: what the feed, the acts, the answers and the log have of an execution while a
  task runs it, to the letter, by where the task is;
* `AtRest`: and otherwise: the execution was never begun, its future was dropped, or it has
  ended, with all that belongs to it.

`ImplementsResponse` says that each step of `Soar` is one of `Response` under the instance `R`,
or a stutter. `Response` bounds its feed, which `Soar` does not do: by the invariant an
execution has at most three events, so the feed is no longer than three times the number of
executions (`RoomInFeed`), the bound under which the instance is taken.

### Detections

`DetectionsProofs` proves the four safety properties in layers, each using those below it.

* `Base` (types; what a call refers to is in the logs; `OwnerHasLock`: whoever is
  publishing holds the lock; triggers and announcements are one log, but for the trigger
  the owner is about to emit): `AnnouncedInOrderHolds`.
* `Handed`: a match of an ingest is in exactly one place, with a thread that is yet to
  publish it or in the stored triggers: `OneTriggerPerMatchHolds`.
* `Promised`: whatever an event warrants under a rule known when it was pushed has been
  reported, or its ingest has the rule still to evaluate or the match still to publish:
  `CompleteHolds`. The argument for thresholds and correlations is that the buffer only
  grows, so that an ingest sees at least the events up to its own, whoever pushed them.
* `AllJudged` (matches were warranted by the buffer when they were made, and a warrant
  stays) and `Thrifty` (no two ingests are of one event, and the matches an ingest has made of a
  rule, with the copies of the rule it has still to evaluate, are no more than were added): `SoundHolds`.

### Ndr

`NdrProofs` proves the four properties of the run. `Base` says that calls, windows and feed refer
to what was seen, and that no two threads work on one flow. Above it are four layers:

* `Reported`: a window that is a beacon is in the hands of a thread that reports it.
  `ReportedStays` is the point of it: between the two locks a window may be
  enlarged by another thread, which then sees a beacon too, or removed, which leaves none.
* `Once`: no connection a finding reported is in the window when the call is through;
* `Remembered`: a thread about to remove a window has announced a finding; without one, a
  recent connection is in its window. That `Vec::retain` drops nothing else is `SiftProperties`.
  `FindersKnow`: and such a thread has found all that was in the window up to its own
  connection, so that what it removes was reported or came in between its two locks;
* `Accounts`: how often each pair of hosts was counted and where in its call the one thread is
  that filled the count, and for each flow seen whether its alarm is due, out, or none.

### Attack graph

`AttackGraphAndItdrProofs` proves `BlastRadiusExactHolds` and `PathsExactHolds`, for any graph
and any depth.

* `Frontier`: what a search for the radius has visited can be reached, and an edge that leaves
  it leads back into it or starts from a node in the queue. When the queue is empty the visited
  nodes are closed under edges, and what can be reached is the least such set.
* `Routes`: what is queued or found follows edges from the source through no node twice, and
  carries the sum of their weights.
* `NoneLost`: for each simple path up to the bound, the routes that found it and the routes in
  the queue that are a beginning of it are together exactly one. A step of `Follow` replaces a
  route by its extensions, of which at most one is a beginning of a given path (`OnwardCount`).
* `Ranked`: when `discover_paths` returns, no path is riskier than the one before it.

The sum of weights along a path (`RiskOf`) is a recursive function. That it exists
(`SumExists`), is unique (`SumUnique`) and grows by the weight of the edge appended
(`RiskAppend`) is shown by the least length for which it would fail, in place of an induction.

### Identity threats

The same module proves the three properties of the run `itdr`, for any threads, users, events,
positions, distances and thresholds.

* `Numbered`: threats, announcements and stored events refer to events that were analysed;
* `Owned`: an event is in the hands of one thread, which has each of its threats once and has
  not stored the event yet;
* `Told`: a stored threat has been announced once, unless it is waiting in the hands of a thread,
  and the theft of a token has been announced as a suspicion, too, once no thread has it:
  `ThreatsAnnouncedHolds`;
* `Tracked`: the profile of a user has the length of the run of failures that is not broken yet,
  and the time and, if it had one, the position of the last event.

From these and what one analysis does to a profile (`ProfileAfter`) follow, step by step, the
three parts of what the runs check: excessive failures end a run as long as the threshold
(`FailuresNext`), the score is what the stored threats add up to (`RiskNext`, which counts
threats with `PlacesConcat`) and impossible travel is judged against the event before
(`TravelNext`). The profile lock is what the proof hinges on: what a thread appends to the
threats of a user are the factors of the profile it read.

### Ingest and hunt

`IngestAndHuntProofs` proves the three properties of the run, for any agents, hunters, hunts,
records and lakes.

`StatusHonestHolds`: to conclude that a hunt is `Running` only while somebody runs it, one has
to know what a hunter in the middle of a search holds. The invariant is

* `Typed`: the functions have their domains; what a search has found does not matter;
* `RunsMarked`: a hunter has a hunt exactly when it is not idle, and that hunt has been
  marked `Running`, or `Completed` since by another run of it;
* `Honest`: `StatusHonest` with an existential in place of the set `Underway`.

The step that takes an argument is `FinishStep`: of two runs of one hunt the first to end
sets it `Completed` while the other is still at work, which is why `RunsMarked` cannot say
`Running`, and a hunter that ends a run of another hunt is no witness for this one.

`FindingsDeliveredHolds` rests on `Deliveries`, which balances for each event what has been
told (drained or pending), what is stored, what is in the hands of agents and what is in the
lake: told are the stored ones and those about to be stored; in the lake or about to be
shipped are the stored ones; and an agent ships what it stored before it takes the next event.

`ResultsExactHolds` rests on `Timelines`. For each hunt and record,

* `Searches`: no run began with more records in the lake than there are;
* `HalfFound`: after the first half of a correlation a hunter knows of the first kind of the
  pair if it was in the lake at the beginning of the run, and only if it is there now;
* `FoundFits`: what a hunter has found contains a record once or not at all: at least if it
  was asked for in the lake at the beginning of the run, at most if it is asked for now;
* `Lines`: the timeline of a hunt has the record at least as often as its finished runs were
  bound to find it, no more often than there were runs, and not at all unless it is asked for.

A run that finishes appends what it has found to the timeline, and `PlacesConcat` adds up.

### Pipeline

`PipelineProofs` proves the three properties of the run, for any finite sets of deliverers,
analysts, incidents, triggers and techniques, whatever the triggers claim. They relate what three
engines did to what a fourth has counted, so most of them are equations between sums.

*Sums.* A fold of the community modules is a recursive function over the subsets of a set, and what
it computes would take an induction. Instead, `SumIsTokens` shows that the function that gives each
subset the number of elements of a heap, with `f[x]` tokens for every `x`, solves the recursion, and
that the fold, which solves it too (`SumIs`), is no other: there would be a smallest subset on which
they differ. What the library knows of cardinalities is then known of sums: `SumRemove`, `SumSame`, `SumMonotone`, and `SumStep`
for two sums that differ in one term. `BagAdd` and `BagSum` say the same of a bag that gets an element.

*The invariant* is `Inv`, in five parts:

* `Typed`: `TypeOK`, with the bags and the calls of the MITRE engine spelt out;
* `Incid`: what a thread has in hand is what its call of the incident manager is about, and it is in
  the log once the call is through (`Agrees`); no two threads have one status of one incident in hand
  (`Apart`); a log never runs ahead of its incident (`Ages`, which orders statuses by `Height`);
* `Copying`: a copy exists once and shows a status of its incident's log; the copy a thread is about
  to record is not there; and every incident somebody was given is copied or in the hands of its
  deliverer. A trigger is counted only after the first copy of an incident made for it;
* `Mappings`: what a call of the MITRE engine has found, and the known techniques it has left to
  do, are together the known techniques its trigger claims;
* `Balanced`: for each trigger, incidents made are those recorded and those in hand (`Made`), and
  those recorded are the triggers counted and those in hand (`Seen`); announced techniques are those
  of calls that returned and of calls under way (`Mapped`); stored ones are announced but for those
  being announced (`Spoken`); and what the analytics count, with what deliverers hold, is what was
  announced (`Told`).

`BooksBalance`, `CopiesTrue` and `ScoreRises` follow from it. For the first, the detections of a tenant
are a sum over the triggers that the tenant's copies refer to (`DetectionsOfTenant`), and `Copying` makes
these all the triggers that were counted; for the second, each open incident has a copy of its
own that says so; for the third, a step adds to the bags only (`BooksGrow`) and the cap of the score
keeps the order (`Capped`).

### Only model-checked

All liveness (`EveryChangeAnnounced`, `CallsReturn`, `EveryStartEnds`, `QueriesReturn`):
fairness and `ENABLED` are out of the prover's reach. The two violations are runs by nature.

## 5. Findings

1. **An assignment overrides the workflow** (`cases_workflow`). `assign_investigator`
   sets the state to `Assigned` from `InReview` and from `Closed`, transitions that
   `validate_case_transition` rejects.
2. **Impossible travel is measured over the wrong time** (`itdr_stale`). The distance is
   from the last event *with a position*, the time from the last event *of any kind*.
   With an event without a position in between, a journey of 1500 km in two hours is
   reported as one in one hour. `TravelBetweenNeighbours` shows where the check is right.

Things the models show that are not called errors: closing a resolved incident stamps
`resolved_at` again (so the mean time to resolve runs to the closing); a response that
is reported `Failed` may have been carried out; two calls that overlap report a beacon
twice, and connections that arrive between the two locks of a finding are dropped with the
window; a dropped playbook has a start and no
end; an identity's score never decays, so that after 80 every event raises a token theft;
`run_scheduled_rules` stores matches and returns their triggers but, unlike `ingest_event`,
neither stores nor emits them, so nobody downstream hears of them; a correlation hunt is
answered by records of all tenants; a hunt is `Completed` as soon as one of several
overlapping runs is; the analytics count an incident as open for good, once more for each
copy recorded while it is investigated, and techniques for every tenant, so that no threat
score ever falls; a trigger delivered twice is two incidents; and the SOAR engine of the
platform has a response engine of its own, whose logs are not the platform's.

## 6. Not modelled, and why

* The security policies (`xdr-core/src/security.rs`) and the controller's data types: no
  engine and no test calls the former, and they have no state; the latter have no behaviour.
  The transition tables of the policies are, edge by edge, `Edges` of `Incidents` and
  `Cases`. What is left of the crates after the engines is manifests, re-exports and tests.
* Inside the modelled engines: the mean time to resolve (`compute_mttr`), which is about
  wall-clock times; weights that are not numbers, on which the ranking of paths panics; how
  the data lake retains records; the order of the vectors of the analytics; what substrings
  a query, a command line or a registry key consists of.
* The contents of messages, wording, severities and wall-clock values.
* The order of log entries and events of *different* incidents.
* Numbers, booleans and nested arrays in the conditions of a detection rule.
* Emitters that call back into an engine: none in the repository does. With one, the
  publication loop of the detection engine would wait for itself.
* Numeric rounding: distances and speeds are compared exactly, where the code uses `f64`.
* `port_scan_counts` as a `u32`: it would have to be exceeded by the flows of one pair.

## 7. What is left

The components are modelled and their safety properties proved. The composition of SOAR and cases
with the pipeline waits for code that makes those calls.
