-------------------------------- MODULE Ndr --------------------------------
(***************************************************************************)
(* The network engine (ndr/src/engine.rs).  A flow is looked at for        *)
(* beaconing, for a port scan and for what its port alone gives away, each *)
(* under a lock of its own or none; a beaconing window is examined under   *)
(* one lock, reported under none and given up under another.               *)
(***************************************************************************)
EXTENDS Integers, Sequences, FiniteSets, Sifting

CONSTANTS
  Threads,         \* the threads that call ingest_flow and ingest_dns
  Dests,           \* keys of beacon_windows: device, dest_ip and dest_port
  Pairs,           \* keys of port_scan_counts: source_ip and dest_ip
  Flows,           \* the flows that may be ingested, see FlowAssumption
  Queries,         \* the DNS queries, each as the alarm it raises
  Window,          \* BEACON_WINDOW
  MinConnections,  \* BEACON_MIN_CONNECTIONS
  Tolerance,       \* BEACON_INTERVAL_TOLERANCE
  ScanThreshold,   \* PORT_SCAN_THRESHOLD
  MaxDelay,        \* bound: how late a flow arrives
  MaxNow,          \* bound: the clock
  MaxItems         \* bound: ingested flows and queries

(* The ports that analyze_c2 looks for are none of those that              *)
(* analyze_lateral_movement looks for: a flow raises one alarm at most.    *)
Alarms == {"none", "c2_communication", "lateral_movement", "dns_anomaly"}

ASSUME FlowAssumption ==
  Flows \subseteq [dest : Dests, pair : Pairs, alarm : Alarms \ {"dns_anomaly"}]
ASSUME QueryAssumption == Queries \subseteq {"none", "dns_anomaly"}
ASSUME ThresholdAssumption ==
  /\ Window \in Nat /\ Tolerance \in Nat
  /\ MinConnections \in Nat \ {0, 1} /\ ScanThreshold \in Nat \ {0}
ASSUME ThreadAssumption == IsFiniteSet(Threads)
ASSUME BoundAssumption == MaxDelay \in Nat /\ MaxNow \in Nat /\ MaxItems \in Nat

VARIABLES
  now,     \* the clock
  seen,    \* the flows and queries ingested, in order (auxiliary: the only
           \* thing an action reads of it is how many there are)
  window,  \* beacon_windows: the observed times, in order of arrival; with
           \* each, the flow it is of, as an index in seen
  count,   \* port_scan_counts
  stored,  \* flows and dns_queries, as indices in seen
  feed,    \* what the emitter received
  call     \* thread -> the item it ingests, and where

vars == <<now, seen, window, count, stored, feed, call>>

Idle == [pc |-> "idle", of |-> 0, item |-> [alarm |-> "none"], found |-> <<>>]

Init ==
  /\ now = 0
  /\ seen = <<>> /\ stored = <<>> /\ feed = <<>>
  /\ window = [d \in Dests |-> <<>>]
  /\ count  = [p \in Pairs |-> 0]
  /\ call   = [t \in Threads |-> Idle]

At(t, pc)   == call[t].pc = pc
Goto(t, pc) == call' = [call EXCEPT ![t].pc = pc]

Event(kind, t, of) == [kind |-> kind, by |-> call[t].of, of |-> of]
Emit(kind, t, of)  == feed' = Append(feed, Event(kind, t, of))

-----------------------------------------------------------------------------
(***************************************************************************)
(* ingest_flow: analyze_beaconing.                                         *)
(***************************************************************************)
Abs(x) == IF x < 0 THEN -x ELSE x

(* Intervals between arrivals; they are negative if flows arrive out of    *)
(* the order they were observed in.  Their mean is the distance between the*)
(* ends over their number; multiplied by that, no fractions are left.      *)
Interval(w, k) == w[k + 1].at - w[k].at
Regular(w) ==
  LET n == Len(w) - 1
  IN  \A k \in 1..n : Abs(n * Interval(w, k) - (w[Len(w)].at - w[1].at)) <= n * Tolerance

(* Mutant of IsBeacon: one connection more than is needed.                 *)
IsBeaconAbove(w) == Len(w) > MinConnections /\ Regular(w)

IsBeacon(w) == Len(w) >= MinConnections /\ Regular(w)

(* Mutant of Recent: entries as old as the newest one are dropped, too.    *)
RecentStrictly(x) == x.at > now - Window

Recent(x) == x.at >= now - Window
Retain(w) == Sift(w, {k \in 1..Len(w) : Recent(w[k])})

Observe(t, f, delay) ==
  LET n == Len(seen) + 1
      w == Retain(Append(window[f.dest], [of |-> n, at |-> now - delay]))
  IN  /\ At(t, "idle") /\ n <= MaxItems
      /\ seen' = Append(seen, [item |-> f, at |-> now - delay])
      /\ window' = [window EXCEPT ![f.dest] = w]
      /\ call' = [call EXCEPT ![t] = [pc |-> IF IsBeacon(w) THEN "beacon" ELSE "scan",
                                      of |-> n, item |-> f, found |-> w]]
      /\ UNCHANGED <<now, count, stored, feed>>

(* The finding is announced with no lock held, ...                         *)
Beacon(t) ==
  /\ At(t, "beacon")
  /\ Emit("BeaconingDetected", t, call[t].found)
  /\ Goto(t, "forget")
  /\ UNCHANGED <<now, seen, window, count, stored>>

(* Mutant of Forget: only what this thread has found is removed, once.     *)
ForgetOldest(t) ==
  /\ At(t, "forget")
  /\ window' = [window EXCEPT ![call[t].item.dest] = IF @ = <<>> THEN @ ELSE Tail(@)]
  /\ Goto(t, "scan")
  /\ UNCHANGED <<now, seen, count, stored, feed>>

(* ... then the whole window goes, with what others have put into it since.*)
Forget(t) ==
  /\ At(t, "forget")
  /\ window' = [window EXCEPT ![call[t].item.dest] = <<>>]
  /\ Goto(t, "scan")
  /\ UNCHANGED <<now, seen, count, stored, feed>>

-----------------------------------------------------------------------------
(***************************************************************************)
(* The rest of ingest_flow, and ingest_dns.                                *)
(***************************************************************************)
AlarmOrStore(item) == IF item.alarm = "none" THEN "store" ELSE "alarm"

(* Mutant of IsScan: every flow from the threshold on is reported.         *)
IsScanFrom(n) == n >= ScanThreshold

IsScan(n) == n = ScanThreshold

(* The counter never comes down: a pair is reported once and never again.  *)
Scan(t) ==
  LET p == call[t].item.pair
  IN  /\ At(t, "scan")
      /\ count' = [count EXCEPT ![p] = @ + 1]
      /\ Goto(t, IF IsScan(count'[p]) THEN "scanned" ELSE AlarmOrStore(call[t].item))
      /\ UNCHANGED <<now, seen, window, stored, feed>>

AnnounceScan(t) ==
  /\ At(t, "scanned")
  /\ Emit("port_scan", t, <<>>)
  /\ Goto(t, AlarmOrStore(call[t].item))
  /\ UNCHANGED <<now, seen, window, count, stored>>

Query(t, alarm) ==
  LET item == [alarm |-> alarm]
  IN  /\ At(t, "idle") /\ Len(seen) < MaxItems
      /\ seen' = Append(seen, [item |-> item, at |-> now])
      /\ call' = [call EXCEPT ![t] = [pc |-> AlarmOrStore(item), of |-> Len(seen) + 1,
                                      item |-> item, found |-> <<>>]]
      /\ UNCHANGED <<now, window, count, stored, feed>>

(* analyze_c2, analyze_lateral_movement or analyze_dns, without a lock.    *)
Alarm(t) ==
  /\ At(t, "alarm")
  /\ Emit(call[t].item.alarm, t, <<>>)
  /\ Goto(t, "store")
  /\ UNCHANGED <<now, seen, window, count, stored>>

Store(t) ==
  /\ At(t, "store")
  /\ stored' = Append(stored, call[t].of)
  /\ call' = [call EXCEPT ![t] = Idle]
  /\ UNCHANGED <<now, seen, window, count, feed>>

Tick ==
  /\ now < MaxNow
  /\ now' = now + 1
  /\ UNCHANGED <<seen, window, count, stored, feed, call>>

Continue(t) == Beacon(t) \/ Forget(t) \/ Scan(t) \/ AnnounceScan(t) \/ Alarm(t) \/ Store(t)

Next ==
  \/ \E t \in Threads :
       \/ \E f \in Flows, delay \in 0..MaxDelay : Observe(t, f, delay)
       \/ \E alarm \in Queries : Query(t, alarm)
       \/ Continue(t)
  \/ Tick

Spec == Init /\ [][Next]_vars

-----------------------------------------------------------------------------
(***************************************************************************)
(* Properties.                                                             *)
(***************************************************************************)
Items   == Flows \cup {[alarm |-> a] : a \in {"none", "dns_anomaly"}}
Entries == [of : Nat, at : Int]

TypeOK ==
  /\ now    \in Nat
  /\ seen   \in Seq([item : Items, at : Int])
  /\ window \in [Dests -> Seq(Entries)]
  /\ count  \in [Pairs -> Nat]
  /\ stored \in Seq(Nat)
  /\ feed   \in Seq([kind : {"BeaconingDetected", "port_scan"} \cup (Alarms \ {"none"}),
                     by : Nat, of : Seq(Entries)])
  /\ call \in [Threads ->
       [pc : {"idle", "beacon", "forget", "scan", "scanned", "alarm", "store"},
        of : Nat, item : Items, found : Seq(Entries)]]

IsFlow(n)    == seen[n].item \in Flows
FlowsOf(d)   == {n \in 1..Len(seen) : IsFlow(n) /\ seen[n].item.dest = d}
Held(d)      == {window[d][k].of : k \in 1..Len(window[d])}
Findings     == {k \in 1..Len(feed) : feed[k].kind = "BeaconingDetected"}
Working(pcs) == {t \in Threads : call[t].pc \in pcs}

(* A beacon does not go unreported: whenever the window of a destination   *)
(* has enough connections at regular intervals some thread is reporting it,*)
(* however the pushes and removals of the threads interleave               *)
(* (analyze_beaconing).                                                    *)
BeaconsReported ==
  TypeOK /\ \A d \in Dests : Len(window[d]) >= MinConnections /\ Regular(window[d]) =>
    \E t \in Working({"beacon", "forget"}) : call[t].item.dest = d

(* A connection is not reported again once the call that reported it has   *)
(* given the window up: only calls that overlap report one in common.      *)
ReportedOnce ==
  \A k \in Findings :
    LET d == seen[feed[k].by].item.dest
    IN  \/ \E t \in Working({"forget"}) : call[t].of = feed[k].by
        \/ {feed[k].of[j].of : j \in 1..Len(feed[k].of)} \cap Held(d) = {}

(* No connection is forgotten but for age or for a finding.  Until one is  *)
(* announced the window of a destination has all that are recent; and      *)
(* before and after, what a step takes out of it is too old, or goes with  *)
(* the finding of a call that gives the window up: it was reported, or it  *)
(* came in when that call had examined the window already, which is the gap*)
(* between its two locks and the only way one is lost (analyze_beaconing). *)
Kept(d) ==
  (\A k \in Findings : seen[feed[k].by].item.dest # d) =>
    \A n \in FlowsOf(d) : seen[n].at >= now - Window => n \in Held(d)
GivenUp(t, d, n) ==
  /\ At(t, "forget") /\ call[t].item.dest = d /\ call'[t].pc # "forget"
  /\ n > call[t].of \/ \E j \in 1..Len(call[t].found) : call[t].found[j].of = n
NothingForgotten ==
  /\ [](\A d \in Dests : Kept(d))
  /\ [][\A d \in Dests : \A n \in Held(d) \ Held(d)' :
          seen[n].at < now - Window \/ \E t \in Threads : GivenUp(t, d, n)]_vars

(* Every flow is counted once for its pair, or still to be counted; a pair *)
(* is reported once, by the flow that makes the number full; and a flow or *)
(* a query in the store has had its own alarm announced, once.             *)
ThreatsReported ==
  /\ \A p \in Pairs :
       LET of(pcs)   == {t \in Working(pcs) : call[t].item.pair = p}
           all       == {n \in 1..Len(seen) : IsFlow(n) /\ seen[n].item.pair = p}
           announced == {k \in 1..Len(feed) : feed[k].kind = "port_scan" /\ feed[k].by \in all}
       IN  /\ count[p] + Cardinality(of({"beacon", "forget", "scan"})) = Cardinality(all)
           /\ Cardinality(announced) + Cardinality(of({"scanned"}))
                = IF count[p] >= ScanThreshold THEN 1 ELSE 0
  /\ \A k \in 1..Len(stored) :
       LET a == seen[stored[k]].item.alarm
           announced == {j \in 1..Len(feed) : feed[j].kind = a /\ feed[j].by = stored[k]}
       IN  Cardinality(announced) = IF a = "none" THEN 0 ELSE 1
=============================================================================
