----------------------------- MODULE NdrProofs -----------------------------
(***************************************************************************)
(* Theorems about the network engine, for any finite set of threads and any*)
(* flows, queries, thresholds and clock.                                   *)
(***************************************************************************)
EXTENDS Ndr, SiftingLemmas, SequenceTheorems

Stages == {"idle", "beacon", "forget", "scan", "scanned", "alarm", "store"}
Calls == [pc : Stages, of : Nat, item : Items, found : Seq(Entries)]
Marks == [kind : {"BeaconingDetected", "port_scan"} \cup (Alarms \ {"none"}),
          by : Nat, of : Seq(Entries)]
Sightings == [item : Items, at : Int]

-----------------------------------------------------------------------------
(***************************************************************************)
(* What calls, windows and announcements refer to has been seen.           *)
(***************************************************************************)
Known(w, s) == \A k \in 1..Len(w) : w[k].of \in 1..Len(s) /\ s[w[k].of].at = w[k].at

CallFits(c, s) ==
  /\ c.pc # "idle" => c.of \in 1..Len(s) /\ s[c.of].item = c.item
  /\ c.pc \in {"beacon", "forget", "scan", "scanned"} => c.item \in Flows
  /\ c.pc = "alarm" => c.item.alarm # "none"
  /\ Known(c.found, s)

MarkFits(e, s) ==
  /\ e.by \in 1..Len(s) /\ Known(e.of, s)
  /\ e.kind \in {"BeaconingDetected", "port_scan"} => s[e.by].item \in Flows

(* No two calls are for one item, and none is for what is stored already.  *)
Apart(cs, st) ==
  /\ \A t, u \in Threads : cs[t].pc # "idle" /\ cs[u].pc # "idle" /\ cs[t].of = cs[u].of => t = u
  /\ \A k \in 1..Len(st) : \A t \in Threads : cs[t].pc # "idle" => cs[t].of # st[k]

Base ==
  /\ TypeOK
  /\ \A t \in Threads : CallFits(call[t], seen)
  /\ \A d \in Dests : Known(window[d], seen)
  /\ \A k \in 1..Len(feed) : MarkFits(feed[k], seen)
  /\ \A k \in 1..Len(stored) : stored[k] \in 1..Len(seen)
  /\ Apart(call, stored)

LEMMA ItemFacts ==
  /\ \A f \in Flows : /\ f \in Items /\ f.dest \in Dests /\ f.pair \in Pairs
                      /\ f.alarm \in Alarms \ {"dns_anomaly"}
  /\ \A a : [alarm |-> a] \notin Flows
  /\ \A i \in Items : i.alarm \in Alarms
  /\ \A a \in Queries : [alarm |-> a] \in Items
  /\ Idle \in Calls
  <1>1. \A f \in Flows : /\ f \in Items /\ f.dest \in Dests /\ f.pair \in Pairs
                         /\ f.alarm \in Alarms \ {"dns_anomaly"}
    BY FlowAssumption DEF Items
  <1>2. ASSUME NEW a, [alarm |-> a] \in Flows PROVE FALSE
    <2>1. DOMAIN [alarm |-> a] = {"dest", "pair", "alarm"}
      BY <1>2, FlowAssumption
    <2> QED BY <2>1
  <1>3. \A i \in Items : i.alarm \in Alarms
    BY <1>1 DEF Items, Alarms
  <1>4. \A a \in Queries : [alarm |-> a] \in Items
    BY QueryAssumption DEF Items
  <1>5. Idle \in Calls
    <2>1. [alarm |-> "none"] \in Items /\ <<>> \in Seq(Entries)
      BY DEF Items
    <2> QED BY <2>1 DEF Idle, Calls, Stages
  <1> QED BY <1>1, <1>2, <1>3, <1>4, <1>5

(* The state in these terms.                                               *)
Logs ==
  /\ now \in Nat /\ seen \in Seq(Sightings) /\ window \in [Dests -> Seq(Entries)]
  /\ count \in [Pairs -> Nat] /\ stored \in Seq(Nat) /\ feed \in Seq(Marks)
  /\ call \in [Threads -> Calls]

LEMMA Typed == TypeOK <=> Logs
  BY DEF TypeOK, Logs, Sightings, Marks, Calls, Stages
LEMMA TypedNext == TypeOK' <=> Logs'
  BY Typed, PTL

(* What is seen stays so.                                                  *)
LEMMA KnownStays ==
  ASSUME NEW s \in Seq(Sightings), NEW x \in Sightings
  PROVE  /\ \A w : Known(w, s) => Known(w, Append(s, x))
         /\ \A c : CallFits(c, s) => CallFits(c, Append(s, x))
         /\ \A e : MarkFits(e, s) => MarkFits(e, Append(s, x))
         /\ \A n \in 1..Len(s) : n \in 1..Len(Append(s, x)) /\ Append(s, x)[n] = s[n]
  <1> DEFINE r == Append(s, x)
  <1>1. /\ Len(s) \in Nat /\ Len(r) = Len(s) + 1
        /\ \A n \in 1..Len(s) : r[n] = s[n]
    OBVIOUS
  <1> HIDE DEF r
  <1>2. \A n \in 1..Len(s) : n \in 1..Len(r) /\ r[n] = s[n]
    BY <1>1
  <1>3. \A w : Known(w, s) => Known(w, r)
    BY <1>2 DEF Known
  <1>4. \A c : CallFits(c, s) => CallFits(c, r)
    BY <1>2, <1>3 DEF CallFits
  <1>5. \A e : MarkFits(e, s) => MarkFits(e, r)
    BY <1>2, <1>3 DEF MarkFits
  <1> QED BY <1>2, <1>3, <1>4, <1>5 DEF r

LEMMA Retained ==
  ASSUME NEW w \in Seq(Entries)
  PROVE  /\ Retain(w) \in Seq(Entries)
         /\ \A k \in 1..Len(Retain(w)) : \E i \in 1..Len(w) : Retain(w)[k] = w[i]
         /\ \A i \in 1..Len(w) : Recent(w[i]) => \E k \in 1..Len(Retain(w)) : Retain(w)[k] = w[i]
  <1> DEFINE I == {k \in 1..Len(w) : Recent(w[k])}
  <1>1. I \subseteq 1..Len(w) /\ \A i \in 1..Len(w) : Recent(w[i]) => i \in I
    OBVIOUS
  <1>2. Retain(w) = Sift(w, I)
    BY DEF Retain
  <1> HIDE DEF I
  <1>3. /\ Sift(w, I) \in Seq(Entries)
        /\ \A k \in 1..Len(Sift(w, I)) : \E i \in I \cap 1..Len(w) : Sift(w, I)[k] = w[i]
        /\ \A i \in I \cap 1..Len(w) : \E k \in 1..Len(Sift(w, I)) : Sift(w, I)[k] = w[i]
    BY SiftProperties
  <1> QED BY <1>1, <1>2, <1>3

-----------------------------------------------------------------------------
(***************************************************************************)
(* The steps of a thread.                                                  *)
(***************************************************************************)
Turns(t, pc, of, item, found) ==
  /\ call' \in [Threads -> Calls]
  /\ call'[t].pc = pc /\ call'[t].of = of /\ call'[t].item = item /\ call'[t].found = found
  /\ \A u \in Threads : u # t => call'[u] = call[u]

Goes(t, pc) == Turns(t, pc, call[t].of, call[t].item, call[t].found)

LEMMA GotoGoes ==
  ASSUME TypeOK, NEW t \in Threads, NEW pc \in Stages, Goto(t, pc)
  PROVE  Goes(t, pc)
  <1>1. call \in [Threads -> Calls]
    BY Typed DEF Logs
  <1> QED BY <1>1 DEF Goto, Goes, Turns, Calls

Retainable(t, f, delay) == Append(window[f.dest], [of |-> Len(seen) + 1, at |-> now - delay])

LEMMA ObserveTurns ==
  ASSUME TypeOK, NEW t \in Threads, NEW f \in Flows, NEW delay \in 0..MaxDelay, Observe(t, f, delay)
  PROVE  LET a == Retainable(t, f, delay)
             n == Len(seen) + 1
             x == [item |-> f, at |-> now - delay]
         IN  /\ a \in Seq(Entries) /\ Retain(a) \in Seq(Entries) /\ x \in Sightings /\ n \in Nat
             /\ call[t].pc = "idle" /\ seen' = Append(seen, x)
             /\ window' = [window EXCEPT ![f.dest] = Retain(a)]
             /\ call'[t].pc \in {"beacon", "scan"}
             /\ IsBeacon(Retain(a)) <=> call'[t].pc = "beacon"
             /\ Turns(t, call'[t].pc, n, f, Retain(a))
             /\ UNCHANGED <<now, count, stored, feed>>
  <1> DEFINE a == Retainable(t, f, delay)
             n == Len(seen) + 1
             x == [item |-> f, at |-> now - delay]
             pc == IF IsBeacon(Retain(a)) THEN "beacon" ELSE "scan"
             c == [pc |-> pc, of |-> n, item |-> f, found |-> Retain(a)]
  <1>1. Logs /\ now - delay \in Int /\ n \in Nat
    BY Typed, BoundAssumption DEF Logs
  <1>2. x \in Sightings /\ [of |-> n, at |-> now - delay] \in Entries /\ f \in Items /\ f.dest \in Dests
    BY <1>1, ItemFacts DEF Sightings, Entries
  <1>3. a \in Seq(Entries)
    BY <1>1, <1>2 DEF Logs, Retainable
  <1>4. Retain(a) \in Seq(Entries)
    BY <1>3, Retained
  <1>5. /\ call[t].pc = "idle" /\ seen' = Append(seen, x)
        /\ window' = [window EXCEPT ![f.dest] = Retain(a)]
        /\ call' = [call EXCEPT ![t] = c]
        /\ UNCHANGED <<now, count, stored, feed>>
    BY DEF Observe, Retainable, At
  <1>6. c \in Calls
    BY <1>1, <1>2, <1>4 DEF Calls, Stages
  <1>7. call' \in [Threads -> Calls] /\ call'[t] = c /\ \A u \in Threads : u # t => call'[u] = call[u]
    BY <1>1, <1>5, <1>6 DEF Logs
  <1>8. call'[t].pc = pc /\ call'[t].of = n /\ call'[t].item = f /\ call'[t].found = Retain(a)
    BY <1>7
  <1> HIDE DEF a, c, x, n
  <1>9. Turns(t, call'[t].pc, n, f, Retain(a))
    BY <1>7, <1>8 DEF Turns
  <1> QED BY <1>1, <1>2, <1>3, <1>4, <1>5, <1>8, <1>9 DEF a, x, n

LEMMA QueryTurns ==
  ASSUME TypeOK, NEW t \in Threads, NEW alarm \in Queries, Query(t, alarm)
  PROVE  LET item == [alarm |-> alarm]
             x == [item |-> item, at |-> now]
         IN  /\ x \in Sightings /\ Len(seen) + 1 \in Nat
             /\ call[t].pc = "idle" /\ seen' = Append(seen, x)
             /\ Turns(t, AlarmOrStore(item), Len(seen) + 1, item, <<>>)
             /\ UNCHANGED <<now, window, count, stored, feed>>
  <1> DEFINE item == [alarm |-> alarm]
             x == [item |-> item, at |-> now]
             c == [pc |-> AlarmOrStore(item), of |-> Len(seen) + 1, item |-> item, found |-> <<>>]
  <1>1. Logs /\ Len(seen) + 1 \in Nat /\ now \in Int
    BY Typed DEF Logs
  <1>2. item \in Items /\ x \in Sightings
    BY <1>1, ItemFacts DEF Sightings
  <1>3. c \in Calls
    BY <1>1, <1>2 DEF Calls, Stages, AlarmOrStore
  <1>4. call[t].pc = "idle" /\ seen' = Append(seen, x) /\ call' = [call EXCEPT ![t] = c]
        /\ UNCHANGED <<now, window, count, stored, feed>>
    BY DEF Query, At
  <1>5. call' \in [Threads -> Calls] /\ call'[t] = c /\ \A u \in Threads : u # t => call'[u] = call[u]
    BY <1>1, <1>3, <1>4 DEF Logs
  <1>6. Turns(t, AlarmOrStore(item), Len(seen) + 1, item, <<>>)
    BY <1>5 DEF Turns
  <1> QED BY <1>1, <1>2, <1>4, <1>6

LEMMA StoreTurns ==
  ASSUME TypeOK, NEW t \in Threads, Store(t)
  PROVE  Turns(t, "idle", 0, [alarm |-> "none"], <<>>)
  <1>1. call \in [Threads -> Calls] /\ Idle \in Calls
    BY Typed, ItemFacts DEF Logs
  <1>2. call' \in [Threads -> Calls] /\ call'[t] = Idle /\ \A u \in Threads : u # t => call'[u] = call[u]
    BY <1>1 DEF Store
  <1> QED BY <1>2 DEF Turns, Idle

(* A step of a call under way that changes neither log nor window.         *)
GoesOn(t, pc) == Goes(t, pc) /\ UNCHANGED <<now, seen, stored>>

LEMMA StepsGoOn ==
  ASSUME TypeOK, NEW t \in Threads
  PROVE  /\ Beacon(t) => GoesOn(t, "forget")
         /\ Forget(t) => GoesOn(t, "scan")
         /\ Scan(t) => GoesOn(t, IF IsScan(count'[call[t].item.pair]) THEN "scanned"
                                 ELSE AlarmOrStore(call[t].item))
         /\ AnnounceScan(t) => GoesOn(t, AlarmOrStore(call[t].item))
         /\ Alarm(t) => GoesOn(t, "store")
  <1>1. /\ {"forget", "scan", "scanned", "store"} \subseteq Stages
        /\ \A i : AlarmOrStore(i) \in Stages
    BY DEF Stages, AlarmOrStore
  <1>2. Beacon(t) => GoesOn(t, "forget")
    BY <1>1, GotoGoes DEF Beacon, GoesOn
  <1>3. Forget(t) => GoesOn(t, "scan")
    BY <1>1, GotoGoes DEF Forget, GoesOn
  <1>4. ASSUME Scan(t)
        PROVE  GoesOn(t, IF IsScan(count'[call[t].item.pair]) THEN "scanned"
                         ELSE AlarmOrStore(call[t].item))
    <2> DEFINE pc == IF IsScan(count'[call[t].item.pair]) THEN "scanned" ELSE AlarmOrStore(call[t].item)
    <2>1. pc \in Stages /\ Goto(t, pc) /\ UNCHANGED <<now, seen, stored>>
      BY <1>1, <1>4 DEF Scan
    <2> QED BY <2>1, GotoGoes DEF GoesOn
  <1>5. AnnounceScan(t) => GoesOn(t, AlarmOrStore(call[t].item))
    BY <1>1, GotoGoes DEF AnnounceScan, GoesOn
  <1>6. Alarm(t) => GoesOn(t, "store")
    BY <1>1, GotoGoes DEF Alarm, GoesOn
  <1> QED BY <1>2, <1>3, <1>4, <1>5, <1>6

-----------------------------------------------------------------------------
(***************************************************************************)
(* Base is invariant.                                                      *)
(***************************************************************************)
LEMMA BaseBegins ==
  ASSUME Base, TypeOK', NEW t \in Threads, NEW x \in Sightings, NEW pc \in Stages \ {"idle"},
         NEW found, call[t].pc = "idle", Turns(t, pc, Len(seen) + 1, x.item, found),
         seen' = Append(seen, x), feed' = feed, stored' = stored,
         pc \in {"beacon", "forget", "scan", "scanned"} => x.item \in Flows,
         pc = "alarm" => x.item.alarm # "none",
         Known(found, seen'), \A d \in Dests : Known(window'[d], seen')
  PROVE  Base'
  <1>1. Logs /\ Logs'
    BY Typed, TypedNext DEF Base
  <1>2. /\ Len(seen) \in Nat /\ Len(seen') = Len(seen) + 1 /\ seen'[Len(seen) + 1] = x
        /\ Len(seen) + 1 \in 1..Len(seen')
    BY <1>1 DEF Logs
  <1>3. /\ \A c : CallFits(c, seen) => CallFits(c, seen')
        /\ \A e : MarkFits(e, seen) => MarkFits(e, seen')
        /\ \A n \in 1..Len(seen) : n \in 1..Len(seen') /\ n # Len(seen) + 1
    BY <1>1, <1>2, KnownStays DEF Logs
  <1>4. /\ call'[t].pc = pc /\ call'[t].of = Len(seen) + 1 /\ call'[t].item = x.item
        /\ call'[t].found = found
        /\ \A u \in Threads : u # t => call'[u] = call[u]
    BY DEF Turns
  <1>5. CallFits(call'[t], seen')
    BY <1>2, <1>4 DEF CallFits
  <1>6. \A u \in Threads : CallFits(call'[u], seen')
    BY <1>3, <1>4, <1>5 DEF Base
  <1>7. \A u \in Threads : call[u].pc # "idle" => call[u].of # Len(seen) + 1
    BY <1>3 DEF Base, CallFits
  <1>8. Apart(call', stored')
    <2>1. \A u, v \in Threads :
            call'[u].pc # "idle" /\ call'[v].pc # "idle" /\ call'[u].of = call'[v].of => u = v
      BY <1>4, <1>7 DEF Base, Apart
    <2>2. \A k \in 1..Len(stored) : \A u \in Threads : call'[u].pc # "idle" => call'[u].of # stored[k]
      BY <1>3, <1>4 DEF Base, Apart
    <2> QED BY <2>1, <2>2 DEF Apart
  <1>9. /\ \A k \in 1..Len(feed') : MarkFits(feed'[k], seen')
        /\ \A k \in 1..Len(stored') : stored'[k] \in 1..Len(seen')
    BY <1>3 DEF Base
  <1> QED BY <1>6, <1>8, <1>9 DEF Base

LEMMA BaseGoesOn ==
  ASSUME Base, TypeOK', NEW t \in Threads, NEW pc \in Stages \ {"idle"},
         call[t].pc # "idle", GoesOn(t, pc),
         pc \in {"beacon", "forget", "scan", "scanned"} => call[t].item \in Flows,
         pc = "alarm" => call[t].item.alarm # "none",
         \A d \in Dests : window'[d] = window[d] \/ window'[d] = <<>>,
         feed' = feed \/ \E e \in Marks : feed' = Append(feed, e) /\ MarkFits(e, seen)
  PROVE  Base'
  <1>1. /\ seen' = seen /\ stored' = stored
        /\ call'[t].pc = pc /\ call'[t].of = call[t].of /\ call'[t].item = call[t].item
        /\ call'[t].found = call[t].found
        /\ \A u \in Threads : u # t => call'[u] = call[u]
    BY DEF GoesOn, Goes, Turns
  <1>2. \A u \in Threads : CallFits(call'[u], seen)
    BY <1>1 DEF Base, CallFits
  <1>3. \A d \in Dests : Known(window'[d], seen)
    BY DEF Base, Known
  <1>4. \A k \in 1..Len(feed') : MarkFits(feed'[k], seen)
    <2>1. feed \in Seq(Marks)
      BY Typed DEF Base, Logs
    <2> SUFFICES ASSUME NEW e \in Marks, feed' = Append(feed, e), MarkFits(e, seen),
                        NEW k \in 1..Len(feed')
                 PROVE  MarkFits(feed'[k], seen)
      BY DEF Base
    <2>2. feed'[k] = e \/ (k \in 1..Len(feed) /\ feed'[k] = feed[k])
      BY <2>1
    <2> QED BY <2>2 DEF Base
  <1>5. Apart(call', stored)
    BY <1>1 DEF Base, Apart
  <1> QED BY <1>1, <1>2, <1>3, <1>4, <1>5 DEF Base

LEMMA EventFits ==
  ASSUME Base, NEW t \in Threads, call[t].pc # "idle",
         NEW kind \in {"BeaconingDetected", "port_scan"} \cup (Alarms \ {"none"}),
         NEW of \in Seq(Entries), Known(of, seen),
         kind \in {"BeaconingDetected", "port_scan"} => call[t].item \in Flows
  PROVE  Event(kind, t, of) \in Marks /\ MarkFits(Event(kind, t, of), seen)
  <1>1. call[t] \in Calls /\ CallFits(call[t], seen)
    BY Typed DEF Base, Logs
  <1>2. call[t].of \in Nat
    BY <1>1 DEF Calls
  <1> QED BY <1>1, <1>2 DEF Event, Marks, MarkFits, CallFits

LEMMA NextBase ==
  ASSUME Base, [Next]_vars
  PROVE  Base'
  <1>1. Logs
    BY Typed DEF Base
  <1>2. \A t \in Threads : call[t] \in Calls /\ CallFits(call[t], seen)
    BY <1>1 DEF Base, Logs
  <1>3. ASSUME NEW t \in Threads, NEW f \in Flows, NEW delay \in 0..MaxDelay, Observe(t, f, delay)
        PROVE  Base'
    <2> DEFINE a == Retainable(t, f, delay)
               w == Retain(a)
               n == Len(seen) + 1
               x == [item |-> f, at |-> now - delay]
               pc == call'[t].pc
    <2>1. /\ a \in Seq(Entries) /\ w \in Seq(Entries) /\ x \in Sightings /\ n \in Nat
          /\ call[t].pc = "idle" /\ seen' = Append(seen, x)
          /\ window' = [window EXCEPT ![f.dest] = w] /\ pc \in {"beacon", "scan"}
          /\ Turns(t, pc, n, f, w)
          /\ UNCHANGED <<now, count, stored, feed>>
      BY <1>3, ObserveTurns DEF Base
    <2>2. TypeOK'
      <3>1. seen' \in Seq(Sightings)
        BY <1>1, <2>1 DEF Logs
      <3>2. window' \in [Dests -> Seq(Entries)] /\ call' \in [Threads -> Calls]
        BY <1>1, <2>1 DEF Logs, Turns
      <3> QED BY <1>1, <2>1, <3>1, <3>2, TypedNext DEF Logs
    <2>3. Known(a, seen')
      <3>1. Known(window[f.dest], seen') /\ window[f.dest] \in Seq(Entries)
        BY <1>1, <2>1, KnownStays, ItemFacts DEF Base, Logs
      <3>2. n \in 1..Len(seen') /\ seen'[n].at = now - delay
        BY <1>1, <2>1 DEF Logs
      <3>3. \A k \in 1..Len(a) : (k \in 1..Len(window[f.dest]) /\ a[k] = window[f.dest][k])
                                \/ a[k] = [of |-> n, at |-> now - delay]
        BY <3>1 DEF Retainable
      <3> HIDE DEF a, n
      <3> QED BY <3>1, <3>2, <3>3 DEF Known
    <2>4. Known(w, seen')
      <3>1. \A k \in 1..Len(w) : \E i \in 1..Len(a) : w[k] = a[i]
        BY <2>1, Retained
      <3> HIDE DEF w, a
      <3> QED BY <2>3, <3>1 DEF Known
    <2>5. \A d \in Dests : Known(window'[d], seen')
      <3>1. \A d \in Dests : Known(window[d], seen')
        BY <1>1, <2>1, KnownStays DEF Base, Logs
      <3> HIDE DEF w
      <3> QED BY <1>1, <2>1, <2>4, <3>1 DEF Logs
    <2>6. x.item = f /\ pc \in Stages \ {"idle"} /\ pc # "alarm"
      BY <2>1 DEF Stages
    <2> HIDE DEF w, x, pc
    <2> QED BY <2>1, <2>2, <2>4, <2>5, <2>6, BaseBegins
  <1>4. ASSUME NEW t \in Threads, NEW alarm \in Queries, Query(t, alarm)
        PROVE  Base'
    <2> DEFINE item == [alarm |-> alarm]
               x == [item |-> item, at |-> now]
               pc == AlarmOrStore(item)
    <2>1. /\ x \in Sightings /\ Len(seen) + 1 \in Nat
          /\ call[t].pc = "idle" /\ seen' = Append(seen, x)
          /\ Turns(t, pc, Len(seen) + 1, item, <<>>)
          /\ UNCHANGED <<now, window, count, stored, feed>>
      BY <1>4, QueryTurns DEF Base
    <2>2. TypeOK'
      <3>1. seen' \in Seq(Sightings) /\ call' \in [Threads -> Calls]
        BY <1>1, <2>1 DEF Logs, Turns
      <3> QED BY <1>1, <2>1, <3>1, TypedNext DEF Logs
    <2>3. pc \in {"alarm", "store"} /\ (pc = "alarm" => item.alarm # "none") /\ x.item = item
      BY DEF AlarmOrStore
    <2>4. Known(<<>>, seen')
      BY DEF Known
    <2>5. \A d \in Dests : Known(window'[d], seen')
      BY <1>1, <2>1, KnownStays DEF Base, Logs
    <2>6. pc \in Stages \ {"idle"}
      BY <2>3 DEF Stages
    <2> HIDE DEF item, x, pc
    <2> QED BY <2>1, <2>2, <2>3, <2>4, <2>5, <2>6, BaseBegins
  <1>5. ASSUME NEW t \in Threads, Beacon(t)
        PROVE  Base'
    <2> DEFINE e == Event("BeaconingDetected", t, call[t].found)
    <2>1. call[t].pc = "beacon" /\ feed' = Append(feed, e) /\ UNCHANGED <<count, window>>
      BY <1>5 DEF Beacon, At, Emit
    <2>2. GoesOn(t, "forget")
      BY <1>5, StepsGoOn DEF Base
    <2>3. e \in Marks /\ MarkFits(e, seen)
      BY <1>2, <2>1, EventFits DEF CallFits, Calls
    <2> HIDE DEF e
    <2>4. TypeOK'
      BY <1>1, <2>1, <2>2, <2>3, TypedNext DEF Logs, GoesOn, Goes, Turns
    <2>5. call[t].item \in Flows /\ "forget" \in Stages \ {"idle"}
      BY <1>2, <2>1 DEF CallFits, Stages
    <2> QED BY <2>1, <2>2, <2>3, <2>4, <2>5, BaseGoesOn
  <1>6. ASSUME NEW t \in Threads, Forget(t)
        PROVE  Base'
    <2>1. /\ call[t].pc = "forget" /\ UNCHANGED <<count, feed>>
          /\ window' = [window EXCEPT ![call[t].item.dest] = <<>>]
      BY <1>6 DEF Forget, At
    <2>2. GoesOn(t, "scan")
      BY <1>6, StepsGoOn DEF Base
    <2>3. call[t].item \in Flows /\ "scan" \in Stages \ {"idle"}
      BY <1>2, <2>1 DEF CallFits, Stages
    <2>4. /\ window' \in [Dests -> Seq(Entries)]
          /\ \A d \in Dests : window'[d] = window[d] \/ window'[d] = <<>>
      <3>1. window \in [Dests -> Seq(Entries)] /\ <<>> \in Seq(Entries)
        BY <1>1 DEF Logs
      <3> HIDE DEF Entries
      <3> QED BY <2>1, <3>1
    <2>5. TypeOK'
      BY <1>1, <2>1, <2>2, <2>4, TypedNext DEF Logs, GoesOn, Goes, Turns
    <2> QED BY <2>1, <2>2, <2>3, <2>4, <2>5, BaseGoesOn
  <1>7. ASSUME NEW t \in Threads, Scan(t)
        PROVE  Base'
    <2> DEFINE pc == IF IsScan(count'[call[t].item.pair]) THEN "scanned" ELSE AlarmOrStore(call[t].item)
    <2>1. /\ call[t].pc = "scan" /\ UNCHANGED <<window, feed>>
          /\ count' = [count EXCEPT ![call[t].item.pair] = @ + 1]
      BY <1>7 DEF Scan, At
    <2>2. GoesOn(t, pc)
      BY <1>7, StepsGoOn DEF Base
    <2>3. call[t].item \in Flows
      BY <1>2, <2>1 DEF CallFits
    <2>4. pc \in Stages \ {"idle"} /\ (pc = "alarm" => call[t].item.alarm # "none")
      BY DEF AlarmOrStore, Stages
    <2> HIDE DEF pc
    <2>5. count' \in [Pairs -> Nat]
      <3>1. count \in [Pairs -> Nat] /\ call[t].item.pair \in Pairs
        BY <1>1, <2>3, ItemFacts DEF Logs
      <3>2. count[call[t].item.pair] + 1 \in Nat
        BY <3>1
      <3> QED BY <2>1, <3>1, <3>2
    <2>6. TypeOK'
      BY <1>1, <2>1, <2>2, <2>5, TypedNext DEF Logs, GoesOn, Goes, Turns
    <2> QED BY <2>1, <2>2, <2>3, <2>4, <2>6, BaseGoesOn
  <1>8. ASSUME NEW t \in Threads, AnnounceScan(t)
        PROVE  Base'
    <2> DEFINE e == Event("port_scan", t, <<>>)
               pc == AlarmOrStore(call[t].item)
    <2>1. call[t].pc = "scanned" /\ feed' = Append(feed, e) /\ UNCHANGED <<count, window>>
      BY <1>8 DEF AnnounceScan, At, Emit
    <2>2. GoesOn(t, pc)
      BY <1>8, StepsGoOn DEF Base
    <2>3. e \in Marks /\ MarkFits(e, seen)
      <3>1. <<>> \in Seq(Entries) /\ Known(<<>>, seen)
        BY DEF Known
      <3> QED BY <1>2, <2>1, <3>1, EventFits DEF CallFits
    <2>4. pc \in {"alarm", "store"} /\ (pc = "alarm" => call[t].item.alarm # "none")
      BY DEF AlarmOrStore
    <2> HIDE DEF e, pc
    <2>5. TypeOK'
      BY <1>1, <2>1, <2>2, <2>3, TypedNext DEF Logs, GoesOn, Goes, Turns
    <2>6. pc \in Stages \ {"idle"}
      BY <2>4 DEF Stages
    <2> QED BY <2>1, <2>2, <2>3, <2>4, <2>5, <2>6, BaseGoesOn
  <1>9. ASSUME NEW t \in Threads, Alarm(t)
        PROVE  Base'
    <2> DEFINE e == Event(call[t].item.alarm, t, <<>>)
    <2>1. call[t].pc = "alarm" /\ feed' = Append(feed, e) /\ UNCHANGED <<count, window>>
      BY <1>9 DEF Alarm, At, Emit
    <2>2. GoesOn(t, "store")
      BY <1>9, StepsGoOn DEF Base
    <2>3. e \in Marks /\ MarkFits(e, seen)
      <3>1. <<>> \in Seq(Entries) /\ Known(<<>>, seen)
        BY DEF Known
      <3>2. call[t].item.alarm \in Alarms \ {"none"}
        BY <1>2, <2>1, ItemFacts DEF CallFits, Calls
      <3>3. call[t].item.alarm \notin {"BeaconingDetected", "port_scan"}
        BY <3>2 DEF Alarms
      <3> QED BY <2>1, <3>1, <3>2, <3>3, EventFits
    <2> HIDE DEF e
    <2>4. TypeOK'
      BY <1>1, <2>1, <2>2, <2>3, TypedNext DEF Logs, GoesOn, Goes, Turns
    <2>5. "store" \in Stages \ {"idle"}
      BY DEF Stages
    <2> QED BY <2>1, <2>2, <2>3, <2>4, <2>5, BaseGoesOn
  <1>10. ASSUME NEW t \in Threads, Store(t)
         PROVE  Base'
    <2>1. /\ call[t].pc = "store" /\ stored' = Append(stored, call[t].of)
          /\ UNCHANGED <<now, seen, window, count, feed>>
      BY <1>10 DEF Store, At
    <2>2. Turns(t, "idle", 0, [alarm |-> "none"], <<>>)
      BY <1>10, StoreTurns DEF Base
    <2>3. stored \in Seq(Nat) /\ call[t].of \in Nat /\ call[t].of \in 1..Len(seen)
      BY <1>1, <1>2, <2>1 DEF Logs, Calls, CallFits
    <2>4. TypeOK'
      BY <1>1, <2>1, <2>2, <2>3, TypedNext DEF Logs, Turns
    <2>5. \A k \in 1..Len(stored') : stored'[k] = call[t].of \/ (k \in 1..Len(stored) /\ stored'[k] = stored[k])
      BY <2>1, <2>3
    <2>6. \A u \in Threads : CallFits(call'[u], seen)
      BY <1>2, <2>2 DEF Turns, CallFits, Known
    <2>7. Apart(call', stored')
      <3>1. \A u \in Threads : u # t => call'[u] = call[u]
        BY <2>2 DEF Turns
      <3>2. call'[t].pc = "idle"
        BY <2>2 DEF Turns
      <3>3. \A k \in 1..Len(stored') : \A u \in Threads : call'[u].pc # "idle" => call'[u].of # stored'[k]
        BY <2>1, <2>5, <3>1, <3>2 DEF Base, Apart
      <3> QED BY <3>1, <3>2, <3>3 DEF Base, Apart
    <2>8. \A k \in 1..Len(stored') : stored'[k] \in 1..Len(seen)
      BY <2>3, <2>5 DEF Base
    <2> QED BY <2>1, <2>4, <2>6, <2>7, <2>8 DEF Base
  <1>11. ASSUME Tick
         PROVE  Base'
    <2>1. now' \in Nat
      BY <1>1, <1>11 DEF Tick, Logs
    <2>2. TypeOK'
      BY <1>1, <1>11, <2>1, TypedNext DEF Tick, Logs
    <2> QED BY <1>11, <2>2 DEF Tick, Base
  <1>12. ASSUME UNCHANGED vars
         PROVE  Base'
    <2>1. TypeOK'
      BY <1>1, <1>12, TypedNext DEF vars, Logs
    <2> QED BY <1>12, <2>1 DEF vars, Base
  <1> QED
    BY <1>3, <1>4, <1>5, <1>6, <1>7, <1>8, <1>9, <1>10, <1>11, <1>12 DEF Next, Continue

LEMMA BaseInvariant == Spec => []Base
  <1>1. Init => Base
    <2> SUFFICES ASSUME Init PROVE Base
      OBVIOUS
    <2>1. Logs
      BY ItemFacts DEF Init, Logs
    <2>2. \A t \in Threads : call[t].pc = "idle" /\ call[t].found = <<>>
      BY DEF Init, Idle
    <2> QED BY <2>1, <2>2, Typed DEF Init, Base, CallFits, Known, Apart
  <1>2. Base /\ [Next]_vars => Base'
    BY NextBase
  <1> QED BY <1>1, <1>2, PTL DEF Spec

(* The state of the network engine is well typed, for any finite set of    *)
(* threads and any thresholds (ingest_flow, ingest_dns).                   *)
THEOREM TypeCorrect == Spec => []TypeOK
  <1>1. Base => TypeOK
    BY DEF Base
  <1> QED BY <1>1, BaseInvariant, PTL

-----------------------------------------------------------------------------
(***************************************************************************)
(* Beacons.                                                                *)
(***************************************************************************)
Reports(c, d) == c.pc \in {"beacon", "forget"} /\ c.item.dest = d

Reported == \A d \in Dests : IsBeacon(window[d]) => \E t \in Threads : Reports(call[t], d)

LEMMA ReportedMeans == Base => (BeaconsReported <=> Reported)
  BY DEF Base, BeaconsReported, Reported, Reports, IsBeacon, Working

(* It is enough that a thread that ceases to report a destination leaves no*)
(* beacon behind, and one that makes a beacon of a window reports it.      *)
LEMMA ReportedStays ==
  ASSUME Reported, NEW t \in Threads, \A u \in Threads : u # t => call'[u] = call[u],
         \A d \in Dests : IsBeacon(window'[d]) =>
           Reports(call'[t], d) \/ (IsBeacon(window[d]) /\ ~Reports(call[t], d))
  PROVE  Reported'
  <1> SUFFICES ASSUME NEW d \in Dests, IsBeacon(window'[d])
               PROVE  \E u \in Threads : Reports(call'[u], d)
    BY DEF Reported, IsBeacon, Regular, Interval
  <1>1. CASE Reports(call'[t], d)
    BY <1>1
  <1>2. CASE IsBeacon(window[d]) /\ ~Reports(call[t], d)
    <2>1. PICK u \in Threads : Reports(call[u], d)
      BY <1>2 DEF Reported
    <2> QED BY <1>2, <2>1
  <1> QED BY <1>1, <1>2

LEMMA ReportedNext ==
  ASSUME Base, Reported, [Next]_vars
  PROVE  Reported'
  <1>1. TypeOK /\ window \in [Dests -> Seq(Entries)]
    BY Typed DEF Base, Logs
  <1>2. ASSUME NEW t \in Threads, NEW pc, GoesOn(t, pc), window' = window,
               call[t].pc \in {"beacon", "forget"} => pc \in {"beacon", "forget"}
        PROVE  Reported'
    <2>1. /\ call'[t].pc = pc /\ call'[t].item = call[t].item
          /\ \A u \in Threads : u # t => call'[u] = call[u]
      BY <1>2 DEF GoesOn, Goes, Turns
    <2> QED BY <1>2, <2>1, ReportedStays DEF Reports
  <1>3. ASSUME NEW t \in Threads, NEW f \in Flows, NEW delay \in 0..MaxDelay, Observe(t, f, delay)
        PROVE  Reported'
    <2> DEFINE w == Retain(Retainable(t, f, delay))
    <2>1. /\ call[t].pc = "idle" /\ window' = [window EXCEPT ![f.dest] = w]
          /\ IsBeacon(w) <=> call'[t].pc = "beacon"
          /\ call'[t].item = f /\ \A u \in Threads : u # t => call'[u] = call[u]
      BY <1>1, <1>3, ObserveTurns DEF Turns
    <2> HIDE DEF w
    <2>2. \A d \in Dests : window'[d] = IF d = f.dest THEN w ELSE window[d]
      BY <1>1, <2>1
    <2>3. ASSUME NEW d \in Dests, IsBeacon(window'[d])
          PROVE  Reports(call'[t], d) \/ (IsBeacon(window[d]) /\ ~Reports(call[t], d))
      BY <2>1, <2>2, <2>3 DEF Reports
    <2> QED BY <2>1, <2>3, ReportedStays
  <1>4. ASSUME NEW t \in Threads, NEW alarm \in Queries, Query(t, alarm)
        PROVE  Reported'
    <2>1. /\ call[t].pc = "idle" /\ window' = window
          /\ \A u \in Threads : u # t => call'[u] = call[u]
      BY <1>1, <1>4, QueryTurns DEF Turns
    <2> QED BY <2>1, ReportedStays DEF Reports
  <1>5. ASSUME NEW t \in Threads, Forget(t)
        PROVE  Reported'
    <2>1. /\ window' = [window EXCEPT ![call[t].item.dest] = <<>>]
          /\ \A u \in Threads : u # t => call'[u] = call[u]
      BY <1>1, <1>5, StepsGoOn DEF Forget, GoesOn, Goes, Turns
    <2>2. ~IsBeacon(<<>>)
      BY ThresholdAssumption DEF IsBeacon
    <2>3. \A d \in Dests : IsBeacon(window'[d]) => window'[d] = window[d] /\ call[t].item.dest # d
      BY <1>1, <2>1, <2>2
    <2>4. \A d \in Dests : IsBeacon(window'[d]) => IsBeacon(window[d]) /\ ~Reports(call[t], d)
      BY <2>3 DEF Reports
    <2> QED BY <2>1, <2>4, ReportedStays
  <1>6. ASSUME NEW t \in Threads, Beacon(t)
        PROVE  Reported'
    BY <1>1, <1>2, <1>6, StepsGoOn DEF Beacon
  <1>7. ASSUME NEW t \in Threads, Scan(t)
        PROVE  Reported'
    BY <1>1, <1>2, <1>7, StepsGoOn DEF Scan, At
  <1>8. ASSUME NEW t \in Threads, AnnounceScan(t)
        PROVE  Reported'
    BY <1>1, <1>2, <1>8, StepsGoOn DEF AnnounceScan, At
  <1>9. ASSUME NEW t \in Threads, Alarm(t)
        PROVE  Reported'
    BY <1>1, <1>2, <1>9, StepsGoOn DEF Alarm, At
  <1>10. ASSUME NEW t \in Threads, Store(t)
         PROVE  Reported'
    <2>1. /\ call[t].pc = "store" /\ window' = window
          /\ \A u \in Threads : u # t => call'[u] = call[u]
      BY <1>1, <1>10, StoreTurns DEF Turns, Store, At
    <2> QED BY <2>1, ReportedStays DEF Reports
  <1>11. ASSUME Tick \/ UNCHANGED vars
         PROVE  Reported'
    BY <1>11 DEF Tick, vars, Reported
  <1> QED
    BY <1>3, <1>4, <1>5, <1>6, <1>7, <1>8, <1>9, <1>10, <1>11 DEF Next, Continue

(* No beacon goes unreported: a window with enough connections at regular  *)
(* intervals is in the hands of a thread that reports it, however many     *)
(* threads push to and remove from the windows (analyze_beaconing).        *)
THEOREM BeaconsReportedHolds == Spec => []BeaconsReported
  <1>1. Init => Reported
    <2>1. ~IsBeacon(<<>>)
      BY ThresholdAssumption DEF IsBeacon
    <2> QED BY <2>1 DEF Init, Reported
  <1>2. Base /\ Reported /\ [Next]_vars => Reported'
    BY ReportedNext
  <1>3. Base /\ Reported => BeaconsReported
    BY ReportedMeans
  <1> QED BY <1>1, <1>2, <1>3, BaseInvariant, PTL DEF Spec

-----------------------------------------------------------------------------
(***************************************************************************)
(* What is in the windows.                                                 *)
(***************************************************************************)
HeldIn(w) == {w[k].of : k \in 1..Len(w)}

(* What an observation leaves in a window: what was in it and is recent,   *)
(* and the flow itself, if it is.                                          *)
LEMMA ObserveHolds ==
  ASSUME Base, NEW t \in Threads, NEW f \in Flows, NEW delay \in 0..MaxDelay, Observe(t, f, delay)
  PROVE  /\ \A d \in Dests : HeldIn(window'[d]) \subseteq HeldIn(window[d]) \cup {Len(seen) + 1}
         /\ \A d \in Dests : \A n \in HeldIn(window[d]) :
              seen[n].at >= now - Window => n \in HeldIn(window'[d])
         /\ now - delay >= now - Window => Len(seen) + 1 \in HeldIn(window'[f.dest])
  <1>0. /\ Retainable(t, f, delay) \in Seq(Entries)
        /\ window' = [window EXCEPT ![f.dest] = Retain(Retainable(t, f, delay))]
    <2>1. TypeOK
      BY DEF Base
    <2> QED BY <2>1, ObserveTurns
  <1> DEFINE N == Len(seen) + 1
             w == window[f.dest]
             y == [of |-> N, at |-> now - delay]
             a == Append(w, y)
             r == Retain(a)
  <1>1. /\ a \in Seq(Entries) /\ window' = [window EXCEPT ![f.dest] = r]
        /\ f.dest \in Dests /\ window \in [Dests -> Seq(Entries)]
    <2>1. TypeOK /\ f.dest \in Dests /\ window \in [Dests -> Seq(Entries)]
      BY ItemFacts, Typed DEF Base, Logs
    <2>2. a = Retainable(t, f, delay)
      BY DEF Retainable
    <2> HIDE DEF a
    <2> QED BY <1>0, <2>1, <2>2
  <1>2. /\ Len(w) \in Nat /\ Len(a) = Len(w) + 1 /\ a[Len(w) + 1] = y
        /\ \A i \in 1..Len(w) : i \in 1..Len(a) /\ a[i] = w[i]
        /\ \A i \in 1..Len(a) : i \in 1..Len(w) \/ i = Len(w) + 1
        /\ Len(w) + 1 \in 1..Len(a)
    <2>1. w \in Seq(Entries) /\ y \in Entries
      <3>1. N \in Nat /\ now - delay \in Int
        BY Typed, BoundAssumption DEF Base, Logs
      <3> QED BY <1>1, <3>1 DEF Entries
    <2> HIDE DEF w, y
    <2> QED BY <2>1
  <1>3. y.of = N /\ y.at = now - delay
    OBVIOUS
  <1>4. /\ \A k \in 1..Len(r) : \E i \in 1..Len(a) : r[k] = a[i]
        /\ \A i \in 1..Len(a) : Recent(a[i]) => \E k \in 1..Len(r) : r[k] = a[i]
    BY <1>1, Retained
  <1>5. Known(w, seen)
    BY <1>1 DEF Base
  <1>6. \A d \in Dests : window'[d] = IF d = f.dest THEN r ELSE window[d]
    BY <1>1
  <1> HIDE DEF N, w, y, a, r
  <1>7. HeldIn(r) \subseteq HeldIn(w) \cup {N}
    BY <1>2, <1>3, <1>4 DEF HeldIn
  <1>8. ASSUME NEW n \in HeldIn(w), seen[n].at >= now - Window
        PROVE  n \in HeldIn(r)
    <2>1. PICK i \in 1..Len(w) : w[i].of = n
      BY DEF HeldIn
    <2>2. Recent(a[i]) /\ a[i].of = n /\ i \in 1..Len(a)
      BY <1>2, <1>5, <1>8, <2>1 DEF Known, Recent
    <2> QED BY <1>4, <2>2 DEF HeldIn
  <1>9. ASSUME now - delay >= now - Window PROVE N \in HeldIn(r)
    BY <1>2, <1>3, <1>4, <1>9 DEF HeldIn, Recent
  <1> QED BY <1>1, <1>6, <1>7, <1>8, <1>9 DEF N, w

Finding(e) == e.kind = "BeaconingDetected"

(* What is in a finding is out of the window again, unless the thread that *)
(* announced it has yet to see to that.                                    *)
OnceFor(e, s, ws, cs) ==
  Finding(e) =>
    \/ \E t \in Threads : cs[t].pc = "forget" /\ cs[t].of = e.by
    \/ HeldIn(e.of) \cap HeldIn(ws[s[e.by].item.dest]) = {}

Once == \A k \in 1..Len(feed) : OnceFor(feed[k], seen, window, call)

LEMMA OnceMeans == Once <=> ReportedOnce
  <1>1. \A d : Held(d) = HeldIn(window[d])
    BY DEF Held, HeldIn
  <1>2. \A k \in 1..Len(feed) : {feed[k].of[j].of : j \in 1..Len(feed[k].of)} = HeldIn(feed[k].of)
    BY DEF HeldIn
  <1> QED BY <1>1, <1>2 DEF Once, OnceFor, Finding, ReportedOnce, Findings, Working

LEMMA OnceStays ==
  ASSUME Base, [Next]_vars, NEW e \in Marks, MarkFits(e, seen), OnceFor(e, seen, window, call)
  PROVE  OnceFor(e, seen', window', call')
  <1> SUFFICES ASSUME Finding(e) PROVE OnceFor(e, seen', window', call')
    BY DEF OnceFor
  <1> DEFINE d == seen[e.by].item.dest
  <1>1. /\ TypeOK /\ window \in [Dests -> Seq(Entries)] /\ seen \in Seq(Sightings)
    BY Typed DEF Base, Logs
  <1>2. d \in Dests /\ Known(e.of, seen)
    BY ItemFacts DEF MarkFits, Finding
  <1>13. \A x \in Sightings : seen' = Append(seen, x) => seen'[e.by] = seen[e.by]
    BY <1>1, KnownStays DEF MarkFits
  <1>3. ASSUME NEW t \in Threads, call[t].pc # "forget", \A u \in Threads : u # t => call'[u] = call[u],
               seen' = seen, window' = window
        PROVE  OnceFor(e, seen', window', call')
    BY <1>3 DEF OnceFor
  <1>4. ASSUME NEW t \in Threads, NEW f \in Flows, NEW delay \in 0..MaxDelay, Observe(t, f, delay)
        PROVE  OnceFor(e, seen', window', call')
    <2>1. /\ call[t].pc = "idle" /\ seen'[e.by] = seen[e.by]
          /\ \A u \in Threads : u # t => call'[u] = call[u]
      BY <1>1, <1>4, <1>13, ObserveTurns DEF Turns
    <2>2. HeldIn(window'[d]) \subseteq HeldIn(window[d]) \cup {Len(seen) + 1}
      BY <1>2, <1>4, ObserveHolds
    <2>3. Len(seen) + 1 \notin HeldIn(e.of)
      <3>1. Len(seen) \in Nat
        BY <1>1
      <3>2. \A n \in HeldIn(e.of) : n \in 1..Len(seen)
        BY <1>2 DEF Known, HeldIn
      <3> QED BY <3>1, <3>2
    <2> QED BY <2>1, <2>2, <2>3 DEF OnceFor
  <1>5. ASSUME NEW t \in Threads, NEW alarm \in Queries, Query(t, alarm)
        PROVE  OnceFor(e, seen', window', call')
    <2>1. /\ call[t].pc = "idle" /\ seen'[e.by] = seen[e.by] /\ window' = window
          /\ \A u \in Threads : u # t => call'[u] = call[u]
      BY <1>1, <1>5, <1>13, QueryTurns DEF Turns
    <2> QED BY <2>1 DEF OnceFor
  <1>6. ASSUME NEW t \in Threads, Forget(t)
        PROVE  OnceFor(e, seen', window', call')
    <2>1. /\ window' = [window EXCEPT ![call[t].item.dest] = <<>>] /\ seen' = seen
          /\ call[t].pc = "forget"
          /\ \A u \in Threads : u # t => call'[u] = call[u]
      BY <1>1, <1>6, StepsGoOn DEF Forget, GoesOn, Goes, Turns, At
    <2>2. HeldIn(window'[d]) \subseteq HeldIn(window[d])
      <3> HIDE DEF d
      <3>1. window'[d] = window[d] \/ window'[d] = <<>>
        BY <1>1, <1>2, <2>1
      <3> QED BY <3>1 DEF HeldIn
    <2>3. ASSUME call[t].of = e.by PROVE HeldIn(window'[d]) = {}
      <3>1. d = call[t].item.dest
        BY <2>1, <2>3 DEF Base, CallFits
      <3>2. window'[d] = <<>>
        BY <1>1, <1>2, <2>1, <3>1
      <3> QED BY <3>2 DEF HeldIn
    <2> QED BY <2>1, <2>2, <2>3 DEF OnceFor
  <1>7. ASSUME NEW t \in Threads, Beacon(t)
        PROVE  OnceFor(e, seen', window', call')
    BY <1>1, <1>3, <1>7, StepsGoOn DEF Beacon, At, GoesOn, Goes, Turns
  <1>8. ASSUME NEW t \in Threads, Scan(t)
        PROVE  OnceFor(e, seen', window', call')
    BY <1>1, <1>3, <1>8, StepsGoOn DEF Scan, At, GoesOn, Goes, Turns
  <1>9. ASSUME NEW t \in Threads, AnnounceScan(t)
        PROVE  OnceFor(e, seen', window', call')
    BY <1>1, <1>3, <1>9, StepsGoOn DEF AnnounceScan, At, GoesOn, Goes, Turns
  <1>10. ASSUME NEW t \in Threads, Alarm(t)
         PROVE  OnceFor(e, seen', window', call')
    BY <1>1, <1>3, <1>10, StepsGoOn DEF Alarm, At, GoesOn, Goes, Turns
  <1>11. ASSUME NEW t \in Threads, Store(t)
         PROVE  OnceFor(e, seen', window', call')
    BY <1>1, <1>3, <1>11, StoreTurns DEF Store, At, Turns
  <1>12. ASSUME Tick \/ UNCHANGED vars
         PROVE  OnceFor(e, seen', window', call')
    BY <1>12 DEF Tick, vars, OnceFor
  <1> QED
    BY <1>4, <1>5, <1>6, <1>7, <1>8, <1>9, <1>10, <1>11, <1>12 DEF Next, Continue

(* What a step announces: a thread whose finding it is goes on to forget.  *)
LEMMA FeedGrows ==
  ASSUME Base, [Next]_vars
  PROVE  \/ feed' = feed
         \/ \E t \in Threads : \E e \in Marks :
              /\ feed' = Append(feed, e) /\ e.by = call[t].of
              /\ Finding(e) <=> Beacon(t)
  <1>1. ASSUME NEW t \in Threads, Beacon(t) \/ AnnounceScan(t) \/ Alarm(t)
        PROVE  \E e \in Marks : /\ feed' = Append(feed, e) /\ e.by = call[t].of
                                /\ Finding(e) <=> Beacon(t)
    <2>1. call[t] \in Calls /\ CallFits(call[t], seen) /\ <<>> \in Seq(Entries) /\ Known(<<>>, seen)
      BY Typed DEF Base, Logs, Known
    <2>2. CASE Beacon(t)
      <3>1. call[t].pc = "beacon" /\ feed' = Append(feed, Event("BeaconingDetected", t, call[t].found))
        BY <2>2 DEF Beacon, At, Emit
      <3>2. Event("BeaconingDetected", t, call[t].found) \in Marks
        BY <2>1, <3>1, EventFits DEF CallFits, Calls
      <3> QED BY <2>2, <3>1, <3>2 DEF Event, Finding
    <2>3. CASE AnnounceScan(t)
      <3>1. /\ call[t].pc = "scanned" /\ feed' = Append(feed, Event("port_scan", t, <<>>))
            /\ ~Beacon(t)
        BY <2>3 DEF AnnounceScan, Beacon, At, Emit
      <3>2. Event("port_scan", t, <<>>) \in Marks
        BY <2>1, <3>1, EventFits DEF CallFits
      <3> QED BY <3>1, <3>2 DEF Event, Finding
    <2>4. CASE Alarm(t)
      <3>1. /\ call[t].pc = "alarm" /\ feed' = Append(feed, Event(call[t].item.alarm, t, <<>>))
            /\ ~Beacon(t)
        BY <2>4 DEF Alarm, Beacon, At, Emit
      <3>2. call[t].item.alarm \in Alarms \ {"none"}
        BY <2>1, <3>1, ItemFacts DEF CallFits, Calls
      <3>3. call[t].item.alarm \notin {"BeaconingDetected", "port_scan"}
        BY <3>2 DEF Alarms
      <3>4. Event(call[t].item.alarm, t, <<>>) \in Marks
        BY <2>1, <3>1, <3>2, <3>3, EventFits
      <3> QED BY <3>1, <3>3, <3>4 DEF Event, Finding
    <2> QED BY <1>1, <2>2, <2>3, <2>4
  <1>2. \/ feed' = feed
        \/ \E t \in Threads : Beacon(t) \/ AnnounceScan(t) \/ Alarm(t)
    BY DEF Next, Continue, Observe, Query, Forget, Scan, Store, Tick, vars
  <1> QED BY <1>1, <1>2

LEMMA OnceNext ==
  ASSUME Base, Once, [Next]_vars
  PROVE  Once'
  <1>1. feed \in Seq(Marks)
    BY Typed DEF Base, Logs
  <1>2. ASSUME NEW k \in 1..Len(feed) PROVE OnceFor(feed[k], seen', window', call')
    <2>1. feed[k] \in Marks
      BY <1>1
    <2> QED BY <2>1, OnceStays DEF Base, Once
  <1>3. CASE feed' = feed
    BY <1>2, <1>3 DEF Once
  <1>4. ASSUME NEW t \in Threads, NEW e \in Marks, feed' = Append(feed, e), e.by = call[t].of,
               Finding(e) => Beacon(t)
        PROVE  Once'
    <2>1. ASSUME Finding(e) PROVE call'[t].pc = "forget" /\ call'[t].of = e.by
      BY <1>4, <2>1, StepsGoOn DEF Base, GoesOn, Goes, Turns
    <2>2. OnceFor(e, seen', window', call')
      BY <2>1 DEF OnceFor
    <2>3. \A k \in 1..Len(feed') : feed'[k] = e \/ (k \in 1..Len(feed) /\ feed'[k] = feed[k])
      BY <1>1, <1>4
    <2> QED BY <1>2, <2>2, <2>3 DEF Once
  <1> QED BY <1>3, <1>4, FeedGrows

(* No connection is reported twice, except by calls that overlap: once the *)
(* call that announced it has removed the window, no window has it, however*)
(* many threads push to and remove from the windows (analyze_beaconing).   *)
THEOREM ReportedOnceHolds == Spec => []ReportedOnce
  <1>1. Init => Once
    BY DEF Init, Once
  <1>2. Base /\ Once /\ [Next]_vars => Once'
    BY OnceNext
  <1>3. Once => ReportedOnce
    BY OnceMeans
  <1> QED BY <1>1, <1>2, <1>3, BaseInvariant, PTL DEF Spec

-----------------------------------------------------------------------------
(***************************************************************************)
(* What has left the windows.                                              *)
(***************************************************************************)
FoundOf(f, s, d)  == \E k \in 1..Len(f) : Finding(f[k]) /\ s[f[k].by].item.dest = d
RecentOf(s, d, h) == {n \in 1..Len(s) : s[n].item \in Flows /\ s[n].item.dest = d /\ s[n].at >= h}

(* A thread is about to remove a window only if it has announced a finding.*)
Announced(c, f) == c.pc = "forget" => \E k \in 1..Len(f) : Finding(f[k]) /\ f[k].by = c.of

Complete(d) == FoundOf(feed, seen, d) \/ RecentOf(seen, d, now - Window) \subseteq HeldIn(window[d])

Remembered ==
  /\ \A t \in Threads : Announced(call[t], feed)
  /\ \A d \in Dests : Complete(d)

LEMMA RememberedMeans == Remembered => \A d \in Dests : Kept(d)
  <1>1. \A d : Held(d) = HeldIn(window[d])
    BY DEF Held, HeldIn
  <1>2. \A d : FoundOf(feed, seen, d) <=> \E k \in Findings : seen[feed[k].by].item.dest = d
    BY DEF FoundOf, Finding, Findings
  <1> QED BY <1>1, <1>2 DEF Remembered, Complete, RecentOf, Kept, FlowsOf, IsFlow

LEMMA AnnouncedNext ==
  ASSUME Base, \A t \in Threads : Announced(call[t], feed), [Next]_vars
  PROVE  \A t \in Threads : Announced(call'[t], feed')
  <1>1. TypeOK /\ feed \in Seq(Marks)
    BY Typed DEF Base, Logs
  <1>2. Len(feed) <= Len(feed') /\ \A k \in 1..Len(feed) : k \in 1..Len(feed') /\ feed'[k] = feed[k]
    <2>1. feed' = feed \/ \E e \in Marks : feed' = Append(feed, e)
      BY FeedGrows
    <2> QED BY <1>1, <2>1
  <1>3. \A t \in Threads : call'[t] = call[t] => Announced(call'[t], feed')
    BY <1>2 DEF Announced
  <1>4. ASSUME NEW t \in Threads, call'[t].pc # "forget", \A u \in Threads : u # t => call'[u] = call[u]
        PROVE  \A u \in Threads : Announced(call'[u], feed')
    BY <1>3, <1>4 DEF Announced
  <1>5. ASSUME NEW t \in Threads, NEW f \in Flows, NEW delay \in 0..MaxDelay, Observe(t, f, delay)
        PROVE  \A u \in Threads : Announced(call'[u], feed')
    <2>1. call'[t].pc # "forget" /\ \A u \in Threads : u # t => call'[u] = call[u]
      BY <1>1, <1>5, ObserveTurns DEF Turns
    <2> QED BY <1>4, <2>1
  <1>6. ASSUME NEW t \in Threads, NEW alarm \in Queries, Query(t, alarm)
        PROVE  \A u \in Threads : Announced(call'[u], feed')
    <2>1. call'[t].pc # "forget" /\ \A u \in Threads : u # t => call'[u] = call[u]
      BY <1>1, <1>6, QueryTurns DEF Turns, AlarmOrStore
    <2> QED BY <1>4, <2>1
  <1>7. ASSUME NEW t \in Threads, Beacon(t)
        PROVE  \A u \in Threads : Announced(call'[u], feed')
    <2>1. PICK e \in Marks : feed' = Append(feed, e) /\ e.by = call[t].of /\ Finding(e)
      <3>1. call[t].pc = "beacon" /\ call[t] \in Calls /\ CallFits(call[t], seen)
        BY <1>7, Typed DEF Beacon, At, Base, Logs
      <3>2. Event("BeaconingDetected", t, call[t].found) \in Marks
        BY <3>1, EventFits DEF CallFits, Calls
      <3> QED BY <1>7, <3>2 DEF Beacon, Emit, Event, Finding
    <2>2. call'[t].of = call[t].of /\ \A u \in Threads : u # t => call'[u] = call[u]
      BY <1>1, <1>7, StepsGoOn DEF GoesOn, Goes, Turns
    <2>3. Len(feed) + 1 \in 1..Len(feed') /\ feed'[Len(feed) + 1] = e
      BY <1>1, <2>1
    <2>4. Announced(call'[t], feed')
      BY <2>1, <2>2, <2>3 DEF Announced
    <2> QED BY <1>3, <2>2, <2>4
  <1>8. ASSUME NEW t \in Threads, Forget(t) \/ Scan(t) \/ AnnounceScan(t) \/ Alarm(t)
        PROVE  \A u \in Threads : Announced(call'[u], feed')
    <2>1. call'[t].pc # "forget" /\ \A u \in Threads : u # t => call'[u] = call[u]
      BY <1>1, <1>8, StepsGoOn DEF GoesOn, Goes, Turns, AlarmOrStore
    <2> QED BY <1>4, <2>1
  <1>9. ASSUME NEW t \in Threads, Store(t)
        PROVE  \A u \in Threads : Announced(call'[u], feed')
    <2>1. call'[t].pc # "forget" /\ \A u \in Threads : u # t => call'[u] = call[u]
      BY <1>1, <1>9, StoreTurns DEF Turns
    <2> QED BY <1>4, <2>1
  <1>10. ASSUME Tick \/ UNCHANGED vars
         PROVE  \A u \in Threads : Announced(call'[u], feed')
    BY <1>3, <1>10 DEF Tick, vars
  <1> QED
    BY <1>5, <1>6, <1>7, <1>8, <1>9, <1>10 DEF Next, Continue

LEMMA CompleteNext ==
  ASSUME Base, Remembered, [Next]_vars, NEW d \in Dests
  PROVE  FoundOf(feed', seen', d) \/ RecentOf(seen', d, now' - Window) \subseteq HeldIn(window'[d])
  <1>1. /\ TypeOK /\ window \in [Dests -> Seq(Entries)] /\ seen \in Seq(Sightings)
        /\ feed \in Seq(Marks) /\ now \in Nat /\ Len(seen) \in Nat
    BY Typed DEF Base, Logs
  <1>2. ASSUME NEW x \in Sightings, seen' = Append(seen, x)
        PROVE  /\ \A n \in 1..Len(seen) : seen'[n] = seen[n]
               /\ seen'[Len(seen) + 1] = x
               /\ \A n \in 1..Len(seen') : n \in 1..Len(seen) \/ n = Len(seen) + 1
    BY <1>1, <1>2
  <1>3. ASSUME NEW x \in Sightings, seen' = seen \/ seen' = Append(seen, x), FoundOf(feed, seen, d)
        PROVE  FoundOf(feed', seen', d)
    <2>1. PICK k \in 1..Len(feed) : Finding(feed[k]) /\ seen[feed[k].by].item.dest = d
      BY <1>3 DEF FoundOf
    <2>2. feed[k].by \in 1..Len(seen)
      BY DEF Base, MarkFits
    <2>3. seen'[feed[k].by] = seen[feed[k].by]
      BY <1>2, <1>3, <2>2
    <2>4. k \in 1..Len(feed') /\ feed'[k] = feed[k]
      <3>1. feed' = feed \/ \E e \in Marks : feed' = Append(feed, e)
        BY FeedGrows
      <3> QED BY <1>1, <3>1
    <2> QED BY <2>1, <2>3, <2>4 DEF FoundOf
  <1>4. ASSUME seen' = seen, now' = now, window'[d] = window[d]
        PROVE  FoundOf(feed', seen', d) \/ RecentOf(seen', d, now' - Window) \subseteq HeldIn(window'[d])
    <2>1. FoundOf(feed, seen, d) => FoundOf(feed', seen', d)
      <3>1. ASSUME NEW n \in 1..Len(seen) PROVE seen[n] \in Sightings
        BY <1>1
      <3> QED BY <1>3, <1>4, <3>1 DEF FoundOf, Base, MarkFits
    <2> QED BY <1>4, <2>1 DEF Remembered, Complete
  <1>5. ASSUME NEW t \in Threads, NEW f \in Flows, NEW delay \in 0..MaxDelay, Observe(t, f, delay)
        PROVE  FoundOf(feed', seen', d) \/ RecentOf(seen', d, now' - Window) \subseteq HeldIn(window'[d])
    <2> DEFINE x == [item |-> f, at |-> now - delay]
    <2>1. x \in Sightings /\ seen' = Append(seen, x) /\ now' = now
      BY <1>1, <1>5, ObserveTurns
    <2>2. x.item = f /\ x.at = now - delay
      OBVIOUS
    <2> HIDE DEF x
    <2>3. CASE FoundOf(feed, seen, d)
      BY <1>3, <2>1, <2>3
    <2>4. CASE RecentOf(seen, d, now - Window) \subseteq HeldIn(window[d])
      <3> SUFFICES ASSUME NEW n \in RecentOf(seen', d, now - Window)
                   PROVE  n \in HeldIn(window'[d])
        BY <2>1
      <3>1. CASE n \in 1..Len(seen)
        <4>1. n \in RecentOf(seen, d, now - Window)
          BY <1>2, <2>1, <3>1 DEF RecentOf
        <4> QED BY <1>5, <2>4, <4>1, ObserveHolds DEF RecentOf
      <3>2. CASE n = Len(seen) + 1
        <4>1. f.dest = d /\ now - delay >= now - Window
          BY <1>2, <2>1, <2>2, <3>2 DEF RecentOf
        <4> QED BY <1>5, <3>2, <4>1, ObserveHolds
      <3> QED BY <1>2, <2>1, <3>1, <3>2 DEF RecentOf
    <2> QED BY <2>3, <2>4 DEF Remembered, Complete
  <1>6. ASSUME NEW t \in Threads, NEW alarm \in Queries, Query(t, alarm)
        PROVE  FoundOf(feed', seen', d) \/ RecentOf(seen', d, now' - Window) \subseteq HeldIn(window'[d])
    <2> DEFINE x == [item |-> [alarm |-> alarm], at |-> now]
    <2>1. x \in Sightings /\ seen' = Append(seen, x) /\ now' = now /\ window' = window
      BY <1>1, <1>6, QueryTurns
    <2>2. x.item \notin Flows
      BY ItemFacts
    <2> HIDE DEF x
    <2>3. RecentOf(seen', d, now' - Window) \subseteq RecentOf(seen, d, now - Window)
      BY <1>2, <2>1, <2>2 DEF RecentOf
    <2> QED BY <1>3, <2>1, <2>3 DEF Remembered, Complete
  <1>7. ASSUME NEW t \in Threads, Forget(t)
        PROVE  FoundOf(feed', seen', d) \/ RecentOf(seen', d, now' - Window) \subseteq HeldIn(window'[d])
    <2>1. /\ window' = [window EXCEPT ![call[t].item.dest] = <<>>] /\ seen' = seen /\ now' = now
          /\ feed' = feed /\ call[t].pc = "forget"
      BY <1>7 DEF Forget, At
    <2>2. CASE call[t].item.dest # d
      <3>1. window'[d] = window[d]
        BY <1>1, <2>1, <2>2
      <3> QED BY <1>4, <2>1, <3>1
    <2>3. CASE call[t].item.dest = d
      <3>1. PICK k \in 1..Len(feed) : Finding(feed[k]) /\ feed[k].by = call[t].of
        BY <2>1 DEF Remembered, Announced
      <3>2. seen[feed[k].by].item = call[t].item
        BY <2>1, <3>1 DEF Base, CallFits
      <3> QED BY <2>1, <2>3, <3>1, <3>2 DEF FoundOf
    <2> QED BY <2>2, <2>3
  <1>8. ASSUME NEW t \in Threads, Beacon(t) \/ Scan(t) \/ AnnounceScan(t) \/ Alarm(t) \/ Store(t)
        PROVE  FoundOf(feed', seen', d) \/ RecentOf(seen', d, now' - Window) \subseteq HeldIn(window'[d])
    <2>1. seen' = seen /\ now' = now /\ window' = window
      BY <1>8 DEF Beacon, Scan, AnnounceScan, Alarm, Store
    <2> QED BY <1>4, <2>1
  <1>9. ASSUME Tick
        PROVE  FoundOf(feed', seen', d) \/ RecentOf(seen', d, now' - Window) \subseteq HeldIn(window'[d])
    <2>1. seen' = seen /\ feed' = feed /\ window' = window /\ now' = now + 1
      BY <1>9 DEF Tick
    <2>2. Window \in Nat /\ \A n \in 1..Len(seen) : seen[n].at \in Int
      <3>1. \A n \in 1..Len(seen) : seen[n] \in Sightings
        BY <1>1
      <3> QED BY <3>1, ThresholdAssumption DEF Sightings
    <2>3. RecentOf(seen, d, now' - Window) \subseteq RecentOf(seen, d, now - Window)
      BY <1>1, <2>1, <2>2 DEF RecentOf
    <2> QED BY <2>1, <2>3 DEF Remembered, Complete
  <1>10. ASSUME UNCHANGED vars
         PROVE  FoundOf(feed', seen', d) \/ RecentOf(seen', d, now' - Window) \subseteq HeldIn(window'[d])
    BY <1>4, <1>10 DEF vars
  <1> QED
    BY <1>5, <1>6, <1>7, <1>8, <1>9, <1>10 DEF Next, Continue

(* A thread that is about to report, or to remove a window, has found what *)
(* was in it up to its own connection: the rest came in since.             *)
FoundAll(c, ws) ==
  c.pc \in {"beacon", "forget"} =>
    \A n \in HeldIn(ws[c.item.dest]) : n <= c.of => n \in HeldIn(c.found)
FindersKnow == \A t \in Threads : FoundAll(call[t], window)

LEMMA FindersKnowNext ==
  ASSUME Base, FindersKnow, [Next]_vars
  PROVE  FindersKnow'
  <1>1. /\ TypeOK /\ window \in [Dests -> Seq(Entries)] /\ call \in [Threads -> Calls]
        /\ Len(seen) \in Nat
    BY Typed DEF Base, Logs
  <1>2. \A t \in Threads : call[t].pc \in {"beacon", "forget"} =>
          call[t].of \in 1..Len(seen) /\ call[t].item.dest \in Dests
    BY ItemFacts DEF Base, CallFits
  <1>3. ASSUME \A d \in Dests : HeldIn(window'[d]) \subseteq HeldIn(window[d]),
               NEW t \in Threads, \A u \in Threads : u # t => call'[u] = call[u],
               call'[t].pc \in {"beacon", "forget"} =>
                 /\ call[t].pc \in {"beacon", "forget"} /\ call'[t].of = call[t].of
                 /\ call'[t].item = call[t].item /\ call'[t].found = call[t].found
        PROVE  FindersKnow'
    <2> SUFFICES ASSUME NEW u \in Threads PROVE FoundAll(call'[u], window')
      BY DEF FindersKnow
    <2>1. CASE u = t
      BY <1>2, <1>3, <2>1 DEF FindersKnow, FoundAll
    <2>2. CASE u # t
      BY <1>2, <1>3, <2>2 DEF FindersKnow, FoundAll
    <2> QED BY <2>1, <2>2
  <1>4. ASSUME NEW t \in Threads, NEW f \in Flows, NEW delay \in 0..MaxDelay, Observe(t, f, delay)
        PROVE  FindersKnow'
    <2> DEFINE r == Retain(Retainable(t, f, delay))
    <2>0. f.dest \in Dests
      BY ItemFacts
    <2>1. /\ window' = [window EXCEPT ![f.dest] = r]
          /\ Turns(t, call'[t].pc, Len(seen) + 1, f, r)
      <3>1. TypeOK
        BY <1>1
      <3> QED BY <1>4, <3>1, ObserveTurns
    <2> HIDE DEF r
    <2>2. call'[t].item = f /\ call'[t].found = r /\ \A u \in Threads : u # t => call'[u] = call[u]
      BY <2>1 DEF Turns
    <2>3. window'[f.dest] = r
      BY <1>1, <2>0, <2>1
    <2>4. FoundAll(call'[t], window')
      BY <2>2, <2>3 DEF FoundAll
    <2>5. ASSUME NEW u \in Threads, u # t, call[u].pc \in {"beacon", "forget"},
                 NEW n \in HeldIn(window'[call[u].item.dest]), n <= call[u].of
          PROVE  n \in HeldIn(call[u].found)
      <3>1. call[u].of \in 1..Len(seen) /\ call[u].item.dest \in Dests
        BY <1>2, <2>5
      <3>2. n \in HeldIn(window[call[u].item.dest]) \/ n = Len(seen) + 1
        BY <1>4, <2>5, <3>1, ObserveHolds
      <3>3. n # Len(seen) + 1
        BY <1>1, <2>5, <3>1
      <3> QED BY <2>5, <3>2, <3>3 DEF FindersKnow, FoundAll
    <2>6. \A u \in Threads : u # t => FoundAll(call'[u], window')
      BY <2>2, <2>5 DEF FoundAll
    <2> QED BY <2>4, <2>6 DEF FindersKnow
  <1>5. ASSUME NEW t \in Threads, NEW alarm \in Queries, Query(t, alarm)
        PROVE  FindersKnow'
    <2>1. /\ window' = window /\ call'[t].pc \in {"alarm", "store"}
          /\ \A u \in Threads : u # t => call'[u] = call[u]
      BY <1>1, <1>5, QueryTurns DEF Turns, AlarmOrStore
    <2> QED BY <1>3, <2>1
  <1>6. ASSUME NEW t \in Threads, Beacon(t)
        PROVE  FindersKnow'
    <2>1. window' = window /\ call[t].pc = "beacon"
      BY <1>6 DEF Beacon, At
    <2>2. Goes(t, "forget")
      BY <1>1, <1>6, StepsGoOn DEF GoesOn
    <2> QED BY <1>3, <2>1, <2>2 DEF Goes, Turns
  <1>7. ASSUME NEW t \in Threads, Forget(t)
        PROVE  FindersKnow'
    <2>1. window' = [window EXCEPT ![call[t].item.dest] = <<>>]
      BY <1>7 DEF Forget
    <2>2. HeldIn(<<>>) = {}
      BY DEF HeldIn
    <2>3. \A d \in Dests : HeldIn(window'[d]) \subseteq HeldIn(window[d])
      BY <1>1, <2>1, <2>2
    <2>4. call'[t].pc = "scan" /\ \A u \in Threads : u # t => call'[u] = call[u]
      BY <1>1, <1>7, StepsGoOn DEF GoesOn, Goes, Turns
    <2> QED BY <1>3, <2>3, <2>4
  <1>8. ASSUME NEW t \in Threads, Scan(t) \/ AnnounceScan(t) \/ Alarm(t)
        PROVE  FindersKnow'
    <2>1. window' = window
      BY <1>8 DEF Scan, AnnounceScan, Alarm
    <2>2. /\ call'[t].pc \in {"scanned", "alarm", "store"}
          /\ \A u \in Threads : u # t => call'[u] = call[u]
      BY <1>1, <1>8, StepsGoOn DEF GoesOn, Goes, Turns, AlarmOrStore
    <2> QED BY <1>3, <2>1, <2>2
  <1>9. ASSUME NEW t \in Threads, Store(t)
        PROVE  FindersKnow'
    <2>1. window' = window
      BY <1>9 DEF Store
    <2>2. call'[t].pc = "idle" /\ \A u \in Threads : u # t => call'[u] = call[u]
      BY <1>1, <1>9, StoreTurns DEF Turns
    <2> QED BY <1>3, <2>1, <2>2
  <1>10. ASSUME Tick \/ UNCHANGED vars
         PROVE  FindersKnow'
    BY <1>10 DEF Tick, vars, FindersKnow
  <1> QED
    BY <1>4, <1>5, <1>6, <1>7, <1>8, <1>9, <1>10 DEF Next, Continue

(* What a step takes out of a window.                                      *)
LEMMA TakenOut ==
  ASSUME Base, FindersKnow, Next, NEW d \in Dests, NEW n \in Held(d) \ Held(d)'
  PROVE  seen[n].at < now - Window \/ \E t \in Threads : GivenUp(t, d, n)
  <1>1. /\ TypeOK /\ window \in [Dests -> Seq(Entries)] /\ call \in [Threads -> Calls]
        /\ now \in Nat /\ seen \in Seq(Sightings)
    BY Typed DEF Base, Logs
  <1>2. n \in HeldIn(window[d]) /\ n \notin HeldIn(window'[d])
    BY DEF Held, HeldIn
  <1>3. n \in 1..Len(seen) /\ seen[n].at \in Int
    <2>1. Known(window[d], seen)
      BY DEF Base
    <2>2. n \in 1..Len(seen)
      BY <1>2, <2>1 DEF Known, HeldIn
    <2>3. seen[n] \in Sightings
      BY <1>1, <2>2
    <2> QED BY <2>2, <2>3 DEF Sightings
  <1>4. window' # window
    BY <1>2
  <1>5. ASSUME NEW t \in Threads, NEW f \in Flows, NEW delay \in 0..MaxDelay, Observe(t, f, delay)
        PROVE  seen[n].at < now - Window
    <2>1. ~(seen[n].at >= now - Window)
      BY <1>2, <1>5, ObserveHolds
    <2> QED BY <1>1, <1>3, <2>1, ThresholdAssumption
  <1>6. ASSUME NEW t \in Threads, Forget(t)
        PROVE  GivenUp(t, d, n)
    <2>1. /\ call[t].pc = "forget" /\ window' = [window EXCEPT ![call[t].item.dest] = <<>>]
      BY <1>6 DEF Forget, At
    <2>2. call[t].item.dest = d
      BY <1>1, <1>2, <2>1
    <2>3. call'[t].pc # "forget"
      BY <1>1, <1>6, StepsGoOn DEF GoesOn, Goes, Turns
    <2>4. call[t].of \in Nat
      BY <1>1 DEF Calls
    <2>5. n <= call[t].of => n \in HeldIn(call[t].found)
      BY <1>2, <2>1, <2>2 DEF FindersKnow, FoundAll
    <2>6. n > call[t].of \/ n \in HeldIn(call[t].found)
      BY <1>3, <2>4, <2>5
    <2> QED BY <2>1, <2>2, <2>3, <2>6 DEF GivenUp, At, HeldIn
  <1>7. \/ \E t \in Threads, f \in Flows, delay \in 0..MaxDelay : Observe(t, f, delay)
        \/ \E t \in Threads : Forget(t)
    BY <1>4 DEF Next, Continue, Query, Beacon, Scan, AnnounceScan, Alarm, Store, Tick
  <1> QED BY <1>5, <1>6, <1>7

(* No connection is forgotten but for age or for a finding: until a finding*)
(* about a destination is announced its window has every recent flow to it,*)
(* and whatever a step takes out of a window then or later is too old, was *)
(* reported, or came in between the two locks of the call that reported    *)
(* (analyze_beaconing).                                                    *)
THEOREM NothingForgottenHolds == Spec => NothingForgotten
  <1>1. Init => Remembered
    <2>1. ASSUME Init PROVE \A t \in Threads : Announced(call[t], feed)
      BY <2>1 DEF Init, Idle, Announced
    <2>2. ASSUME Init PROVE \A d \in Dests : RecentOf(seen, d, now - Window) = {}
      BY <2>2 DEF Init, RecentOf
    <2> QED BY <2>1, <2>2 DEF Remembered, Complete
  <1>2. Base /\ Remembered /\ [Next]_vars => Remembered'
    BY AnnouncedNext, CompleteNext DEF Remembered, Complete
  <1>3. Remembered => \A d \in Dests : Kept(d)
    BY RememberedMeans
  <1>4. Init => FindersKnow
    BY DEF Init, Idle, FindersKnow, FoundAll
  <1>5. Base /\ FindersKnow /\ [Next]_vars => FindersKnow'
    BY FindersKnowNext
  <1>6. Base /\ FindersKnow /\ [Next]_vars =>
          [\A d \in Dests : \A n \in Held(d) \ Held(d)' :
             seen[n].at < now - Window \/ \E t \in Threads : GivenUp(t, d, n)]_vars
    BY TakenOut
  <1> QED
    BY <1>1, <1>2, <1>3, <1>4, <1>5, <1>6, BaseInvariant, PTL DEF Spec, NothingForgotten

-----------------------------------------------------------------------------
(***************************************************************************)
(* Counting flows, scans and alarms.                                       *)
(***************************************************************************)
AllOf(s, p)   == {n \in 1..Len(s) : s[n].item \in Flows /\ s[n].item.pair = p}
ScansBy(f, N) == {k \in 1..Len(f) : f[k].kind = "port_scan" /\ f[k].by \in N}
Hits(f, a, n) == {j \in 1..Len(f) : f[j].kind = a /\ f[j].by = n}

IsAt(c, pcs, p)      == c.pc \in pcs /\ c.item.pair = p
AllAt(cs, pcs, p)    == {t \in Threads : IsAt(cs[t], pcs, p)}

LEMMA AllOfAppend ==
  ASSUME NEW s \in Seq(Sightings), NEW x \in Sightings, NEW p
  PROVE  /\ Cardinality(AllOf(s, p)) \in Nat
         /\ Cardinality(AllOf(Append(s, x), p))
              = Cardinality(AllOf(s, p)) + (IF x.item \in Flows /\ x.item.pair = p THEN 1 ELSE 0)
  <1> DEFINE V == {y \in Sightings : y.item \in Flows /\ y.item.pair = p}
  <1>1. /\ AllOf(s, p) = Places(s, V) /\ AllOf(Append(s, x), p) = Places(Append(s, x), V)
        /\ x \in V <=> x.item \in Flows /\ x.item.pair = p
    <2>1. \A r \in Seq(Sightings) : AllOf(r, p) = Places(r, V)
      BY DEF AllOf, Places
    <2>2. Append(s, x) \in Seq(Sightings)
      OBVIOUS
    <2>3. x \in V <=> x.item \in Flows /\ x.item.pair = p
      OBVIOUS
    <2> HIDE DEF V
    <2> QED BY <2>1, <2>2, <2>3
  <1> HIDE DEF V
  <1> QED BY <1>1, PlacesAppend, PlacesFinite

LEMMA ScansAppend ==
  ASSUME NEW f \in Seq(Marks), NEW e \in Marks, NEW N
  PROVE  /\ Cardinality(ScansBy(f, N)) \in Nat
         /\ Cardinality(ScansBy(Append(f, e), N))
              = Cardinality(ScansBy(f, N)) + (IF e.kind = "port_scan" /\ e.by \in N THEN 1 ELSE 0)
  <1> DEFINE V == {y \in Marks : y.kind = "port_scan" /\ y.by \in N}
  <1>1. /\ ScansBy(f, N) = Places(f, V) /\ ScansBy(Append(f, e), N) = Places(Append(f, e), V)
        /\ e \in V <=> e.kind = "port_scan" /\ e.by \in N
    <2>1. \A r \in Seq(Marks) : ScansBy(r, N) = Places(r, V)
      BY DEF ScansBy, Places
    <2>2. Append(f, e) \in Seq(Marks)
      OBVIOUS
    <2>3. e \in V <=> e.kind = "port_scan" /\ e.by \in N
      OBVIOUS
    <2> HIDE DEF V
    <2> QED BY <2>1, <2>2, <2>3
  <1> HIDE DEF V
  <1> QED BY <1>1, PlacesAppend, PlacesFinite

LEMMA HitsAppend ==
  ASSUME NEW f \in Seq(Marks), NEW e \in Marks, NEW a, NEW n
  PROVE  /\ Cardinality(Hits(f, a, n)) \in Nat
         /\ Cardinality(Hits(Append(f, e), a, n))
              = Cardinality(Hits(f, a, n)) + (IF e.kind = a /\ e.by = n THEN 1 ELSE 0)
  <1> DEFINE V == {y \in Marks : y.kind = a /\ y.by = n}
  <1>1. /\ Hits(f, a, n) = Places(f, V) /\ Hits(Append(f, e), a, n) = Places(Append(f, e), V)
        /\ e \in V <=> e.kind = a /\ e.by = n
    <2>1. \A r \in Seq(Marks) : Hits(r, a, n) = Places(r, V)
      BY DEF Hits, Places
    <2>2. Append(f, e) \in Seq(Marks)
      OBVIOUS
    <2>3. e \in V <=> e.kind = a /\ e.by = n
      OBVIOUS
    <2> HIDE DEF V
    <2> QED BY <2>1, <2>2, <2>3
  <1> HIDE DEF V
  <1> QED BY <1>1, PlacesAppend, PlacesFinite

LEMMA Moves ==
  ASSUME NEW t \in Threads, \A u \in Threads : u # t => call'[u] = call[u], NEW pcs, NEW p
  PROVE  /\ Cardinality(AllAt(call, pcs, p)) \in Nat /\ Cardinality(AllAt(call', pcs, p)) \in Nat
         /\ Cardinality(AllAt(call', pcs, p)) + (IF IsAt(call[t], pcs, p) THEN 1 ELSE 0)
              = Cardinality(AllAt(call, pcs, p)) + (IF IsAt(call'[t], pcs, p) THEN 1 ELSE 0)
  <1> DEFINE S == AllAt(call, pcs, p)
             T == AllAt(call', pcs, p)
  <1>1. S \subseteq Threads /\ S \ {t} = T \ {t}
    BY DEF AllAt
  <1>2. IsFiniteSet(S)
    BY <1>1, ThreadAssumption, FS_Subset
  <1>3. (t \in S <=> IsAt(call[t], pcs, p)) /\ (t \in T <=> IsAt(call'[t], pcs, p))
    BY DEF AllAt
  <1> HIDE DEF S, T
  <1>4. /\ Cardinality(S) \in Nat /\ Cardinality(T) \in Nat
        /\ Cardinality(T) + (IF t \in S THEN 1 ELSE 0) = Cardinality(S) + (IF t \in T THEN 1 ELSE 0)
    BY <1>1, <1>2, OneOff
  <1> QED BY <1>3, <1>4 DEF S, T

ToCount == {"beacon", "forget", "scan"}
Counted(p) == count[p] + Cardinality(AllAt(call, ToCount, p)) = Cardinality(AllOf(seen, p))
Scanned(p) ==
  Cardinality(ScansBy(feed, AllOf(seen, p))) + Cardinality(AllAt(call, {"scanned"}, p))
    = IF count[p] >= ScanThreshold THEN 1 ELSE 0

(* What was announced is about what had been seen by then.                 *)
LEMMA ScansStay ==
  ASSUME Base, NEW x \in Sightings, NEW p
  PROVE  ScansBy(feed, AllOf(Append(seen, x), p)) = ScansBy(feed, AllOf(seen, p))
  <1>1. seen \in Seq(Sightings)
    BY Typed DEF Base, Logs
  <1>2. \A n \in 1..Len(seen) : n \in 1..Len(Append(seen, x)) /\ Append(seen, x)[n] = seen[n]
    BY <1>1, KnownStays
  <1>3. \A k \in 1..Len(feed) : feed[k].by \in 1..Len(seen)
    BY DEF Base, MarkFits
  <1> QED BY <1>2, <1>3 DEF ScansBy, AllOf

LEMMA CountedNext ==
  ASSUME Base, [Next]_vars, NEW p \in Pairs, Counted(p), Scanned(p)
  PROVE  /\ count'[p] + Cardinality(AllAt(call', ToCount, p)) = Cardinality(AllOf(seen', p))
         /\ Cardinality(ScansBy(feed', AllOf(seen', p))) + Cardinality(AllAt(call', {"scanned"}, p))
              = IF count'[p] >= ScanThreshold THEN 1 ELSE 0
  <1> DEFINE a  == Cardinality(AllAt(call, ToCount, p))
             b  == Cardinality(AllAt(call', ToCount, p))
             c  == Cardinality(AllAt(call, {"scanned"}, p))
             d  == Cardinality(AllAt(call', {"scanned"}, p))
             g  == Cardinality(AllOf(seen, p))
             h  == Cardinality(AllOf(seen', p))
             i  == Cardinality(ScansBy(feed, AllOf(seen, p)))
             j  == Cardinality(ScansBy(feed', AllOf(seen', p)))
             Is(t, pcs)  == IF IsAt(call[t], pcs, p) THEN 1 ELSE 0
             Is2(t, pcs) == IF IsAt(call'[t], pcs, p) THEN 1 ELSE 0
             One(P) == IF P THEN 1 ELSE 0
  <1>1. /\ TypeOK /\ seen \in Seq(Sightings) /\ feed \in Seq(Marks) /\ count \in [Pairs -> Nat]
        /\ \A t \in Threads : call[t] \in Calls /\ CallFits(call[t], seen)
    BY Typed DEF Base, Logs
  <1>2. /\ count[p] \in Nat /\ ScanThreshold \in Nat \ {0}
        /\ count[p] + a = g /\ i + c = One(count[p] >= ScanThreshold)
    BY <1>1, ThresholdAssumption DEF Counted, Scanned
  <1>3. ASSUME NEW t \in Threads, \A u \in Threads : u # t => call'[u] = call[u]
        PROVE  /\ a \in Nat /\ b \in Nat /\ c \in Nat /\ d \in Nat
               /\ b + Is(t, ToCount) = a + Is2(t, ToCount)
               /\ d + Is(t, {"scanned"}) = c + Is2(t, {"scanned"})
    BY <1>3, Moves
  <1>4. \A x \in Sightings : seen' = Append(seen, x) =>
          g \in Nat /\ h = g + One(x.item \in Flows /\ x.item.pair = p)
    BY <1>1, AllOfAppend
  <1>5. \A x \in Sightings : seen' = Append(seen, x) /\ feed' = feed => j = i
    BY ScansStay
  <1>6. \A e \in Marks : feed' = Append(feed, e) /\ seen' = seen =>
          i \in Nat /\ j = i + One(e.kind = "port_scan" /\ e.by \in AllOf(seen, p))
    BY <1>1, ScansAppend
  <1>7. seen' = seen => h = g
    OBVIOUS
  <1>8. seen' = seen /\ feed' = feed => j = i
    OBVIOUS
  <1>9. i \in Nat
    <2>1. <<>> \in Seq(Marks)
      OBVIOUS
    <2>2. ScansBy(feed, AllOf(seen, p)) = Places(feed, {y \in Marks : y.kind = "port_scan" /\ y.by \in AllOf(seen, p)})
      BY <1>1 DEF ScansBy, Places
    <2> QED BY <1>1, <2>2, PlacesFinite
  <1> SUFFICES count'[p] + b = h /\ j + d = One(count'[p] >= ScanThreshold)
    OBVIOUS
  <1> HIDE DEF a, b, c, d, g, h, i, j
  <1>10. ASSUME NEW t \in Threads, \A u \in Threads : u # t => call'[u] = call[u],
                Is(t, ToCount) = Is2(t, ToCount), Is(t, {"scanned"}) = Is2(t, {"scanned"}),
                count' = count, h = g, j = i
         PROVE  count'[p] + b = h /\ j + d = One(count'[p] >= ScanThreshold)
    <2>1. /\ a \in Nat /\ b \in Nat /\ c \in Nat /\ d \in Nat
          /\ b + Is(t, ToCount) = a + Is2(t, ToCount)
          /\ d + Is(t, {"scanned"}) = c + Is2(t, {"scanned"})
      BY <1>3, <1>10
    <2>2. a = b /\ c = d
      BY <1>10, <2>1
    <2> QED BY <1>2, <1>10, <2>2
  <1>11. ASSUME NEW t \in Threads, NEW f \in Flows, NEW delay \in 0..MaxDelay, Observe(t, f, delay)
         PROVE  count'[p] + b = h /\ j + d = One(count'[p] >= ScanThreshold)
    <2> DEFINE x == [item |-> f, at |-> now - delay]
    <2>1. /\ x \in Sightings /\ seen' = Append(seen, x) /\ call[t].pc = "idle" /\ feed' = feed /\ count' = count
          /\ call'[t].pc \in {"beacon", "scan"} /\ call'[t].item = f
          /\ \A u \in Threads : u # t => call'[u] = call[u]
      BY <1>1, <1>11, ObserveTurns DEF Turns
    <2>2. x.item = f
      OBVIOUS
    <2> HIDE DEF x
    <2>3. h = g + One(f.pair = p) /\ g \in Nat /\ j = i
      BY <1>4, <1>5, <2>1, <2>2
    <2>4. /\ a \in Nat /\ b \in Nat /\ c \in Nat /\ d \in Nat
          /\ b + Is(t, ToCount) = a + Is2(t, ToCount)
          /\ d + Is(t, {"scanned"}) = c + Is2(t, {"scanned"})
      BY <1>3, <2>1
    <2>5. /\ Is(t, ToCount) = 0 /\ Is2(t, ToCount) = One(f.pair = p)
          /\ Is(t, {"scanned"}) = 0 /\ Is2(t, {"scanned"}) = 0
      BY <2>1 DEF IsAt, ToCount
    <2>6. b = a + One(f.pair = p) /\ d = c
      BY <2>4, <2>5
    <2> QED BY <1>2, <2>1, <2>3, <2>4, <2>6
  <1>12. ASSUME NEW t \in Threads, NEW alarm \in Queries, Query(t, alarm)
         PROVE  count'[p] + b = h /\ j + d = One(count'[p] >= ScanThreshold)
    <2> DEFINE x == [item |-> [alarm |-> alarm], at |-> now]
    <2>1. /\ x \in Sightings /\ seen' = Append(seen, x) /\ call[t].pc = "idle" /\ feed' = feed /\ count' = count
          /\ call'[t].pc \in {"alarm", "store"}
          /\ \A u \in Threads : u # t => call'[u] = call[u]
      BY <1>1, <1>12, QueryTurns DEF Turns, AlarmOrStore
    <2>2. x.item \notin Flows
      BY ItemFacts
    <2> HIDE DEF x
    <2>3. h = g /\ j = i
      BY <1>4, <1>5, <2>1, <2>2
    <2>4. Is(t, ToCount) = Is2(t, ToCount) /\ Is(t, {"scanned"}) = Is2(t, {"scanned"})
      BY <2>1 DEF IsAt, ToCount
    <2> QED BY <1>10, <2>1, <2>3, <2>4
  <1>13. ASSUME NEW t \in Threads, Beacon(t)
         PROVE  count'[p] + b = h /\ j + d = One(count'[p] >= ScanThreshold)
    <2>1. /\ call[t].pc = "beacon" /\ count' = count /\ seen' = seen
          /\ feed' = Append(feed, Event("BeaconingDetected", t, call[t].found))
      BY <1>13 DEF Beacon, At, Emit
    <2>2. /\ call'[t].pc = "forget" /\ call'[t].item = call[t].item
          /\ \A u \in Threads : u # t => call'[u] = call[u]
      BY <1>1, <1>13, StepsGoOn DEF GoesOn, Goes, Turns
    <2>3. Event("BeaconingDetected", t, call[t].found) \in Marks
      BY <1>1, <2>1, EventFits DEF CallFits, Calls
    <2>4. Event("BeaconingDetected", t, call[t].found).kind # "port_scan"
      BY DEF Event
    <2>5. h = g /\ j = i
      BY <1>6, <1>7, <2>1, <2>3, <2>4
    <2>6. Is(t, ToCount) = Is2(t, ToCount) /\ Is(t, {"scanned"}) = Is2(t, {"scanned"})
      BY <2>1, <2>2 DEF IsAt, ToCount
    <2> QED BY <1>10, <2>1, <2>2, <2>5, <2>6
  <1>14. ASSUME NEW t \in Threads, Forget(t)
         PROVE  count'[p] + b = h /\ j + d = One(count'[p] >= ScanThreshold)
    <2>1. call[t].pc = "forget" /\ count' = count /\ seen' = seen /\ feed' = feed
      BY <1>14 DEF Forget, At
    <2>2. /\ call'[t].pc = "scan" /\ call'[t].item = call[t].item
          /\ \A u \in Threads : u # t => call'[u] = call[u]
      BY <1>1, <1>14, StepsGoOn DEF GoesOn, Goes, Turns
    <2>3. Is(t, ToCount) = Is2(t, ToCount) /\ Is(t, {"scanned"}) = Is2(t, {"scanned"})
      BY <2>1, <2>2 DEF IsAt, ToCount
    <2> QED BY <1>7, <1>8, <1>10, <2>1, <2>2, <2>3
  <1>15. ASSUME NEW t \in Threads, Scan(t)
         PROVE  count'[p] + b = h /\ j + d = One(count'[p] >= ScanThreshold)
    <2> DEFINE q == call[t].item.pair
    <2>1. /\ call[t].pc = "scan" /\ seen' = seen /\ feed' = feed
          /\ count' = [count EXCEPT ![q] = @ + 1]
      BY <1>15 DEF Scan, At
    <2>2. q \in Pairs
      BY <1>1, <2>1, ItemFacts DEF CallFits
    <2>3. /\ call'[t].pc = IF IsScan(count'[q]) THEN "scanned" ELSE AlarmOrStore(call[t].item)
          /\ call'[t].item = call[t].item
          /\ \A u \in Threads : u # t => call'[u] = call[u]
      BY <1>1, <1>15, StepsGoOn DEF GoesOn, Goes, Turns
    <2>4. /\ a \in Nat /\ b \in Nat /\ c \in Nat /\ d \in Nat
          /\ b + Is(t, ToCount) = a + Is2(t, ToCount)
          /\ d + Is(t, {"scanned"}) = c + Is2(t, {"scanned"})
      BY <1>3, <2>3
    <2>5. h = g /\ j = i
      BY <1>7, <1>8, <2>1
    <2>6. CASE q # p
      <3>1. count'[p] = count[p]
        BY <1>1, <2>1, <2>6
      <3>2. /\ Is(t, ToCount) = 0 /\ Is2(t, ToCount) = 0
            /\ Is(t, {"scanned"}) = 0 /\ Is2(t, {"scanned"}) = 0
        BY <2>3, <2>6 DEF IsAt
      <3>3. b = a /\ d = c
        BY <2>4, <3>2
      <3> QED BY <1>2, <2>5, <3>1, <3>3
    <2>7. CASE q = p
      <3>1. count'[p] = count[p] + 1
        BY <1>1, <2>1, <2>7
      <3>2. /\ Is(t, ToCount) = 1 /\ Is2(t, ToCount) = 0
            /\ Is(t, {"scanned"}) = 0 /\ Is2(t, {"scanned"}) = One(count'[p] = ScanThreshold)
        BY <2>1, <2>3, <2>7 DEF IsAt, ToCount, AlarmOrStore, IsScan
      <3>3. b + 1 = a /\ d = c + One(count[p] + 1 = ScanThreshold)
        BY <2>4, <3>1, <3>2
      <3>4. count'[p] + b = h
        BY <1>2, <2>4, <2>5, <3>1, <3>3
      <3>5. j + d = One(count'[p] >= ScanThreshold)
        BY <1>2, <1>9, <2>4, <2>5, <3>1, <3>3
      <3> QED BY <3>4, <3>5
    <2> QED BY <2>6, <2>7
  <1>16. ASSUME NEW t \in Threads, AnnounceScan(t)
         PROVE  count'[p] + b = h /\ j + d = One(count'[p] >= ScanThreshold)
    <2> DEFINE e == Event("port_scan", t, <<>>)
    <2>1. call[t].pc = "scanned" /\ count' = count /\ seen' = seen /\ feed' = Append(feed, e)
      BY <1>16 DEF AnnounceScan, At, Emit
    <2>2. /\ call'[t].pc \in {"alarm", "store"} /\ call'[t].item = call[t].item
          /\ \A u \in Threads : u # t => call'[u] = call[u]
      BY <1>1, <1>16, StepsGoOn DEF GoesOn, Goes, Turns, AlarmOrStore
    <2>3. e \in Marks
      <3>1. <<>> \in Seq(Entries) /\ Known(<<>>, seen)
        BY DEF Known
      <3> QED BY <1>1, <2>1, <3>1, EventFits DEF CallFits
    <2>4. e.kind = "port_scan" /\ e.by = call[t].of
      BY DEF Event
    <2>5. e.by \in AllOf(seen, p) <=> call[t].item.pair = p
      BY <1>1, <2>1, <2>4 DEF AllOf, CallFits
    <2> HIDE DEF e
    <2>6. h = g /\ j = i + One(call[t].item.pair = p)
      BY <1>6, <1>7, <2>1, <2>3, <2>4, <2>5
    <2>7. /\ Is(t, ToCount) = 0 /\ Is2(t, ToCount) = 0
          /\ Is(t, {"scanned"}) = One(call[t].item.pair = p) /\ Is2(t, {"scanned"}) = 0
      BY <2>1, <2>2 DEF IsAt, ToCount
    <2>8. /\ a \in Nat /\ b \in Nat /\ c \in Nat /\ d \in Nat
          /\ b + Is(t, ToCount) = a + Is2(t, ToCount)
          /\ d + Is(t, {"scanned"}) = c + Is2(t, {"scanned"})
      BY <1>3, <2>2
    <2>9. b = a /\ d + One(call[t].item.pair = p) = c
      BY <2>7, <2>8
    <2> QED BY <1>2, <1>9, <2>1, <2>6, <2>8, <2>9
  <1>17. ASSUME NEW t \in Threads, Alarm(t)
         PROVE  count'[p] + b = h /\ j + d = One(count'[p] >= ScanThreshold)
    <2> DEFINE e == Event(call[t].item.alarm, t, <<>>)
    <2>1. call[t].pc = "alarm" /\ count' = count /\ seen' = seen /\ feed' = Append(feed, e)
      BY <1>17 DEF Alarm, At, Emit
    <2>2. /\ call'[t].pc = "store"
          /\ \A u \in Threads : u # t => call'[u] = call[u]
      BY <1>1, <1>17, StepsGoOn DEF GoesOn, Goes, Turns
    <2>3. e \in Marks /\ e.kind # "port_scan"
      <3>1. <<>> \in Seq(Entries) /\ Known(<<>>, seen)
        BY DEF Known
      <3>2. call[t].item.alarm \in Alarms \ {"none"}
        BY <1>1, <2>1, ItemFacts DEF CallFits, Calls
      <3>3. call[t].item.alarm \notin {"BeaconingDetected", "port_scan"}
        BY <3>2 DEF Alarms
      <3>4. e \in Marks
        BY <2>1, <3>1, <3>2, <3>3, EventFits
      <3> QED BY <3>3, <3>4 DEF Event
    <2> HIDE DEF e
    <2>4. h = g /\ j = i
      BY <1>6, <1>7, <2>1, <2>3
    <2>5. Is(t, ToCount) = Is2(t, ToCount) /\ Is(t, {"scanned"}) = Is2(t, {"scanned"})
      BY <2>1, <2>2 DEF IsAt, ToCount
    <2> QED BY <1>10, <2>1, <2>2, <2>4, <2>5
  <1>18. ASSUME NEW t \in Threads, Store(t)
         PROVE  count'[p] + b = h /\ j + d = One(count'[p] >= ScanThreshold)
    <2>1. call[t].pc = "store" /\ count' = count /\ seen' = seen /\ feed' = feed
      BY <1>18 DEF Store, At
    <2>2. /\ call'[t].pc = "idle"
          /\ \A u \in Threads : u # t => call'[u] = call[u]
      BY <1>1, <1>18, StoreTurns DEF Turns
    <2>3. Is(t, ToCount) = Is2(t, ToCount) /\ Is(t, {"scanned"}) = Is2(t, {"scanned"})
      BY <2>1, <2>2 DEF IsAt, ToCount
    <2> QED BY <1>7, <1>8, <1>10, <2>1, <2>2, <2>3
  <1>19. ASSUME Tick \/ UNCHANGED vars
         PROVE  count'[p] + b = h /\ j + d = One(count'[p] >= ScanThreshold)
    <2>1. call' = call /\ count' = count /\ seen' = seen /\ feed' = feed
      BY <1>19 DEF Tick, vars
    <2>2. a = b /\ c = d
      BY <2>1 DEF a, b, c, d
    <2> QED BY <1>2, <1>7, <1>8, <2>1, <2>2
  <1> QED
    BY <1>11, <1>12, <1>13, <1>14, <1>15, <1>16, <1>17, <1>18, <1>19 DEF Next, Continue

(* The alarm of an item, once if it has one and its call is past raising it*)
Waits(c, n)    == c.of = n /\ c.pc \in ToCount \cup {"scanned", "alarm"}
Silent(s, cs, n) == s[n].item.alarm = "none" \/ \E t \in Threads : Waits(cs[t], n)
AlarmOnce(f, s, cs, n) ==
  Cardinality(Hits(f, s[n].item.alarm, n)) = IF Silent(s, cs, n) THEN 0 ELSE 1

LEMMA NoHits ==
  ASSUME NEW f, NEW a, NEW n, \A j \in 1..Len(f) : f[j].kind # a \/ f[j].by # n
  PROVE  Cardinality(Hits(f, a, n)) = 0
  <1>1. Hits(f, a, n) = {}
    BY DEF Hits
  <1> QED BY <1>1, FS_EmptySet

LEMMA AlarmOnceNext ==
  ASSUME Base, Base', [Next]_vars, \A n \in 1..Len(seen) : AlarmOnce(feed, seen, call, n),
         NEW n \in 1..Len(seen')
  PROVE  AlarmOnce(feed', seen', call', n)
  <1>1. /\ TypeOK /\ seen \in Seq(Sightings) /\ feed \in Seq(Marks) /\ Len(seen) \in Nat
        /\ \A t \in Threads : call[t] \in Calls /\ CallFits(call[t], seen)
    BY Typed DEF Base, Logs
  <1>2. \A j \in 1..Len(feed) : /\ feed[j].by \in 1..Len(seen) /\ feed[j] \in Marks
                               /\ feed[j].by # Len(seen) + 1
    BY <1>1 DEF Base, MarkFits
  <1> DEFINE Other(e) == e.kind # seen[n].item.alarm \/ e.by # n
  (* A step that leaves the item, its alarms and those who wait for them.  *)
  <1>3. ASSUME n \in 1..Len(seen), seen'[n] = seen[n], NEW t \in Threads,
               \A u \in Threads : u # t => call'[u] = call[u],
               seen[n].item.alarm = "none" \/ (Waits(call'[t], n) <=> Waits(call[t], n)),
               feed' = feed \/ \E e \in Marks : feed' = Append(feed, e) /\ Other(e)
        PROVE  AlarmOnce(feed', seen', call', n)
    <2>1. Silent(seen', call', n) <=> Silent(seen, call, n)
      BY <1>3 DEF Silent
    <2>2. Cardinality(Hits(feed', seen[n].item.alarm, n)) = Cardinality(Hits(feed, seen[n].item.alarm, n))
      <3>1. CASE feed' = feed
        BY <3>1
      <3>2. CASE feed' # feed
        <4>1. PICK e \in Marks : feed' = Append(feed, e) /\ Other(e)
          BY <1>3, <3>2
        <4>2. /\ Cardinality(Hits(feed, seen[n].item.alarm, n)) \in Nat
              /\ Cardinality(Hits(feed', seen[n].item.alarm, n))
                   = Cardinality(Hits(feed, seen[n].item.alarm, n)) + 0
          BY <1>1, <4>1, HitsAppend
        <4> QED BY <4>2
      <3> QED BY <3>1, <3>2
    <2> QED BY <1>3, <2>1, <2>2 DEF AlarmOnce
  (* A call that begins, with an item that has not been seen before.       *)
  <1>4. ASSUME NEW x \in Sightings, seen' = Append(seen, x), feed' = feed, NEW t \in Threads,
               call[t].pc = "idle", call'[t].of = Len(seen) + 1, call'[t].pc # "idle",
               x.item.alarm = "none" \/ Waits(call'[t], Len(seen) + 1),
               \A u \in Threads : u # t => call'[u] = call[u]
        PROVE  AlarmOnce(feed', seen', call', n)
    <2>1. CASE n \in 1..Len(seen)
      <3>1. seen'[n] = seen[n] /\ n # Len(seen) + 1
        BY <1>1, <1>4, <2>1
      <3>2. ~Waits(call'[t], n) /\ ~Waits(call[t], n)
        BY <1>4, <3>1 DEF Waits, ToCount
      <3> QED BY <1>3, <1>4, <2>1, <3>1, <3>2
    <2>2. CASE n = Len(seen) + 1
      <3>1. seen'[n] = x
        BY <1>1, <1>4, <2>2
      <3>2. Silent(seen', call', n)
        BY <1>4, <2>2, <3>1 DEF Silent
      <3>3. \A j \in 1..Len(feed) : feed[j].by # n
        BY <1>2, <2>2
      <3>4. Cardinality(Hits(feed, seen'[n].item.alarm, n)) = 0
        BY <3>3, NoHits
      <3> QED BY <1>4, <3>2, <3>4 DEF AlarmOnce
    <2> QED BY <1>1, <1>4, <2>1, <2>2
  <1>5. ASSUME NEW t \in Threads, NEW f \in Flows, NEW delay \in 0..MaxDelay, Observe(t, f, delay)
        PROVE  AlarmOnce(feed', seen', call', n)
    <2> DEFINE x == [item |-> f, at |-> now - delay]
    <2>1. /\ x \in Sightings /\ seen' = Append(seen, x) /\ call[t].pc = "idle" /\ feed' = feed
          /\ call'[t].pc \in {"beacon", "scan"} /\ call'[t].of = Len(seen) + 1
          /\ \A u \in Threads : u # t => call'[u] = call[u]
      BY <1>1, <1>5, ObserveTurns DEF Turns
    <2> HIDE DEF x
    <2>2. Waits(call'[t], Len(seen) + 1) /\ call'[t].pc # "idle"
      BY <2>1 DEF Waits, ToCount
    <2> QED BY <1>4, <2>1, <2>2
  <1>6. ASSUME NEW t \in Threads, NEW alarm \in Queries, Query(t, alarm)
        PROVE  AlarmOnce(feed', seen', call', n)
    <2> DEFINE item == [alarm |-> alarm]
               x == [item |-> item, at |-> now]
    <2>1. /\ x \in Sightings /\ seen' = Append(seen, x) /\ call[t].pc = "idle" /\ feed' = feed
          /\ call'[t].pc = AlarmOrStore(item) /\ call'[t].of = Len(seen) + 1
          /\ \A u \in Threads : u # t => call'[u] = call[u]
      BY <1>1, <1>6, QueryTurns DEF Turns
    <2>2. x.item = item
      OBVIOUS
    <2> HIDE DEF x, item
    <2>3. call'[t].pc # "idle" /\ (x.item.alarm = "none" \/ Waits(call'[t], Len(seen) + 1))
      BY <2>1, <2>2 DEF Waits, AlarmOrStore
    <2> QED BY <1>4, <2>1, <2>3
  <1>7. ASSUME seen' = seen PROVE n \in 1..Len(seen) /\ seen'[n] = seen[n]
    BY <1>7
  <1>8. n \in 1..Len(seen) => seen[n].item.alarm \notin {"BeaconingDetected", "port_scan"}
    <2>1. n \in 1..Len(seen) => seen[n].item \in Items
      <3>1. n \in 1..Len(seen) => seen[n] \in Sightings
        BY <1>1
      <3> QED BY <3>1 DEF Sightings
    <2> QED BY <2>1, ItemFacts DEF Alarms
  <1>9. ASSUME NEW t \in Threads, Beacon(t)
        PROVE  AlarmOnce(feed', seen', call', n)
    <2>1. /\ call[t].pc = "beacon" /\ seen' = seen
          /\ feed' = Append(feed, Event("BeaconingDetected", t, call[t].found))
      BY <1>9 DEF Beacon, At, Emit
    <2>2. /\ call'[t].pc = "forget" /\ call'[t].of = call[t].of
          /\ \A u \in Threads : u # t => call'[u] = call[u]
      BY <1>1, <1>9, StepsGoOn DEF GoesOn, Goes, Turns
    <2>3. /\ Event("BeaconingDetected", t, call[t].found) \in Marks
          /\ Event("BeaconingDetected", t, call[t].found).kind = "BeaconingDetected"
      BY <1>1, <2>1, EventFits DEF CallFits, Calls, Event
    <2>4. Waits(call'[t], n) <=> Waits(call[t], n)
      BY <2>1, <2>2 DEF Waits, ToCount
    <2> QED BY <1>3, <1>7, <1>8, <2>1, <2>2, <2>3, <2>4
  <1>10. ASSUME NEW t \in Threads, Forget(t)
         PROVE  AlarmOnce(feed', seen', call', n)
    <2>1. call[t].pc = "forget" /\ seen' = seen /\ feed' = feed
      BY <1>10 DEF Forget, At
    <2>2. /\ call'[t].pc = "scan" /\ call'[t].of = call[t].of
          /\ \A u \in Threads : u # t => call'[u] = call[u]
      BY <1>1, <1>10, StepsGoOn DEF GoesOn, Goes, Turns
    <2>3. Waits(call'[t], n) <=> Waits(call[t], n)
      BY <2>1, <2>2 DEF Waits, ToCount
    <2> QED BY <1>3, <1>7, <2>1, <2>2, <2>3
  <1>11. ASSUME NEW t \in Threads, Scan(t)
         PROVE  AlarmOnce(feed', seen', call', n)
    <2>1. call[t].pc = "scan" /\ seen' = seen /\ feed' = feed
      BY <1>11 DEF Scan, At
    <2>2. /\ call'[t].pc \in {"scanned", AlarmOrStore(call[t].item)} /\ call'[t].of = call[t].of
          /\ \A u \in Threads : u # t => call'[u] = call[u]
      BY <1>1, <1>11, StepsGoOn DEF GoesOn, Goes, Turns
    <2>3. call[t].of = n => seen[n].item = call[t].item
      BY <1>1, <2>1 DEF CallFits
    <2>4. seen[n].item.alarm = "none" \/ (Waits(call'[t], n) <=> Waits(call[t], n))
      BY <2>1, <2>2, <2>3 DEF Waits, ToCount, AlarmOrStore
    <2> QED BY <1>3, <1>7, <2>1, <2>2, <2>4
  <1>12. ASSUME NEW t \in Threads, AnnounceScan(t)
         PROVE  AlarmOnce(feed', seen', call', n)
    <2>1. call[t].pc = "scanned" /\ seen' = seen /\ feed' = Append(feed, Event("port_scan", t, <<>>))
      BY <1>12 DEF AnnounceScan, At, Emit
    <2>2. /\ call'[t].pc = AlarmOrStore(call[t].item) /\ call'[t].of = call[t].of
          /\ \A u \in Threads : u # t => call'[u] = call[u]
      BY <1>1, <1>12, StepsGoOn DEF GoesOn, Goes, Turns
    <2>3. Event("port_scan", t, <<>>) \in Marks /\ Event("port_scan", t, <<>>).kind = "port_scan"
      <3>1. <<>> \in Seq(Entries) /\ Known(<<>>, seen)
        BY DEF Known
      <3> QED BY <1>1, <2>1, <3>1, EventFits DEF CallFits, Event
    <2>4. call[t].of = n => seen[n].item = call[t].item
      BY <1>1, <2>1 DEF CallFits
    <2>5. seen[n].item.alarm = "none" \/ (Waits(call'[t], n) <=> Waits(call[t], n))
      BY <2>1, <2>2, <2>4 DEF Waits, ToCount, AlarmOrStore
    <2> QED BY <1>3, <1>7, <1>8, <2>1, <2>2, <2>3, <2>5
  <1>13. ASSUME NEW t \in Threads, Alarm(t)
         PROVE  AlarmOnce(feed', seen', call', n)
    <2> DEFINE e == Event(call[t].item.alarm, t, <<>>)
    <2>1. call[t].pc = "alarm" /\ seen' = seen /\ feed' = Append(feed, e)
      BY <1>13 DEF Alarm, At, Emit
    <2>2. /\ call'[t].pc = "store" /\ call'[t].of = call[t].of
          /\ \A u \in Threads : u # t => call'[u] = call[u]
      BY <1>1, <1>13, StepsGoOn DEF GoesOn, Goes, Turns
    <2>3. e \in Marks /\ e.kind = call[t].item.alarm /\ e.by = call[t].of
      <3>1. <<>> \in Seq(Entries) /\ Known(<<>>, seen)
        BY DEF Known
      <3>2. call[t].item.alarm \in Alarms \ {"none"}
        BY <1>1, <2>1, ItemFacts DEF CallFits, Calls
      <3>3. call[t].item.alarm \notin {"BeaconingDetected", "port_scan"}
        BY <3>2 DEF Alarms
      <3>4. e \in Marks
        BY <2>1, <3>1, <3>2, <3>3, EventFits
      <3> QED BY <3>4 DEF Event
    <2> HIDE DEF e
    <2>4. CASE call[t].of # n
      <3>1. Waits(call'[t], n) <=> Waits(call[t], n)
        BY <2>2, <2>4 DEF Waits
      <3> QED BY <1>3, <1>7, <2>1, <2>2, <2>3, <2>4, <3>1
    <2>5. CASE call[t].of = n
      <3>1. seen[n].item = call[t].item /\ call[t].item.alarm # "none" /\ n \in 1..Len(seen)
        BY <1>1, <1>7, <2>1, <2>5 DEF CallFits
      <3>2. Silent(seen, call, n)
        BY <2>1, <2>5 DEF Silent, Waits
      <3>3. \A u \in Threads : Waits(call'[u], n) => u = t
        <4>1. \A u \in Threads : u # t /\ call[u].pc # "idle" => call[u].of # n
          BY <2>1, <2>5 DEF Base, Apart
        <4> QED BY <2>2, <4>1 DEF Waits, ToCount
      <3>4. ~Silent(seen', call', n)
        BY <2>1, <2>2, <3>1, <3>3 DEF Silent, Waits, ToCount
      <3>5. Cardinality(Hits(feed, seen[n].item.alarm, n)) = 0
        BY <3>1, <3>2 DEF AlarmOnce
      <3>6. Cardinality(Hits(feed', seen[n].item.alarm, n))
              = Cardinality(Hits(feed, seen[n].item.alarm, n)) + 1
        BY <1>1, <2>1, <2>3, <2>5, <3>1, HitsAppend
      <3> QED BY <2>1, <3>4, <3>5, <3>6 DEF AlarmOnce
    <2> QED BY <2>4, <2>5
  <1>14. ASSUME NEW t \in Threads, Store(t)
         PROVE  AlarmOnce(feed', seen', call', n)
    <2>1. call[t].pc = "store" /\ seen' = seen /\ feed' = feed
      BY <1>14 DEF Store, At
    <2>2. /\ call'[t].pc = "idle"
          /\ \A u \in Threads : u # t => call'[u] = call[u]
      BY <1>1, <1>14, StoreTurns DEF Turns
    <2>3. Waits(call'[t], n) <=> Waits(call[t], n)
      BY <2>1, <2>2 DEF Waits, ToCount
    <2> QED BY <1>3, <1>7, <2>1, <2>2, <2>3
  <1>15. ASSUME Tick \/ UNCHANGED vars
         PROVE  AlarmOnce(feed', seen', call', n)
    BY <1>15 DEF Tick, vars
  <1> QED
    BY <1>5, <1>6, <1>9, <1>10, <1>11, <1>12, <1>13, <1>14, <1>15 DEF Next, Continue

Accounts ==
  /\ \A p \in Pairs : Counted(p) /\ Scanned(p)
  /\ \A n \in 1..Len(seen) : AlarmOnce(feed, seen, call, n)

LEMMA AccountsMean ==
  ASSUME Base, Accounts
  PROVE  ThreatsReported
  <1>1. ASSUME NEW p \in Pairs
        PROVE  LET of(pcs)   == {t \in Working(pcs) : call[t].item.pair = p}
                   all       == {n \in 1..Len(seen) : IsFlow(n) /\ seen[n].item.pair = p}
                   announced == {k \in 1..Len(feed) : feed[k].kind = "port_scan" /\ feed[k].by \in all}
               IN  /\ count[p] + Cardinality(of({"beacon", "forget", "scan"})) = Cardinality(all)
                   /\ Cardinality(announced) + Cardinality(of({"scanned"}))
                        = IF count[p] >= ScanThreshold THEN 1 ELSE 0
    <2>1. \A pcs : {t \in Working(pcs) : call[t].item.pair = p} = AllAt(call, pcs, p)
      BY DEF Working, AllAt, IsAt
    <2>2. {n \in 1..Len(seen) : IsFlow(n) /\ seen[n].item.pair = p} = AllOf(seen, p)
      BY DEF IsFlow, AllOf
    <2>3. \A N : {k \in 1..Len(feed) : feed[k].kind = "port_scan" /\ feed[k].by \in N} = ScansBy(feed, N)
      BY DEF ScansBy
    <2> QED BY <2>1, <2>2, <2>3 DEF Accounts, Counted, Scanned, ToCount
  <1>2. ASSUME NEW k \in 1..Len(stored)
        PROVE  LET a == seen[stored[k]].item.alarm
                   announced == {j \in 1..Len(feed) : feed[j].kind = a /\ feed[j].by = stored[k]}
               IN  Cardinality(announced) = IF a = "none" THEN 0 ELSE 1
    <2> DEFINE n == stored[k]
               a == seen[n].item.alarm
    <2>1. n \in 1..Len(seen) /\ AlarmOnce(feed, seen, call, n)
      BY DEF Base, Accounts
    <2>2. \A t \in Threads : ~Waits(call[t], n)
      BY DEF Base, Apart, Waits, ToCount
    <2>3. Silent(seen, call, n) <=> a = "none"
      BY <2>2 DEF Silent
    <2>4. {j \in 1..Len(feed) : feed[j].kind = a /\ feed[j].by = n} = Hits(feed, a, n)
      BY DEF Hits
    <2> QED BY <2>1, <2>3, <2>4 DEF AlarmOnce
  <1> QED BY <1>1, <1>2 DEF ThreatsReported

(* Every flow is counted once for its pair or still to be, a pair is       *)
(* reported once, by the flow that makes the number full, and what is in   *)
(* the store has had its own alarm announced once (analyze_port_scan,      *)
(* analyze_c2, analyze_lateral_movement, analyze_dns).                     *)
THEOREM ThreatsReportedHolds == Spec => []ThreatsReported
  <1>1. ASSUME Init PROVE Accounts
    <2>1. ASSUME NEW p \in Pairs PROVE Counted(p) /\ Scanned(p)
      <3>1. /\ AllOf(seen, p) = {} /\ ScansBy(feed, AllOf(seen, p)) = {} /\ count[p] = 0
            /\ \A pcs : "idle" \notin pcs => AllAt(call, pcs, p) = {}
        BY <1>1 DEF Init, Idle, AllOf, ScansBy, AllAt, IsAt
      <3>2. "idle" \notin ToCount /\ "idle" \notin {"scanned"} /\ ScanThreshold \in Nat \ {0}
        BY ThresholdAssumption DEF ToCount
      <3> QED BY <3>1, <3>2, FS_EmptySet DEF Counted, Scanned
    <2>2. 1..Len(seen) = {}
      BY <1>1 DEF Init
    <2> QED BY <2>1, <2>2 DEF Accounts
  <1>2. ASSUME Base, Base', Accounts, [Next]_vars PROVE Accounts'
    <2>1. \A p \in Pairs : Counted(p)' /\ Scanned(p)'
      BY <1>2, CountedNext DEF Accounts, Counted, Scanned
    <2>2. \A n \in 1..Len(seen') : AlarmOnce(feed', seen', call', n)
      BY <1>2, AlarmOnceNext DEF Accounts
    <2> QED BY <2>1, <2>2 DEF Accounts
  <1>3. Base /\ Accounts => ThreatsReported
    BY AccountsMean
  <1> QED BY <1>1, <1>2, <1>3, BaseInvariant, PTL DEF Spec
=============================================================================
