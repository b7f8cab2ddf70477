------------------------ MODULE IngestAndHuntProofs ------------------------
(***************************************************************************)
(* Theorems about IngestAndHunt, for any agents, hunters, hunts, events and*)
(* records.                                                                *)
(***************************************************************************)
EXTENDS IngestAndHunt, SiftingLemmas

Status  == {"Draft", "Running", "Completed", None}
Records == Others \cup {Shipped[e] : e \in Telemetry}

(* No value of the code stands for the absence of a hunt.                  *)
LEMMA NoneIsNoStatus == None \notin {"Draft", "Running", "Completed"} /\ None \notin Hunts
  BY EngineAssumptions DEF H!Assumption

(* What the proof needs of the types: the results and what a search has    *)
(* found do not matter to the status of a hunt.                            *)
Typed ==
  /\ call   \in [Agents -> Telemetry \cup {None}]
  /\ outbox \in [Agents -> Telemetry \cup {None}]
  /\ lake   \in Seq(Records)
  /\ status \in [Hunts -> Status]
  /\ completed \in [Hunts -> BOOLEAN]
  /\ runs \in [Hunts -> Seq(Nat)]
  /\ run = [x \in Hunters |-> run[x]]
  /\ \A x \in Hunters : /\ run[x] = [pc |-> run[x].pc, hunt |-> run[x].hunt,
                                    since |-> run[x].since, first |-> run[x].first,
                                    found |-> run[x].found]
                        /\ run[x].hunt \in Hunts \cup {None}
                        /\ run[x].since \in Nat

(* Who is not idle runs a hunt, and it has been marked as run.             *)
RunsMarked ==
  \A x \in Hunters :
    /\ run[x].pc = "idle" <=> run[x].hunt = None
    /\ run[x].hunt # None => status[run[x].hunt] \in {"Running", "Completed"}

(* StatusHonest without sets.                                              *)
Honest ==
  \A h \in Hunts :
    /\ status[h] = "Running" => \E x \in Hunters : run[x].hunt = h
    /\ status[h] \in {None, "Draft"} => runs[h] = <<>>
    /\ completed[h] <=> runs[h] # <<>>
    /\ status[h] = "Completed" => completed[h]

IInv == Typed /\ RunsMarked /\ Honest

LEMMA InitIInv == Init => IInv
  <1> SUFFICES ASSUME Init PROVE IInv
    OBVIOUS
  <1>1. /\ status = [h \in Hunts |-> None] /\ completed = [h \in Hunts |-> FALSE]
        /\ runs = [h \in Hunts |-> <<>>] /\ lake = <<>>
        /\ run = [x \in Hunters |-> H!Idle]
    BY DEF Init, H!Init
  <1>2. /\ call \in [Agents -> Telemetry \cup {None}]
        /\ outbox \in [Agents -> Telemetry \cup {None}]
    BY DEF Init, D!Init
  <1>3. \A x \in Hunters : run[x] = H!Idle
    BY <1>1
  <1>4. run = [x \in Hunters |-> run[x]]
    BY <1>1, <1>3
  <1>5. Typed
    <2>1. \A x \in Hunters : /\ run[x] = [pc |-> run[x].pc, hunt |-> run[x].hunt,
                                          since |-> run[x].since, first |-> run[x].first,
                                          found |-> run[x].found]
                              /\ run[x].hunt \in Hunts \cup {None}
                              /\ run[x].since \in Nat
      BY <1>3 DEF H!Idle
    <2>2. /\ lake \in Seq(Records) /\ runs \in [Hunts -> Seq(Nat)]
          /\ status \in [Hunts -> Status] /\ completed \in [Hunts -> BOOLEAN]
      BY <1>1 DEF Status
    <2> QED BY <1>2, <1>4, <2>1, <2>2 DEF Typed
  <1>6. RunsMarked
    BY <1>3 DEF RunsMarked, H!Idle
  <1>7. Honest
    BY <1>1, NoneIsNoStatus DEF Honest
  <1> QED BY <1>5, <1>6, <1>7 DEF IInv

(* The steps of the endpoint engine and of the consumer.                   *)
LEMMA EdrStep ==
  ASSUME IInv, UNCHANGED hvars,
         call' \in [Agents -> Telemetry \cup {None}],
         outbox' \in [Agents -> Telemetry \cup {None}]
  PROVE  IInv'
  BY DEF IInv, Typed, RunsMarked, Honest, hvars

LEMMA LakeStep ==
  ASSUME IInv, NEW r \in Records, H!Ingest(r), UNCHANGED <<call>>,
         outbox' \in [Agents -> Telemetry \cup {None}]
  PROVE  IInv'
  <1>1. lake' \in Seq(Records)
    BY DEF IInv, Typed, H!Ingest
  <1> QED BY <1>1 DEF IInv, Typed, RunsMarked, Honest, H!Ingest

LEMMA CreateStep ==
  ASSUME IInv, NEW h \in Hunts, H!CreateHunt(h), UNCHANGED <<evars, outbox>>
  PROVE  IInv'
  BY NoneIsNoStatus DEF IInv, Typed, RunsMarked, Honest, Status, H!CreateHunt, evars

LEMMA BeginStep ==
  ASSUME IInv, NEW x \in Hunters, NEW h \in Hunts, H!Begin(x, h), UNCHANGED <<evars, outbox>>
  PROVE  IInv'
  <1>1. Len(lake) \in Nat
    BY DEF IInv, Typed
  <1>2. Typed'
    BY <1>1 DEF IInv, Typed, Status, H!Begin, H!Idle, evars
  <1>3. RunsMarked'
    BY EngineAssumptions DEF IInv, Typed, RunsMarked, Status, H!Begin, H!Idle, H!At, H!Assumption
  <1>4. Honest'
    <2> SUFFICES ASSUME NEW g \in Hunts
                 PROVE  /\ (status[g] = "Running" => \E y \in Hunters : run[y].hunt = g)'
                        /\ (status[g] \in {None, "Draft"} => runs[g] = <<>>)'
                        /\ (completed[g] <=> runs[g] # <<>>)'
                        /\ (status[g] = "Completed" => completed[g])'
      BY DEF Honest
    <2>1. run'[x].hunt = h
      BY DEF IInv, Typed, H!Begin, H!Idle
    <2>2. \A y \in Hunters : y # x => run'[y] = run[y]
      BY DEF IInv, Typed, H!Begin
    <2>3. run[x].hunt = None
      BY DEF IInv, RunsMarked, H!Begin, H!At
    <2> QED
      BY <2>1, <2>2, <2>3, NoneIsNoStatus, EngineAssumptions
         DEF IInv, Typed, Honest, Status, H!Begin, H!Assumption
  <1> QED BY <1>2, <1>3, <1>4 DEF IInv

(* The steps of a search keep to their hunt.                               *)
LEMMA SearchStep ==
  ASSUME IInv, NEW x \in Hunters,
         H!Search(x) \/ H!CorrelateFirst(x) \/ H!CorrelateSecond(x),
         UNCHANGED <<evars, outbox>>
  PROVE  IInv'
  <1>1. /\ run[x].pc # "idle"
        /\ run' = [y \in Hunters |-> run'[y]]
        /\ \A y \in Hunters : y # x => run'[y] = run[y]
        /\ run'[x] = [pc |-> run'[x].pc, hunt |-> run[x].hunt, since |-> run[x].since,
                      first |-> run'[x].first, found |-> run'[x].found]
        /\ run'[x].pc # "idle"
    BY DEF IInv, Typed, H!Search, H!CorrelateFirst, H!CorrelateSecond, H!Found, H!At
  <1>2. UNCHANGED <<status, completed, runs, lake, call, outbox>>
    BY DEF H!Search, H!CorrelateFirst, H!CorrelateSecond, evars
  <1>3. \A y \in Hunters : run'[y].hunt = run[y].hunt /\ run'[y].since = run[y].since
    BY <1>1
  <1>4. Typed'
    BY <1>1, <1>2, <1>3 DEF IInv, Typed
  <1>5. RunsMarked' /\ Honest'
    BY <1>1, <1>2, <1>3 DEF IInv, RunsMarked, Honest
  <1> QED BY <1>4, <1>5 DEF IInv

LEMMA FinishStep ==
  ASSUME IInv, NEW x \in Hunters, H!Finish(x), UNCHANGED <<evars, outbox>>
  PROVE  IInv'
  <1>1. /\ runs' = [runs EXCEPT ![run[x].hunt] = Append(@, run[x].since)]
        /\ status' = [status EXCEPT ![run[x].hunt] = "Completed"]
        /\ completed' = [completed EXCEPT ![run[x].hunt] = TRUE]
        /\ run' = [run EXCEPT ![x] = H!Idle]
        /\ UNCHANGED <<lake, call, outbox>>
    BY DEF H!Finish, evars
  <1>2. PICK h \in Hunts : h = run[x].hunt
    BY DEF IInv, Typed, RunsMarked, H!Finish, H!At
  <1>3. run[x].since \in Nat
    BY DEF IInv, Typed
  <1>4. Append(runs[h], run[x].since) \in Seq(Nat) /\ Append(runs[h], run[x].since) # <<>>
    <2>1. runs[h] \in Seq(Nat)
      BY <1>2 DEF IInv, Typed
    <2> QED BY <1>3, <2>1
  <1>5. Typed'
    BY <1>1, <1>2, <1>4 DEF IInv, Typed, Status, H!Idle
  <1>6. RunsMarked'
    BY <1>1, <1>2 DEF IInv, Typed, RunsMarked, H!Idle
  <1>7. Honest'
    <2> SUFFICES ASSUME NEW g \in Hunts
                 PROVE  /\ (status[g] = "Running" => \E y \in Hunters : run[y].hunt = g)'
                        /\ (status[g] \in {None, "Draft"} => runs[g] = <<>>)'
                        /\ (completed[g] <=> runs[g] # <<>>)'
                        /\ (status[g] = "Completed" => completed[g])'
      BY DEF Honest
    <2>1. CASE g = h
      BY <1>1, <1>2, <1>4, <2>1, NoneIsNoStatus DEF IInv, Typed
    <2>2. CASE g # h
      <3>1. status'[g] = status[g] /\ runs'[g] = runs[g] /\ completed'[g] = completed[g]
        BY <1>1, <1>2, <2>2 DEF IInv, Typed
      <3>2. \A y \in Hunters : run[y].hunt = g => run'[y].hunt = g
        BY <1>1, <1>2, <2>2 DEF IInv, Typed
      <3> QED BY <3>1, <3>2 DEF IInv, Honest
    <2> QED BY <2>1, <2>2
  <1> QED BY <1>5, <1>6, <1>7 DEF IInv

LEMMA NextIInv == IInv /\ [Next]_vars => IInv'
  <1> SUFFICES ASSUME IInv, [Next]_vars PROVE IInv'
    OBVIOUS
  <1>1. ASSUME NEW a \in Agents, Store(a) PROVE IInv'
    BY <1>1, EdrStep DEF Store, D!Store, IInv, Typed
  <1>2. ASSUME NEW a \in Agents, Ship(a) PROVE IInv'
    <2>1. outbox[a] \in Telemetry
      BY <1>2 DEF Ship, IInv, Typed
    <2>2. outbox' \in [Agents -> Telemetry \cup {None}]
      BY <1>2 DEF Ship, IInv, Typed
    <2> QED BY <1>2, <2>1, <2>2, LakeStep DEF Ship, Records, evars
  <1>3. ASSUME NEW a \in Agents, NEW e \in Telemetry, Ingest(a, e) PROVE IInv'
    BY <1>3, EdrStep DEF Ingest, D!Analyze, IInv, Typed
  <1>4. ASSUME Drain PROVE IInv'
    BY <1>4, EdrStep DEF Drain, D!Drain, IInv, Typed
  <1>5. ASSUME NEW r \in Others, H!Ingest(r), UNCHANGED <<evars, outbox>> PROVE IInv'
    <2>1. outbox' \in [Agents -> Telemetry \cup {None}] /\ UNCHANGED <<call>>
      BY <1>5 DEF IInv, Typed, evars
    <2> QED BY <1>5, <2>1, LakeStep DEF Records
  <1>6. ASSUME NEW h \in Hunts, H!CreateHunt(h), UNCHANGED <<evars, outbox>> PROVE IInv'
    BY <1>6, CreateStep
  <1>7. ASSUME NEW x \in Hunters, NEW h \in Hunts, H!Begin(x, h), UNCHANGED <<evars, outbox>>
        PROVE  IInv'
    BY <1>7, BeginStep
  <1>8. ASSUME NEW x \in Hunters, Hunt(x) PROVE IInv'
    BY <1>8, SearchStep, FinishStep DEF Hunt, H!Continue
  <1>9. CASE UNCHANGED vars
    BY <1>9, EdrStep DEF vars, hvars, IInv, Typed
  <1> QED BY <1>1, <1>2, <1>3, <1>4, <1>5, <1>6, <1>7, <1>8, <1>9 DEF Next

LEMMA IInvImplies == IInv => StatusHonest
  BY NoneIsNoStatus, EngineAssumptions
     DEF IInv, Typed, RunsMarked, Honest, StatusHonest, H!StatusHonest, H!Underway, H!Assumption

(* However many hunters run however many hunts, one hunt several times at  *)
(* once included, the status of each can be trusted (run_hunt).            *)
THEOREM StatusHonestHolds == Spec => []StatusHonest
  <1>1. Spec => []IInv
    BY InitIInv, NextIInv, PTL DEF Spec
  <1> QED BY <1>1, IInvImplies, PTL
-----------------------------------------------------------------------------
(***************************************************************************)
(* Counting is counting, in whichever module.                              *)
(***************************************************************************)
LEMMA SameCount ==
  ASSUME NEW S
  PROVE  D!Cardinality(S) = Cardinality(S) /\ H!Cardinality(S) = Cardinality(S)
  BY DEF D!Cardinality, H!Cardinality, Cardinality

LEMMA SameSift ==
  ASSUME NEW s, NEW I
  PROVE  H!Sift(s, I) = Sift(s, I)
  BY DEF H!Sift, Sift, H!Rank, Rank, H!Cardinality, Cardinality

(***************************************************************************)
(* The findings: what has been announced of an event is what has been      *)
(* stored of it or is in the hands of an agent, and what has been stored is*)
(* in the lake or on the way there.                                        *)
(***************************************************************************)
Announcing(e)  == {d \in D!Announcement : d.of = e}
Tells(s, e)    == Cardinality(Places(s, Announcing(e)))
Holding(f, e)  == Cardinality({a \in Agents : f[a] = e})
InLake(l, e)   == Cardinality(Places(l, {Shipped[e]}))

Accounts ==
  \A e \in Telemetry :
    /\ Tells(drained, e) + Tells(pending, e) =
         IF D!Finding(e) = None THEN 0 ELSE stored[e] + Holding(call, e)
    /\ InLake(lake, e) + Holding(outbox, e) = stored[e]

(* An agent ships what it has stored before it takes the next event.       *)
Deliveries ==
  /\ stored \in [Telemetry -> Nat]
  /\ pending \in Seq(D!Announcement) /\ drained \in Seq(D!Announcement)
  /\ \A a \in Agents : call[a] = None \/ outbox[a] = None
  /\ Accounts

LEMMA NoneIsNoEvent == None \notin Telemetry
  BY EngineAssumptions DEF D!Assumption

(* What an agent takes or gives away is one event more or less.            *)
Is(v, e) == IF v = e THEN 1 ELSE 0
Gives(f, a, v, g) ==
  f \in [Agents -> Telemetry \cup {None}] /\ a \in Agents /\ g = [f EXCEPT ![a] = v]

LEMMA IsNumber == \A v, e : Is(v, e) \in Nat /\ Is(v, v) = 1 /\ (v # e => Is(v, e) = 0)
  BY DEF Is

LEMMA HoldingStep ==
  ASSUME NEW f, NEW a, NEW v, NEW g, Gives(f, a, v, g), NEW e
  PROVE  /\ Holding(f, e) \in Nat /\ Holding(g, e) \in Nat
         /\ Holding(g, e) + Is(f[a], e) = Holding(f, e) + Is(v, e)
  <1> DEFINE P == {b \in Agents : f[b] = e}
             Q == {b \in Agents : g[b] = e}
  <1>1. /\ P \ {a} = Q \ {a}
        /\ a \in P <=> f[a] = e
        /\ a \in Q <=> v = e
    BY DEF Gives
  <1>2. IsFiniteSet(P)
    <2>1. P \in SUBSET Agents
      OBVIOUS
    <2> QED BY <2>1, AgentsAssumption, FS_Subset
  <1> HIDE DEF P, Q
  <1>3. /\ Cardinality(P) \in Nat /\ Cardinality(Q) \in Nat
        /\ Cardinality(Q) + (IF a \in P THEN 1 ELSE 0) = Cardinality(P) + (IF a \in Q THEN 1 ELSE 0)
    BY <1>1, <1>2, OneOff
  <1>4. Holding(f, e) = Cardinality(P) /\ Holding(g, e) = Cardinality(Q)
    BY DEF Holding, P, Q
  <1> QED BY <1>1, <1>3, <1>4 DEF Is

LEMMA HoldingNat ==
  ASSUME NEW f \in [Agents -> Telemetry \cup {None}], NEW e
  PROVE  Holding(f, e) \in Nat
  <1>1. {a \in Agents : f[a] = e} \in SUBSET Agents
    OBVIOUS
  <1> QED BY <1>1, AgentsAssumption, FS_Subset, FS_CardinalityType DEF Holding

LEMMA TellsNat ==
  ASSUME Deliveries, NEW e
  PROVE  Tells(drained, e) \in Nat /\ Tells(pending, e) \in Nat
  BY PlacesFinite DEF Deliveries, Tells

LEMMA InLakeNat ==
  ASSUME Typed, NEW e
  PROVE  InLake(lake, e) \in Nat
  <1>1. lake \in Seq(Records)
    BY DEF Typed
  <1> QED BY <1>1, PlacesFinite DEF InLake

LEMMA NothingIn == \A V : Cardinality(Places(<<>>, V)) = 0
  <1>1. ASSUME NEW V PROVE Places(<<>>, V) = {}
    BY DEF Places
  <1> QED BY <1>1, FS_EmptySet

LEMMA InitDeliveries == Init => Deliveries
  <1> SUFFICES ASSUME Init PROVE Deliveries
    OBVIOUS
  <1>1. /\ stored = [e \in Telemetry |-> 0] /\ pending = <<>> /\ drained = <<>>
        /\ call = [a \in Agents |-> None] /\ outbox = [a \in Agents |-> None] /\ lake = <<>>
    BY DEF Init, D!Init, H!Init
  <1>2. ASSUME NEW e \in Telemetry PROVE Holding(call, e) = 0 /\ Holding(outbox, e) = 0
    <2>1. {a \in Agents : call[a] = e} = {} /\ {a \in Agents : outbox[a] = e} = {}
      BY <1>1, NoneIsNoEvent
    <2> QED BY <2>1, FS_EmptySet DEF Holding
  <1>3. \A e : Tells(drained, e) = 0 /\ Tells(pending, e) = 0 /\ InLake(lake, e) = 0
    BY <1>1, NothingIn DEF Tells, InLake
  <1>4. Accounts
    BY <1>1, <1>2, <1>3 DEF Accounts
  <1> QED BY <1>1, <1>4 DEF Deliveries

(* The finding is announced when an agent takes the event.                 *)
LEMMA IngestAccounts ==
  ASSUME Typed, Deliveries, NEW a \in Agents, NEW e \in Telemetry, Ingest(a, e)
  PROVE  Deliveries'
  <1> DEFINE d == [kind |-> D!Finding(e), of |-> e]
  <1>1. /\ call[a] = None /\ outbox[a] = None
        /\ pending' = IF D!Finding(e) = None THEN pending ELSE Append(pending, d)
        /\ call' = [call EXCEPT ![a] = e]
        /\ UNCHANGED <<stored, drained, outbox, lake>>
    BY DEF Ingest, D!Analyze, hvars
  <1>2. call \in [Agents -> Telemetry \cup {None}]
    BY DEF Typed
  <1>3. D!Finding(e) # None => d \in D!Announcement
    BY DEF D!Announcement
  <1>4. pending \in Seq(D!Announcement)
    BY DEF Deliveries
  <1>5. pending' \in Seq(D!Announcement)
    BY <1>1, <1>3, <1>4
  <1>6. ASSUME NEW g \in Telemetry
        PROVE  /\ Tells(pending', g) = Tells(pending, g)
                                       + (IF D!Finding(g) = None THEN 0 ELSE Is(e, g))
               /\ Holding(call', g) = Holding(call, g) + Is(e, g)
    <2>1. Tells(pending, g) \in Nat
      BY TellsNat
    <2>2. Tells(pending', g) = Tells(pending, g)
                                 + (IF D!Finding(g) = None THEN 0 ELSE Is(e, g))
      <3>1. CASE D!Finding(e) = None
        BY <1>1, <2>1, <3>1 DEF Is
      <3>2. CASE D!Finding(e) # None
        <4>1. d \in D!Announcement /\ pending' = Append(pending, d)
          BY <1>1, <1>3, <3>2
        <4>2. d \in Announcing(g) <=> g = e
          BY <4>1 DEF Announcing
        <4> HIDE DEF d
        <4>3. Tells(pending', g) = Tells(pending, g) + (IF d \in Announcing(g) THEN 1 ELSE 0)
          BY <1>4, <4>1, PlacesAppend DEF Tells
        <4> QED BY <3>2, <4>2, <4>3 DEF Is
      <3> QED BY <3>1, <3>2
    <2>3. Gives(call, a, e, call')
      BY <1>1, <1>2 DEF Gives
    <2>4. /\ Holding(call, g) \in Nat /\ Holding(call', g) \in Nat
          /\ Holding(call', g) + Is(call[a], g) = Holding(call, g) + Is(e, g)
      BY <2>3, HoldingStep
    <2>5. Is(call[a], g) = 0 /\ Is(e, g) \in Nat
      BY <1>1, NoneIsNoEvent, IsNumber
    <2>6. Holding(call', g) = Holding(call, g) + Is(e, g)
      BY <2>4, <2>5
    <2> QED BY <2>1, <2>2, <2>6
  <1>7. Accounts'
    <2> SUFFICES ASSUME NEW g \in Telemetry
                 PROVE  /\ Tells(drained', g) + Tells(pending', g) =
                             IF D!Finding(g) = None THEN 0 ELSE stored'[g] + Holding(call', g)
                        /\ InLake(lake', g) + Holding(outbox', g) = stored'[g]
      BY DEF Accounts
    <2>1. /\ Tells(drained, g) + Tells(pending, g) =
               IF D!Finding(g) = None THEN 0 ELSE stored[g] + Holding(call, g)
          /\ InLake(lake, g) + Holding(outbox, g) = stored[g]
          /\ stored[g] \in Nat
      BY DEF Deliveries, Accounts
    <2>2. Tells(drained, g) \in Nat /\ Tells(pending, g) \in Nat /\ Holding(call, g) \in Nat
      BY <1>2, TellsNat, HoldingNat
    <2>0. UNCHANGED <<stored, drained, outbox, lake>> /\ Is(e, g) \in Nat
      BY <1>1, IsNumber
    <2>3. CASE D!Finding(g) = None
      BY <1>6, <2>0, <2>1, <2>2, <2>3
    <2>4. CASE D!Finding(g) # None
      BY <1>6, <2>0, <2>1, <2>2, <2>4
    <2> QED BY <2>3, <2>4
  <1>8. \A b \in Agents : call'[b] = None \/ outbox'[b] = None
    BY <1>1, <1>2 DEF Deliveries
  <1> QED BY <1>1, <1>5, <1>7, <1>8 DEF Deliveries

(* What is stored goes from one hand of the agent to the other.            *)
LEMMA StoreAccounts ==
  ASSUME Typed, Deliveries, NEW a \in Agents, Store(a)
  PROVE  Deliveries'
  <1>1. /\ call[a] # None
        /\ stored' = [stored EXCEPT ![call[a]] = @ + 1]
        /\ call' = [call EXCEPT ![a] = None]
        /\ outbox' = [outbox EXCEPT ![a] = call[a]]
        /\ UNCHANGED <<pending, drained, lake>>
    BY DEF Store, D!Store, hvars
  <1>2. /\ call \in [Agents -> Telemetry \cup {None}]
        /\ outbox \in [Agents -> Telemetry \cup {None}]
    BY DEF Typed
  <1>3. PICK e \in Telemetry : e = call[a]
    BY <1>1, <1>2
  <1>4. outbox[a] = None /\ stored \in [Telemetry -> Nat]
    BY <1>1 DEF Deliveries
  <1>5. ASSUME NEW g \in Telemetry
        PROVE  /\ stored'[g] = stored[g] + Is(e, g)
               /\ Holding(call', g) + Is(e, g) = Holding(call, g)
               /\ Holding(outbox', g) = Holding(outbox, g) + Is(e, g)
               /\ Holding(call', g) \in Nat /\ Holding(outbox, g) \in Nat /\ Is(e, g) \in Nat
    <2>1. Gives(call, a, None, call') /\ Gives(outbox, a, e, outbox')
      BY <1>1, <1>2, <1>3 DEF Gives
    <2>2. /\ Holding(call, g) \in Nat /\ Holding(call', g) \in Nat
          /\ Holding(call', g) + Is(call[a], g) = Holding(call, g) + Is(None, g)
      BY <2>1, HoldingStep
    <2>3. /\ Holding(outbox, g) \in Nat /\ Holding(outbox', g) \in Nat
          /\ Holding(outbox', g) + Is(outbox[a], g) = Holding(outbox, g) + Is(e, g)
      BY <2>1, HoldingStep
    <2>4. stored'[g] = stored[g] + Is(e, g)
      BY <1>1, <1>3, <1>4 DEF Is
    <2>5. Is(None, g) = 0 /\ Is(outbox[a], g) = 0 /\ Is(e, g) \in Nat
      BY <1>4, NoneIsNoEvent, IsNumber
    <2> QED BY <1>3, <2>2, <2>3, <2>4, <2>5
  <1>6. Accounts'
    <2> SUFFICES ASSUME NEW g \in Telemetry
                 PROVE  /\ Tells(drained', g) + Tells(pending', g) =
                             IF D!Finding(g) = None THEN 0 ELSE stored'[g] + Holding(call', g)
                        /\ InLake(lake', g) + Holding(outbox', g) = stored'[g]
      BY DEF Accounts
    <2>1. /\ Tells(drained, g) + Tells(pending, g) =
               IF D!Finding(g) = None THEN 0 ELSE stored[g] + Holding(call, g)
          /\ InLake(lake, g) + Holding(outbox, g) = stored[g]
          /\ stored[g] \in Nat
      BY DEF Deliveries, Accounts
    <2>2. InLake(lake, g) \in Nat
      BY InLakeNat
    <2>0. UNCHANGED <<pending, drained, lake>> /\ Is(e, g) \in Nat
      BY <1>1, IsNumber
    <2>3. CASE D!Finding(g) = None
      BY <1>5, <2>0, <2>1, <2>2, <2>3
    <2>4. CASE D!Finding(g) # None
      BY <1>5, <2>0, <2>1, <2>2, <2>4
    <2> QED BY <2>3, <2>4
  <1>7. stored' \in [Telemetry -> Nat] /\ \A b \in Agents : call'[b] = None \/ outbox'[b] = None
    BY <1>1, <1>2, <1>3, <1>4 DEF Deliveries
  <1> QED BY <1>1, <1>6, <1>7 DEF Deliveries

(* What is shipped is found in the lake; what others put there is not      *)
(* mistaken for it.                                                        *)
LEMMA LakeAccounts ==
  ASSUME Typed, NEW r \in Records, lake' = Append(lake, r), NEW e \in Telemetry
  PROVE  InLake(lake', e) = InLake(lake, e) + (IF r = Shipped[e] THEN 1 ELSE 0)
  <1>1. lake \in Seq(Records)
    BY DEF Typed
  <1>2. InLake(lake', e) = InLake(lake, e) + (IF r \in {Shipped[e]} THEN 1 ELSE 0)
    BY <1>1, PlacesAppend DEF InLake
  <1> QED BY <1>2

LEMMA ShipAccounts ==
  ASSUME Typed, Deliveries, NEW a \in Agents, Ship(a)
  PROVE  Deliveries'
  <1>1. /\ outbox[a] # None
        /\ lake' = Append(lake, Shipped[outbox[a]])
        /\ outbox' = [outbox EXCEPT ![a] = None]
        /\ UNCHANGED <<stored, pending, drained, call>>
    BY DEF Ship, H!Ingest, evars
  <1>2. outbox \in [Agents -> Telemetry \cup {None}]
    BY DEF Typed
  <1>3. PICK e \in Telemetry : e = outbox[a]
    BY <1>1, <1>2
  <1>4. ASSUME NEW g \in Telemetry
        PROVE  /\ InLake(lake', g) = InLake(lake, g) + Is(e, g)
               /\ Holding(outbox', g) + Is(e, g) = Holding(outbox, g)
               /\ Holding(outbox', g) \in Nat /\ Is(e, g) \in Nat
    <2>1. Gives(outbox, a, None, outbox')
      BY <1>1, <1>2 DEF Gives
    <2>2. /\ Holding(outbox, g) \in Nat /\ Holding(outbox', g) \in Nat
          /\ Holding(outbox', g) + Is(outbox[a], g) = Holding(outbox, g) + Is(None, g)
      BY <2>1, HoldingStep
    <2>3. InLake(lake', g) = InLake(lake, g) + (IF Shipped[e] = Shipped[g] THEN 1 ELSE 0)
      <3>1. Shipped[e] \in Records
        BY DEF Records
      <3> QED BY <1>1, <1>3, <3>1, LakeAccounts
    <2>4. Shipped[e] = Shipped[g] <=> e = g
      BY ShippedAssumption
    <2>5. Is(None, g) = 0 /\ Is(e, g) \in Nat
      BY NoneIsNoEvent, IsNumber
    <2>6. InLake(lake', g) = InLake(lake, g) + Is(e, g)
      BY <2>3, <2>4 DEF Is
    <2> QED BY <1>3, <2>2, <2>5, <2>6
  <1>5. Accounts'
    <2> SUFFICES ASSUME NEW g \in Telemetry
                 PROVE  /\ Tells(drained', g) + Tells(pending', g) =
                             IF D!Finding(g) = None THEN 0 ELSE stored'[g] + Holding(call', g)
                        /\ InLake(lake', g) + Holding(outbox', g) = stored'[g]
      BY DEF Accounts
    <2>1. /\ Tells(drained, g) + Tells(pending, g) =
               IF D!Finding(g) = None THEN 0 ELSE stored[g] + Holding(call, g)
          /\ InLake(lake, g) + Holding(outbox, g) = stored[g]
          /\ stored[g] \in Nat
      BY DEF Deliveries, Accounts
    <2>2. InLake(lake, g) \in Nat
      BY InLakeNat
    <2>0. UNCHANGED <<stored, pending, drained, call>> /\ Is(e, g) \in Nat
      BY <1>1, IsNumber
    <2>3. CASE D!Finding(g) = None
      BY <1>4, <2>0, <2>1, <2>2, <2>3
    <2>4. CASE D!Finding(g) # None
      BY <1>4, <2>0, <2>1, <2>2, <2>4
    <2> QED BY <2>3, <2>4
  <1>6. \A b \in Agents : call'[b] = None \/ outbox'[b] = None
    BY <1>1, <1>2 DEF Deliveries
  <1> QED BY <1>1, <1>5, <1>6 DEF Deliveries

LEMMA OthersAccounts ==
  ASSUME Typed, Deliveries, NEW r \in Others, H!Ingest(r), UNCHANGED <<evars, outbox>>
  PROVE  Deliveries'
  <1>1. lake' = Append(lake, r) /\ UNCHANGED <<stored, pending, drained, call, outbox>>
    BY DEF H!Ingest, evars
  <1>2. \A e \in Telemetry : InLake(lake', e) = InLake(lake, e)
    <2> SUFFICES ASSUME NEW e \in Telemetry PROVE InLake(lake', e) = InLake(lake, e)
      OBVIOUS
    <2>1. InLake(lake', e) = InLake(lake, e) + (IF r = Shipped[e] THEN 1 ELSE 0)
      BY <1>1, LakeAccounts DEF Records
    <2>2. r # Shipped[e]
      BY ShippedAssumption
    <2> QED BY <2>1, <2>2, InLakeNat
  <1> QED BY <1>1, <1>2 DEF Deliveries, Accounts

(* A drain moves what is told from one list to the other.                  *)
LEMMA DrainAccounts ==
  ASSUME Typed, Deliveries, Drain
  PROVE  Deliveries'
  <1>1. /\ drained' = drained \o pending /\ pending' = <<>>
        /\ UNCHANGED <<stored, call, lake, outbox>>
    BY DEF Drain, D!Drain, hvars
  <1>2. pending \in Seq(D!Announcement) /\ drained \in Seq(D!Announcement)
    BY DEF Deliveries
  <1>3. \A e : Tells(drained', e) + Tells(pending', e) = Tells(drained, e) + Tells(pending, e)
    <2> SUFFICES ASSUME NEW e
                 PROVE  Tells(drained', e) + Tells(pending', e) = Tells(drained, e) + Tells(pending, e)
      OBVIOUS
    <2>1. Tells(drained', e) = Tells(drained, e) + Tells(pending, e)
      BY <1>1, <1>2, PlacesConcat DEF Tells
    <2>2. Tells(pending', e) = 0
      BY <1>1, NothingIn DEF Tells
    <2> QED BY <2>1, <2>2, TellsNat
  <1>4. drained' \in Seq(D!Announcement) /\ pending' \in Seq(D!Announcement)
    BY <1>1, <1>2
  <1> QED BY <1>1, <1>3, <1>4 DEF Deliveries, Accounts

LEMMA QuietAccounts ==
  ASSUME Deliveries, UNCHANGED <<stored, pending, drained, call, lake, outbox>>
  PROVE  Deliveries'
  BY DEF Deliveries, Accounts

LEMMA NextDeliveries == Typed /\ Deliveries /\ [Next]_vars => Deliveries'
  <1> SUFFICES ASSUME Typed, Deliveries, [Next]_vars PROVE Deliveries'
    OBVIOUS
  <1>1. ASSUME NEW h \in Hunts, H!CreateHunt(h), UNCHANGED <<evars, outbox>> PROVE Deliveries'
    BY <1>1, QuietAccounts DEF H!CreateHunt, evars
  <1>2. ASSUME NEW x \in Hunters, NEW h \in Hunts, H!Begin(x, h), UNCHANGED <<evars, outbox>>
        PROVE  Deliveries'
    BY <1>2, QuietAccounts DEF H!Begin, evars
  <1>3. ASSUME NEW x \in Hunters, Hunt(x) PROVE Deliveries'
    BY <1>3, QuietAccounts
       DEF Hunt, H!Continue, H!Search, H!CorrelateFirst, H!CorrelateSecond, H!Finish, evars
  <1>4. CASE UNCHANGED vars
    BY <1>4, QuietAccounts DEF vars
  <1> QED BY <1>1, <1>2, <1>3, <1>4, IngestAccounts, StoreAccounts, ShipAccounts, OthersAccounts,
             DrainAccounts DEF Next

LEMMA DeliveriesImply == Typed /\ Deliveries => D!Delivered /\
  \A e \in Telemetry :
    Cardinality({n \in 1..Len(lake) : lake[n] = Shipped[e]})
      + Cardinality({a \in Agents : outbox[a] = e}) = stored[e]
  <1> SUFFICES ASSUME Typed, Deliveries, NEW e \in Telemetry
               PROVE  /\ D!Told(e) = IF D!Finding(e) = None THEN 0 ELSE stored[e] + D!InFlight(e)
                      /\ Cardinality({n \in 1..Len(lake) : lake[n] = Shipped[e]})
                           + Cardinality({a \in Agents : outbox[a] = e}) = stored[e]
    BY DEF D!Delivered
  <1> DEFINE all == drained \o pending
  <1>1. pending \in Seq(D!Announcement) /\ drained \in Seq(D!Announcement)
    BY DEF Deliveries
  <1>2. all \in Seq(D!Announcement)
    BY <1>1
  <1>3. Tells(all, e) = Tells(drained, e) + Tells(pending, e)
    BY <1>1, PlacesConcat DEF Tells
  <1>4. D!Told(e) = Cardinality({n \in 1..Len(all) : all[n].of = e})
    BY SameCount DEF D!Told
  <1> HIDE DEF all
  <1>5. {n \in 1..Len(all) : all[n].of = e} = Places(all, Announcing(e))
    BY <1>2 DEF Places, Announcing
  <1>6. D!InFlight(e) = Holding(call, e)
    BY SameCount DEF D!InFlight, Holding
  <1>7. {n \in 1..Len(lake) : lake[n] = Shipped[e]} = Places(lake, {Shipped[e]})
    BY DEF Places
  <1> QED BY <1>3, <1>4, <1>5, <1>6, <1>7 DEF Deliveries, Accounts, Tells, InLake, Holding
-----------------------------------------------------------------------------
(***************************************************************************)
(* The timelines.                                                          *)
(***************************************************************************)
Result == [hunt : Hunts, record : Nat]

(* H!Asked of the lake l.                                                  *)
HasKind(l, m, k) == \E j \in 1..m : l[j].kind = k
Wanted(l, h, n, m) ==
  \/ /\ n = 0 /\ H!Correlates(h)
     /\ HasKind(l, m, Of[h].pair[1]) /\ HasKind(l, m, Of[h].pair[2])
  \/ /\ n # 0 /\ n <= m /\ l[n].tenant = Of[h].tenant
     /\ \/ Of[h].search = "Historical" /\ l[n].kind \in Of[h].kinds
        \/ Of[h].search = "Ioc" /\ l[n].text \in Of[h].texts
        \/ Of[h].search = "Behavioral" /\ l[n].kind = "behavior" /\ l[n].text \in Of[h].texts

Count(s, n)       == Cardinality(Places(s, {n}))
Times(rs, h, n)   == Count(rs, [hunt |-> h, record |-> n])
Sure(l, ms, h, n) == Cardinality(Places(ms, {m \in Nat : Wanted(l, h, n, m)}))

(* What a search that has seen m records at least, and no more than there  *)
(* are, may find of the record n.                                          *)
Fits(c, l, h, n, m) ==
  /\ c \in {0, 1}
  /\ Wanted(l, h, n, m) => c = 1
  /\ c = 1 => Wanted(l, h, n, Len(l))

(* No run has begun with more records than there are.                      *)
Searches ==
  /\ results \in Seq(Result)
  /\ \A x \in Hunters : /\ run[x].pc \in {"idle", "search", "second", "finish"}
                        /\ run[x].first \in BOOLEAN
                        /\ run[x].found \in Seq(Nat)
                        /\ run[x].since <= Len(lake)
  /\ \A h \in Hunts : \A k \in 1..Len(runs[h]) : runs[h][k] <= Len(lake)

(* Half a correlation: the first of the two kinds has been looked for.     *)
HalfFound ==
  \A x \in Hunters : \A h \in Hunts : run[x].pc = "second" /\ run[x].hunt = h =>
    /\ H!Correlates(h)
    /\ run[x].first => HasKind(lake, Len(lake), Of[h].pair[1])
    /\ HasKind(lake, run[x].since, Of[h].pair[1]) => run[x].first

FoundFits ==
  \A x \in Hunters : \A h \in Hunts : run[x].pc = "finish" /\ run[x].hunt = h =>
    \A n \in Nat : Fits(Count(run[x].found, n), lake, h, n, run[x].since)

(* H!ResultsExact for any number.                                          *)
Lines ==
  \A h \in Hunts : \A n \in Nat :
    /\ Sure(lake, runs[h], h, n) <= Times(results, h, n)
    /\ Times(results, h, n) <= Len(runs[h])
    /\ Times(results, h, n) > 0 => Wanted(lake, h, n, Len(lake))

Timelines == Searches /\ HalfFound /\ FoundFits /\ Lines

(* What is asked for depends on the records that were there alone, and more*)
(* of them do not take it back.                                            *)
LEMMA WantedGrows ==
  ASSUME NEW l \in Seq(Records), NEW r \in Records, NEW h, NEW n \in Nat,
         NEW m \in Nat, m <= Len(l)
  PROVE  /\ Wanted(Append(l, r), h, n, m) <=> Wanted(l, h, n, m)
         /\ Wanted(l, h, n, m) => Wanted(l, h, n, Len(l))
         /\ Wanted(l, h, n, Len(l)) => Wanted(Append(l, r), h, n, Len(Append(l, r)))
         /\ \A k : HasKind(Append(l, r), m, k) <=> HasKind(l, m, k)
         /\ \A k : HasKind(l, Len(l), k) => HasKind(Append(l, r), Len(Append(l, r)), k)
  <1> DEFINE L == Append(l, r)
  <1>1. /\ Len(l) \in Nat /\ Len(L) = Len(l) + 1
        /\ \A j \in 1..Len(l) : L[j] = l[j]
    OBVIOUS
  <1> HIDE DEF L
  <1>2. \A k : HasKind(L, m, k) <=> HasKind(l, m, k)
    BY <1>1 DEF HasKind
  <1>3. \A k : HasKind(l, m, k) => HasKind(l, Len(l), k)
    BY <1>1 DEF HasKind
  <1>4. \A k : HasKind(l, Len(l), k) => HasKind(L, Len(L), k)
    BY <1>1 DEF HasKind
  <1>5. n # 0 /\ n <= Len(l) => L[n] = l[n] /\ n <= Len(L)
    BY <1>1
  <1>6. n <= m => n <= Len(l)
    BY <1>1
  <1>7. Wanted(L, h, n, m) <=> Wanted(l, h, n, m)
    BY <1>2, <1>5, <1>6 DEF Wanted
  <1>8. Wanted(l, h, n, m) => Wanted(l, h, n, Len(l))
    BY <1>3, <1>6 DEF Wanted
  <1>9. Wanted(l, h, n, Len(l)) => Wanted(L, h, n, Len(L))
    BY <1>4, <1>5 DEF Wanted
  <1> QED BY <1>2, <1>4, <1>7, <1>8, <1>9 DEF L

(***************************************************************************)
(* What the searches find.                                                 *)
(***************************************************************************)
LEMMA ListedCount ==
  ASSUME Typed, NEW ns \in SUBSET (1..Len(lake))
  PROVE  /\ H!Listed(ns) \in Seq(Nat)
         /\ \A n \in Nat : Count(H!Listed(ns), n) = IF n \in ns THEN 1 ELSE 0
  <1> DEFINE m == Len(lake)
             s == [k \in 1..m |-> k]
  <1>1. m \in Nat
    BY DEF Typed
  <1>2. H!Listed(ns) = Sift(s, ns)
    BY SameSift DEF H!Listed
  <1> HIDE DEF m
  <1>3. s \in Seq(Nat) /\ Len(s) = m /\ \A k \in 1..m : s[k] = k
    BY <1>1
  <1>4. ns \in SUBSET (1..m)
    BY DEF m
  <1> HIDE DEF s
  <1>5. Sift(s, ns) \in Seq(Nat)
    BY <1>3, SiftProperties
  <1>6. ASSUME NEW n \in Nat PROVE Count(Sift(s, ns), n) = IF n \in ns THEN 1 ELSE 0
    <2>1. Count(Sift(s, ns), n) = Cardinality(ns \cap Places(s, {n}))
      BY <1>3, SiftCount DEF Count
    <2>2. ns \cap Places(s, {n}) = IF n \in ns THEN {n} ELSE {}
      BY <1>3, <1>4 DEF Places
    <2> QED BY <2>1, <2>2, FS_Singleton, FS_EmptySet
  <1> QED BY <1>2, <1>5, <1>6

LEMMA WithinCount ==
  ASSUME NEW s \in Seq(Nat), NEW V
  PROVE  /\ Sift(s, Places(s, V)) \in Seq(Nat)
         /\ \A n \in Nat : Count(Sift(s, Places(s, V)), n) = IF n \in V THEN Count(s, n) ELSE 0
  <1>1. Sift(s, Places(s, V)) \in Seq(Nat)
    BY SiftProperties
  <1>2. ASSUME NEW n \in Nat
        PROVE  Count(Sift(s, Places(s, V)), n) = IF n \in V THEN Count(s, n) ELSE 0
    <2>1. Count(Sift(s, Places(s, V)), n) = Cardinality(Places(s, V) \cap Places(s, {n}))
      BY SiftCount DEF Count
    <2>2. Places(s, V) \cap Places(s, {n}) = IF n \in V THEN Places(s, {n}) ELSE {}
      BY DEF Places
    <2> QED BY <2>1, <2>2, FS_EmptySet DEF Count
  <1> QED BY <1>1, <1>2

(* A search that lists the lake once finds what its hunt asks for, once.   *)
LEMMA HitsCount ==
  ASSUME Typed, NEW h \in Hunts, ~H!Correlates(h)
  PROVE  /\ H!Hits(h) \in Seq(Nat)
         /\ \A n \in Nat : Count(H!Hits(h), n) = IF Wanted(lake, h, n, Len(lake)) THEN 1 ELSE 0
  <1> DEFINE m == Len(lake)
             Own == {n \in 1..m : lake[n].tenant = Of[h].tenant}
             Behaviour == {n \in 1..m : lake[n].kind = "behavior"}
             KindV == {n \in Nat : lake[n].kind \in Of[h].kinds}
             TextV == {n \in Nat : lake[n].text \in Of[h].texts}
             BothV == {n \in Nat : lake[n].tenant = Of[h].tenant /\ lake[n].text \in Of[h].texts}
             own == H!ByTenant(h)
             all == H!ByKind("behavior")
  <1>1. m \in Nat /\ Of[h].search \in H!Searches
    <2>1. m \in Nat
      BY DEF Typed
    <2> QED BY <2>1, EngineAssumptions DEF H!Assumption
  <1>2. own = H!Listed(Own) /\ all = H!Listed(Behaviour)
    BY DEF H!ByTenant, H!ByKind
  <1>3. /\ own \in Seq(Nat) /\ \A n \in Nat : Count(own, n) = IF n \in Own THEN 1 ELSE 0
        /\ all \in Seq(Nat) /\ \A n \in Nat : Count(all, n) = IF n \in Behaviour THEN 1 ELSE 0
    <2>1. Own \in SUBSET (1..Len(lake)) /\ Behaviour \in SUBSET (1..Len(lake))
      OBVIOUS
    <2> HIDE DEF Own, Behaviour, own, all
    <2> QED BY <1>2, <2>1, ListedCount
  <1>4. CASE Of[h].search = "Historical"
    <2>1. H!Hits(h) = Sift(own, {k \in 1..Len(own) : lake[own[k]].kind \in Of[h].kinds})
      BY <1>4, SameSift DEF H!Hits, H!SearchHistorical
    <2> HIDE DEF own
    <2>2. {k \in 1..Len(own) : lake[own[k]].kind \in Of[h].kinds} = Places(own, KindV)
      BY <1>3 DEF Places
    <2> HIDE DEF KindV
    <2>3. /\ H!Hits(h) \in Seq(Nat)
          /\ \A n \in Nat : Count(H!Hits(h), n) = IF n \in KindV THEN Count(own, n) ELSE 0
      <3>1. H!Hits(h) = Sift(own, Places(own, KindV)) /\ own \in Seq(Nat)
        BY <1>3, <2>1, <2>2
      <3> QED BY <3>1, WithinCount
    <2>4. \A n \in Nat : n \in KindV /\ n \in Own <=> Wanted(lake, h, n, m)
      BY <1>1, <1>4 DEF Wanted, KindV, H!Correlates
    <2> HIDE DEF Own, m
    <2>5. \A n \in Nat : Count(H!Hits(h), n) = IF Wanted(lake, h, n, m) THEN 1 ELSE 0
      BY <1>3, <2>3, <2>4
    <2> QED BY <2>3, <2>5 DEF m
  <1>5. CASE Of[h].search = "Ioc"
    <2>1. H!Hits(h) = Sift(own, {k \in 1..Len(own) : lake[own[k]].text \in Of[h].texts})
      BY <1>5, SameSift DEF H!Hits, H!SearchIoc
    <2> HIDE DEF own
    <2>2. {k \in 1..Len(own) : lake[own[k]].text \in Of[h].texts} = Places(own, TextV)
      BY <1>3 DEF Places
    <2> HIDE DEF TextV
    <2>3. /\ H!Hits(h) \in Seq(Nat)
          /\ \A n \in Nat : Count(H!Hits(h), n) = IF n \in TextV THEN Count(own, n) ELSE 0
      <3>1. H!Hits(h) = Sift(own, Places(own, TextV)) /\ own \in Seq(Nat)
        BY <1>3, <2>1, <2>2
      <3> QED BY <3>1, WithinCount
    <2>4. \A n \in Nat : n \in TextV /\ n \in Own <=> Wanted(lake, h, n, m)
      BY <1>1, <1>5 DEF Wanted, TextV, H!Correlates
    <2> HIDE DEF Own, m
    <2>5. \A n \in Nat : Count(H!Hits(h), n) = IF Wanted(lake, h, n, m) THEN 1 ELSE 0
      BY <1>3, <2>3, <2>4
    <2> QED BY <2>3, <2>5 DEF m
  <1>6. CASE Of[h].search = "Behavioral"
    <2>1. H!Hits(h) = Sift(all, {k \in 1..Len(all) : lake[all[k]].tenant = Of[h].tenant
                                                     /\ lake[all[k]].text \in Of[h].texts})
      BY <1>6, SameSift DEF H!Hits, H!SearchBehavioral
    <2> HIDE DEF all
    <2>2. {k \in 1..Len(all) : lake[all[k]].tenant = Of[h].tenant
                               /\ lake[all[k]].text \in Of[h].texts} = Places(all, BothV)
      BY <1>3 DEF Places
    <2> HIDE DEF BothV
    <2>3. /\ H!Hits(h) \in Seq(Nat)
          /\ \A n \in Nat : Count(H!Hits(h), n) = IF n \in BothV THEN Count(all, n) ELSE 0
      <3>1. H!Hits(h) = Sift(all, Places(all, BothV)) /\ all \in Seq(Nat)
        BY <1>3, <2>1, <2>2
      <3> QED BY <3>1, WithinCount
    <2>4. \A n \in Nat : n \in BothV /\ n \in Behaviour <=> Wanted(lake, h, n, m)
      BY <1>1, <1>6 DEF Wanted, BothV, H!Correlates
    <2> HIDE DEF Behaviour, m
    <2>5. \A n \in Nat : Count(H!Hits(h), n) = IF Wanted(lake, h, n, m) THEN 1 ELSE 0
      BY <1>3, <2>3, <2>4
    <2> QED BY <2>3, <2>5 DEF m
  <1>7. CASE Of[h].search = "Correlation"
    <2>1. H!Hits(h) = <<>>
      BY <1>7 DEF H!Hits
    <2>2. \A n \in Nat : ~Wanted(lake, h, n, Len(lake))
      BY <1>7 DEF Wanted
    <2> QED BY <2>1, <2>2, NothingIn DEF Count
  <1> QED BY <1>1, <1>4, <1>5, <1>6, <1>7 DEF H!Searches

(* Nothing is listed of a kind exactly if there is nothing of it.          *)
LEMMA KindListed ==
  ASSUME Typed, NEW k
  PROVE  H!ByKind(k) # <<>> <=> HasKind(lake, Len(lake), k)
  <1> DEFINE ns == {n \in 1..Len(lake) : lake[n].kind = k}
             s == H!Listed(ns)
  <1>1. Len(lake) \in Nat
    BY DEF Typed
  <1>2. H!ByKind(k) = s
    BY DEF H!ByKind
  <1>3. HasKind(lake, Len(lake), k) <=> ns # {}
    BY DEF HasKind
  <1>4. ns \in SUBSET (1..Len(lake))
    OBVIOUS
  <1>5. \A n \in ns : n \in Nat
    BY <1>1
  <1> HIDE DEF ns
  <1>6. s \in Seq(Nat) /\ \A n \in Nat : Count(s, n) = IF n \in ns THEN 1 ELSE 0
    BY <1>4, ListedCount
  <1> HIDE DEF s
  <1>7. ASSUME s = <<>> PROVE ns = {}
    <2>1. \A n : Count(s, n) = 0
      BY <1>7, NothingIn DEF Count
    <2> QED BY <1>5, <1>6, <2>1
  <1>8. ASSUME s # <<>> PROVE ns # {}
    <2>1. 1 \in 1..Len(s) /\ s[1] \in Nat
      BY <1>6, <1>8
    <2>2. 1 \in Places(s, {s[1]})
      BY <2>1 DEF Places
    <2>3. IsFiniteSet(Places(s, {s[1]}))
      BY <1>6, PlacesFinite
    <2>4. Count(s, s[1]) # 0
      BY <2>2, <2>3, FS_EmptySet DEF Count
    <2> QED BY <1>6, <2>1, <2>4
  <1> QED BY <1>2, <1>3, <1>7, <1>8

(***************************************************************************)
(* The steps.                                                              *)
(***************************************************************************)
LEMMA FrameFacts ==
  ASSUME IInv
  PROVE  /\ lake \in Seq(Records) /\ Len(lake) \in Nat
         /\ \A h \in Hunts : runs[h] \in Seq(Nat)
         /\ \A x \in Hunters : run[x].since \in Nat /\ (run[x].pc # "idle" => run[x].hunt \in Hunts)
  BY DEF IInv, Typed, RunsMarked

LEMMA InitTimelines == Init => Timelines
  <1> SUFFICES ASSUME Init PROVE Timelines
    OBVIOUS
  <1>1. /\ results = <<>> /\ lake = <<>> /\ runs = [h \in Hunts |-> <<>>]
        /\ run = [x \in Hunters |-> H!Idle]
    BY DEF Init, H!Init
  <1>2. \A x \in Hunters : run[x] = H!Idle
    BY <1>1
  <1>3. \A h \in Hunts : runs[h] = <<>>
    BY <1>1
  <1>4. Searches
    <2>1. results \in Seq(Result) /\ Len(lake) = 0 /\ \A h \in Hunts : 1..Len(runs[h]) = {}
      BY <1>1, <1>3
    <2>2. \A x \in Hunters : /\ run[x].pc \in {"idle", "search", "second", "finish"}
                             /\ run[x].first \in BOOLEAN
                             /\ run[x].found \in Seq(Nat)
                             /\ run[x].since <= Len(lake)
      <3>1. <<>> \in Seq(Nat) /\ 0 <= Len(lake)
        BY <2>1
      <3>2. \A x \in Hunters : /\ run[x].pc = "idle" /\ run[x].first = FALSE
                               /\ run[x].found = <<>> /\ run[x].since = 0
        BY <1>2 DEF H!Idle
      <3> QED BY <3>1, <3>2
    <2> QED BY <2>1, <2>2 DEF Searches
  <1>5. HalfFound /\ FoundFits
    BY <1>2 DEF HalfFound, FoundFits, H!Idle
  <1>6. Lines
    <2> SUFFICES ASSUME NEW h \in Hunts, NEW n \in Nat
                 PROVE  Sure(lake, runs[h], h, n) = 0 /\ Times(results, h, n) = 0 /\ Len(runs[h]) = 0
      BY DEF Lines
    <2> QED BY <1>1, <1>3, NothingIn DEF Sure, Times, Count
  <1> QED BY <1>4, <1>5, <1>6 DEF Timelines

LEMMA QuietTimelines ==
  ASSUME Timelines, UNCHANGED <<lake, results, runs, run>>
  PROVE  Timelines'
  BY DEF Timelines, Searches, HalfFound, FoundFits, Lines

(* One more record changes nothing that was sure, and asks nothing of the  *)
(* runs that have begun.                                                   *)
LEMMA LakeTimelines ==
  ASSUME IInv, Timelines, NEW r \in Records, lake' = Append(lake, r),
         UNCHANGED <<results, runs, run>>
  PROVE  Timelines'
  <1>1. /\ lake \in Seq(Records) /\ Len(lake) \in Nat /\ Len(lake') = Len(lake) + 1
        /\ \A h \in Hunts : runs[h] \in Seq(Nat)
        /\ \A x \in Hunters : run[x].since \in Nat /\ run[x].since <= Len(lake)
        /\ \A h \in Hunts : \A k \in 1..Len(runs[h]) : runs[h][k] <= Len(lake)
    BY FrameFacts DEF Timelines, Searches
  <1>2. \A h : \A n \in Nat : \A m \in Nat : m <= Len(lake) =>
          /\ Wanted(lake', h, n, m) <=> Wanted(lake, h, n, m)
          /\ Wanted(lake, h, n, Len(lake)) => Wanted(lake', h, n, Len(lake'))
    BY <1>1, WantedGrows
  <1>3. \A k : /\ \A m \in Nat : m <= Len(lake) => (HasKind(lake', m, k) <=> HasKind(lake, m, k))
               /\ HasKind(lake, Len(lake), k) => HasKind(lake', Len(lake'), k)
    BY <1>1 DEF HasKind
  <1>4. Searches'
    <2>1. \A m \in Nat : m <= Len(lake) => m <= Len(lake')
      BY <1>1
    <2>2. \A h \in Hunts : \A k \in 1..Len(runs[h]) : runs[h][k] \in Nat
      BY <1>1
    <2> QED BY <1>1, <2>1, <2>2 DEF Timelines, Searches
  <1>5. HalfFound'
    BY <1>1, <1>3 DEF Timelines, HalfFound
  <1>6. FoundFits'
    <2> SUFFICES ASSUME NEW x \in Hunters, NEW h \in Hunts, NEW n \in Nat,
                        run[x].pc = "finish" /\ run[x].hunt = h
                 PROVE  Fits(Count(run[x].found, n), lake', h, n, run[x].since)
      BY DEF FoundFits
    <2>1. Fits(Count(run[x].found, n), lake, h, n, run[x].since)
      BY DEF Timelines, FoundFits
    <2> QED BY <1>1, <1>2, <2>1 DEF Fits
  <1>7. Lines'
    <2> SUFFICES ASSUME NEW h \in Hunts, NEW n \in Nat
                 PROVE  /\ Sure(lake', runs[h], h, n) <= Times(results, h, n)
                        /\ Times(results, h, n) <= Len(runs[h])
                        /\ Times(results, h, n) > 0 => Wanted(lake', h, n, Len(lake'))
      BY DEF Lines
    <2>1. /\ Sure(lake, runs[h], h, n) <= Times(results, h, n)
          /\ Times(results, h, n) <= Len(runs[h])
          /\ Times(results, h, n) > 0 => Wanted(lake, h, n, Len(lake))
      BY DEF Timelines, Lines
    <2>2. \A k \in 1..Len(runs[h]) : runs[h][k] \in Nat /\ runs[h][k] <= Len(lake)
      BY <1>1
    <2>3. Places(runs[h], {m \in Nat : Wanted(lake', h, n, m)})
            = Places(runs[h], {m \in Nat : Wanted(lake, h, n, m)})
      BY <1>2, <2>2 DEF Places
    <2>4. Sure(lake', runs[h], h, n) = Sure(lake, runs[h], h, n)
      BY <2>3 DEF Sure
    <2>5. Wanted(lake, h, n, Len(lake)) => Wanted(lake', h, n, Len(lake'))
      BY <1>1, <1>2
    <2> QED BY <2>1, <2>4, <2>5
  <1> QED BY <1>4, <1>5, <1>6, <1>7 DEF Timelines

(* What a step of one hunter leaves of the others.                         *)
LEMMA HunterStep ==
  ASSUME IInv, Timelines, NEW x \in Hunters, UNCHANGED <<lake, results, runs>>,
         \A y \in Hunters : y # x => run'[y] = run[y],
         run'[x].pc \in {"idle", "search", "second", "finish"}, run'[x].first \in BOOLEAN,
         run'[x].found \in Seq(Nat), run'[x].since <= Len(lake),
         \A h \in Hunts : run'[x].pc = "second" /\ run'[x].hunt = h =>
           /\ H!Correlates(h)
           /\ run'[x].first => HasKind(lake, Len(lake), Of[h].pair[1])
           /\ HasKind(lake, run'[x].since, Of[h].pair[1]) => run'[x].first,
         \A h \in Hunts : run'[x].pc = "finish" /\ run'[x].hunt = h =>
           \A n \in Nat : Fits(Count(run'[x].found, n), lake, h, n, run'[x].since)
  PROVE  Timelines'
  <1>1. Searches'
    BY DEF Timelines, Searches
  <1>2. HalfFound'
    BY DEF Timelines, HalfFound
  <1>3. FoundFits'
    BY DEF Timelines, FoundFits
  <1>4. Lines'
    BY DEF Timelines, Lines
  <1> QED BY <1>1, <1>2, <1>3, <1>4 DEF Timelines

LEMMA BeginTimelines ==
  ASSUME IInv, Timelines, NEW x \in Hunters, NEW h \in Hunts, H!Begin(x, h)
  PROVE  Timelines'
  <1>1. /\ run' = [run EXCEPT ![x] = [H!Idle EXCEPT !.pc = "search", !.hunt = h, !.since = Len(lake)]]
        /\ UNCHANGED <<lake, results, runs>>
    BY DEF H!Begin
  <1>2. run = [y \in Hunters |-> run[y]] /\ Len(lake) \in Nat
    BY FrameFacts DEF IInv, Typed
  <1>3. /\ run'[x].pc = "search" /\ run'[x].first = FALSE /\ run'[x].found = <<>>
        /\ run'[x].since = Len(lake)
        /\ \A y \in Hunters : y # x => run'[y] = run[y]
    BY <1>1, <1>2 DEF H!Idle
  <1>4. run'[x].found \in Seq(Nat) /\ run'[x].since <= Len(lake)
    BY <1>2, <1>3
  <1> QED BY <1>1, <1>3, <1>4, HunterStep

(* What a search comes up with.                                            *)
LEMMA FoundTimelines ==
  ASSUME IInv, Timelines, NEW x \in Hunters, NEW ns \in Seq(Nat), H!Found(x, ns),
         UNCHANGED <<lake, results, runs>>,
         \A n \in Nat : Fits(Count(ns, n), lake, run[x].hunt, n, run[x].since)
  PROVE  Timelines'
  <1>1. run = [y \in Hunters |-> run[y]]
        /\ run[x] = [pc |-> run[x].pc, hunt |-> run[x].hunt, since |-> run[x].since,
                     first |-> run[x].first, found |-> run[x].found]
    BY DEF IInv, Typed
  <1>2. /\ run'[x].pc = "finish" /\ run'[x].first = run[x].first /\ run'[x].found = ns
        /\ run'[x].hunt = run[x].hunt /\ run'[x].since = run[x].since
        /\ \A y \in Hunters : y # x => run'[y] = run[y]
    BY <1>1 DEF H!Found
  <1>3. run[x].first \in BOOLEAN /\ run[x].since <= Len(lake)
    BY DEF Timelines, Searches
  <1> QED BY <1>2, <1>3, HunterStep

LEMMA SearchTimelines ==
  ASSUME IInv, Timelines, NEW x \in Hunters, H!Search(x)
  PROVE  Timelines'
  <1>1. /\ run[x].pc # "idle" /\ ~H!Correlates(run[x].hunt)
        /\ H!Found(x, H!Hits(run[x].hunt)) /\ UNCHANGED <<lake, results, runs>>
    BY DEF H!Search, H!At
  <1>2. run[x].hunt \in Hunts /\ run[x].since \in Nat /\ run[x].since <= Len(lake)
    BY <1>1, FrameFacts DEF Timelines, Searches
  <1>3. PICK h \in Hunts : h = run[x].hunt
    BY <1>2
  <1>4. /\ H!Hits(h) \in Seq(Nat)
        /\ \A n \in Nat : Count(H!Hits(h), n) = IF Wanted(lake, h, n, Len(lake)) THEN 1 ELSE 0
    BY <1>1, <1>3, HitsCount DEF IInv
  <1>5. ASSUME NEW n \in Nat PROVE Fits(Count(H!Hits(h), n), lake, h, n, run[x].since)
    <2>1. Wanted(lake, h, n, run[x].since) => Wanted(lake, h, n, Len(lake))
      BY <1>2, FrameFacts DEF Wanted, HasKind
    <2> QED BY <1>4, <2>1 DEF Fits
  <1> QED BY <1>1, <1>3, <1>4, <1>5, FoundTimelines

LEMMA CorrelateFirstTimelines ==
  ASSUME IInv, Timelines, NEW x \in Hunters, H!CorrelateFirst(x)
  PROVE  Timelines'
  <1>1. /\ run[x].pc # "idle" /\ H!Correlates(run[x].hunt)
        /\ run' = [run EXCEPT ![x].pc = "second",
                              ![x].first = H!ByKind(Of[run[x].hunt].pair[1]) # <<>>]
        /\ UNCHANGED <<lake, results, runs>>
    BY DEF H!CorrelateFirst, H!At
  <1>2. run[x].hunt \in Hunts /\ run[x].since \in Nat /\ run[x].since <= Len(lake)
        /\ run[x].found \in Seq(Nat) /\ Len(lake) \in Nat
    BY <1>1, FrameFacts DEF Timelines, Searches
  <1>3. run = [y \in Hunters |-> run[y]]
        /\ run[x] = [pc |-> run[x].pc, hunt |-> run[x].hunt, since |-> run[x].since,
                     first |-> run[x].first, found |-> run[x].found]
    BY DEF IInv, Typed
  <1>4. /\ run'[x].pc = "second" /\ run'[x].found = run[x].found
        /\ run'[x].first = (H!ByKind(Of[run[x].hunt].pair[1]) # <<>>)
        /\ run'[x].hunt = run[x].hunt /\ run'[x].since = run[x].since
        /\ \A y \in Hunters : y # x => run'[y] = run[y]
    BY <1>1, <1>3
  <1>5. /\ run'[x].first \in BOOLEAN
        /\ run'[x].first <=> HasKind(lake, Len(lake), Of[run[x].hunt].pair[1])
    BY <1>4, KindListed DEF IInv
  <1>6. HasKind(lake, run[x].since, Of[run[x].hunt].pair[1])
          => HasKind(lake, Len(lake), Of[run[x].hunt].pair[1])
    BY <1>2 DEF HasKind
  <1>7. \A h \in Hunts : run'[x].pc = "second" /\ run'[x].hunt = h =>
          /\ H!Correlates(h)
          /\ run'[x].first => HasKind(lake, Len(lake), Of[h].pair[1])
          /\ HasKind(lake, run'[x].since, Of[h].pair[1]) => run'[x].first
    BY <1>1, <1>4, <1>5, <1>6
  <1> QED BY <1>1, <1>2, <1>4, <1>5, <1>7, HunterStep

(* Both kinds were found, though not at the same time: so both are there.  *)
LEMMA CorrelateSecondTimelines ==
  ASSUME IInv, Timelines, NEW x \in Hunters, H!CorrelateSecond(x)
  PROVE  Timelines'
  <1>1. run[x].pc = "second" /\ UNCHANGED <<lake, results, runs>>
    BY DEF H!CorrelateSecond, H!At
  <1>2. run[x].hunt \in Hunts /\ run[x].since \in Nat /\ run[x].since <= Len(lake)
        /\ Len(lake) \in Nat
    BY <1>1, FrameFacts DEF Timelines, Searches
  <1>3. PICK h \in Hunts : h = run[x].hunt
    BY <1>2
  <1> DEFINE both == run[x].first /\ H!ByKind(Of[h].pair[2]) # <<>>
             ns == IF both THEN <<0>> ELSE <<>>
  <1>4. H!Found(x, ns)
    BY <1>3 DEF H!CorrelateSecond
  <1>5. /\ H!Correlates(h)
        /\ run[x].first => HasKind(lake, Len(lake), Of[h].pair[1])
        /\ HasKind(lake, run[x].since, Of[h].pair[1]) => run[x].first
    BY <1>1, <1>3 DEF Timelines, HalfFound
  <1>6. H!ByKind(Of[h].pair[2]) # <<>> <=> HasKind(lake, Len(lake), Of[h].pair[2])
    BY KindListed DEF IInv
  <1>7. HasKind(lake, run[x].since, Of[h].pair[2]) => HasKind(lake, Len(lake), Of[h].pair[2])
    BY <1>2 DEF HasKind
  <1>8. /\ both => Wanted(lake, h, 0, Len(lake))
        /\ Wanted(lake, h, 0, run[x].since) => both
    BY <1>5, <1>6, <1>7 DEF Wanted
  <1>9. \A n \in Nat, m \in Nat : n # 0 => ~Wanted(lake, h, n, m)
    BY <1>5 DEF Wanted, H!Correlates
  <1>10. both \in BOOLEAN
    OBVIOUS
  <1> HIDE DEF both
  <1>11. /\ ns \in Seq(Nat)
         /\ \A n \in Nat : Count(ns, n) = IF both /\ n = 0 THEN 1 ELSE 0
    <2>1. CASE both
      <3>1. ns = <<0>>
        BY <2>1
      <3>2. \A n \in Nat : Places(<<0>>, {n}) = IF n = 0 THEN {1} ELSE {}
        BY DEF Places
      <3>3. \A n \in Nat : Count(<<0>>, n) = IF n = 0 THEN 1 ELSE 0
        BY <3>2, FS_Singleton, FS_EmptySet DEF Count
      <3>4. <<0>> \in Seq(Nat)
        OBVIOUS
      <3> QED BY <2>1, <3>1, <3>3, <3>4
    <2>2. CASE ~both
      BY <2>2, NothingIn DEF Count
    <2> QED BY <2>1, <2>2
  <1> HIDE DEF ns
  <1>12. ASSUME NEW n \in Nat PROVE Fits(Count(ns, n), lake, h, n, run[x].since)
    <2>1. CASE n = 0
      BY <1>8, <1>11, <2>1 DEF Fits
    <2>2. CASE n # 0
      BY <1>2, <1>9, <1>11, <2>2 DEF Fits
    <2> QED BY <2>1, <2>2
  <1> QED BY <1>1, <1>3, <1>4, <1>11, <1>12, FoundTimelines

(* The results of a run are added to its timeline and to no other, and the *)
(* run to those that have finished.                                        *)
LEMMA FinishTimelines ==
  ASSUME IInv, Timelines, NEW x \in Hunters, H!Finish(x)
  PROVE  Timelines'
  <1>1. /\ run[x].pc = "finish" /\ UNCHANGED lake
        /\ results' = results \o [n \in 1..Len(run[x].found) |->
                                     [hunt |-> run[x].hunt, record |-> run[x].found[n]]]
        /\ runs' = [runs EXCEPT ![run[x].hunt] = Append(@, run[x].since)]
        /\ run' = [run EXCEPT ![x] = H!Idle]
    BY DEF H!Finish, H!At
  <1>2. /\ run[x].hunt \in Hunts /\ run[x].since \in Nat /\ run[x].since <= Len(lake)
        /\ run[x].found \in Seq(Nat) /\ Len(lake) \in Nat
    BY <1>1, FrameFacts DEF Timelines, Searches
  <1>3. PICK h \in Hunts : h = run[x].hunt
    BY <1>2
  <1> DEFINE since == run[x].since
             found == run[x].found
             new == [n \in 1..Len(found) |-> [hunt |-> h, record |-> found[n]]]
  <1>4. /\ runs \in [Hunts -> Seq(Nat)] /\ results \in Seq(Result)
        /\ run = [y \in Hunters |-> run[y]]
        /\ \A g \in Hunts : \A k \in 1..Len(runs[g]) : runs[g][k] <= Len(lake)
    BY DEF IInv, Typed, Timelines, Searches
  <1>5. new \in Seq(Result) /\ Len(new) = Len(found)
        /\ \A k \in 1..Len(found) : new[k] = [hunt |-> h, record |-> found[k]]
    BY <1>2 DEF Result
  <1>6. results' = results \o new /\ results' \in Seq(Result)
    BY <1>1, <1>3, <1>4, <1>5
  <1>7. /\ runs'[h] = Append(runs[h], since)
        /\ \A g \in Hunts : g # h => runs'[g] = runs[g]
        /\ \A y \in Hunters : run'[y] = IF y = x THEN H!Idle ELSE run[y]
    BY <1>1, <1>3, <1>4
  <1> HIDE DEF new
  <1>8. ASSUME NEW g \in Hunts, NEW n \in Nat
        PROVE  /\ Times(results', g, n) = Times(results, g, n)
                                          + (IF g = h THEN Count(found, n) ELSE 0)
               /\ Times(results, g, n) \in Nat
    <2> DEFINE v == [hunt |-> g, record |-> n]
    <2>1. Places(new, {v}) = IF g = h THEN Places(found, {n}) ELSE {}
      <3>1. \A k \in 1..Len(found) : new[k] = v <=> g = h /\ found[k] = n
        <4>1. \A i : [hunt |-> h, record |-> i] = [hunt |-> g, record |-> n] <=> g = h /\ i = n
          OBVIOUS
        <4> HIDE DEF found
        <4> QED BY <1>5, <4>1
      <3> HIDE DEF found, v
      <3> QED BY <1>5, <3>1 DEF Places
    <2> HIDE DEF v
    <2>2. Cardinality(Places(results', {v})) = Cardinality(Places(results, {v}))
                                              + Cardinality(Places(new, {v}))
      BY <1>4, <1>5, <1>6, PlacesConcat
    <2>3. Cardinality(Places(new, {v})) = IF g = h THEN Count(found, n) ELSE 0
      BY <2>1, FS_EmptySet DEF Count
    <2>4. Cardinality(Places(results, {v})) \in Nat
      BY <1>4, PlacesFinite
    <2> QED BY <2>2, <2>3, <2>4 DEF Times, Count, v
  <1>9. ASSUME NEW n \in Nat
        PROVE  /\ Sure(lake, runs'[h], h, n) = Sure(lake, runs[h], h, n)
                                              + (IF Wanted(lake, h, n, since) THEN 1 ELSE 0)
               /\ Sure(lake, runs[h], h, n) \in Nat
    <2> DEFINE V == {m \in Nat : Wanted(lake, h, n, m)}
    <2>1. runs[h] \in Seq(Nat) /\ since \in Nat /\ (since \in V <=> Wanted(lake, h, n, since))
      BY <1>2, <1>4
    <2> HIDE DEF V
    <2>2. Cardinality(Places(Append(runs[h], since), V))
            = Cardinality(Places(runs[h], V)) + (IF since \in V THEN 1 ELSE 0)
      BY <2>1, PlacesAppend
    <2>3. Cardinality(Places(runs[h], V)) \in Nat
      BY <2>1, PlacesFinite
    <2> QED BY <1>7, <2>1, <2>2, <2>3 DEF Sure, V
  <1>10. \A n \in Nat : Fits(Count(found, n), lake, h, n, since)
    BY <1>1, <1>3 DEF Timelines, FoundFits
  <1>11. Len(runs[h]) \in Nat /\ Len(runs'[h]) = Len(runs[h]) + 1
    BY <1>4, <1>7
  <1>12. Lines'
    <2> SUFFICES ASSUME NEW g \in Hunts, NEW n \in Nat
                 PROVE  /\ Sure(lake, runs'[g], g, n) <= Times(results', g, n)
                        /\ Times(results', g, n) <= Len(runs'[g])
                        /\ Times(results', g, n) > 0 => Wanted(lake, g, n, Len(lake))
      BY <1>1 DEF Lines
    <2>1. /\ Sure(lake, runs[g], g, n) <= Times(results, g, n)
          /\ Times(results, g, n) <= Len(runs[g])
          /\ Times(results, g, n) > 0 => Wanted(lake, g, n, Len(lake))
      BY DEF Timelines, Lines
    <2>2. CASE g # h
      <3>1. Times(results', g, n) = Times(results, g, n) /\ runs'[g] = runs[g]
        BY <1>7, <1>8, <2>2
      <3> QED BY <2>1, <3>1
    <2>3. CASE g = h
      <3>1. /\ Times(results', g, n) = Times(results, g, n) + Count(found, n)
            /\ Times(results, g, n) \in Nat
        BY <1>8, <2>3
      <3>2. /\ Sure(lake, runs'[g], g, n) = Sure(lake, runs[g], g, n)
                                            + (IF Wanted(lake, g, n, since) THEN 1 ELSE 0)
            /\ Sure(lake, runs[g], g, n) \in Nat
        BY <1>9, <2>3
      <3>3. /\ Count(found, n) \in {0, 1}
            /\ Wanted(lake, g, n, since) => Count(found, n) = 1
            /\ Count(found, n) = 1 => Wanted(lake, g, n, Len(lake))
        BY <1>10, <2>3 DEF Fits
      <3>4. Len(runs[g]) \in Nat /\ Len(runs'[g]) = Len(runs[g]) + 1
        BY <1>11, <2>3
      <3> HIDE DEF found, since
      <3>5. CASE Count(found, n) = 0
        BY <2>1, <3>1, <3>2, <3>3, <3>4, <3>5
      <3>6. CASE Count(found, n) = 1
        BY <2>1, <3>1, <3>2, <3>3, <3>4, <3>6
      <3> QED BY <3>3, <3>5, <3>6
    <2> QED BY <2>2, <2>3
  <1>13. Searches'
    <2>1. \A g \in Hunts : \A k \in 1..Len(runs'[g]) : runs'[g][k] <= Len(lake)
      <3> SUFFICES ASSUME NEW g \in Hunts, NEW k \in 1..Len(runs'[g])
                   PROVE  runs'[g][k] <= Len(lake)
        OBVIOUS
      <3>1. CASE g = h
        <4>1. runs[h] \in Seq(Nat) /\ k \in 1..Len(Append(runs[h], since))
          BY <1>4, <1>7, <3>1
        <4>2. \/ Append(runs[h], since)[k] = runs[h][k] /\ k \in 1..Len(runs[h])
              \/ Append(runs[h], since)[k] = since
          BY <1>2, <4>1
        <4> QED BY <1>2, <1>4, <1>7, <3>1, <4>2
      <3> QED BY <1>4, <1>7, <3>1
    <2>2. \A y \in Hunters : /\ run'[y].pc \in {"idle", "search", "second", "finish"}
                             /\ run'[y].first \in BOOLEAN
                             /\ run'[y].found \in Seq(Nat)
                             /\ run'[y].since <= Len(lake)
      <3>1. run'[x].pc = "idle" /\ run'[x].first = FALSE /\ run'[x].found = <<>>
            /\ run'[x].since = 0
        BY <1>7 DEF H!Idle
      <3>2. \A y \in Hunters : y # x => run'[y] = run[y]
        BY <1>7
      <3>3. <<>> \in Seq(Nat) /\ 0 <= Len(lake)
        BY <1>2
      <3>4. \A y \in Hunters : /\ run[y].pc \in {"idle", "search", "second", "finish"}
                               /\ run[y].first \in BOOLEAN
                               /\ run[y].found \in Seq(Nat)
                               /\ run[y].since <= Len(lake)
        BY DEF Timelines, Searches
      <3> QED BY <3>1, <3>2, <3>3, <3>4
    <2> QED BY <1>1, <1>6, <2>1, <2>2 DEF Searches
  <1>14. HalfFound' /\ FoundFits'
    <2>1. run'[x].pc = "idle"
      BY <1>7 DEF H!Idle
    <2>2. \A y \in Hunters : y # x => run'[y] = run[y]
      BY <1>7
    <2>3. HalfFound'
      BY <1>1, <2>1, <2>2 DEF Timelines, HalfFound
    <2>4. FoundFits'
      BY <1>1, <2>1, <2>2 DEF Timelines, FoundFits
    <2> QED BY <2>3, <2>4
  <1> QED BY <1>12, <1>13, <1>14 DEF Timelines

LEMMA NextTimelines == IInv /\ Timelines /\ [Next]_vars => Timelines'
  <1> SUFFICES ASSUME IInv, Timelines, [Next]_vars PROVE Timelines'
    OBVIOUS
  <1>1. ASSUME NEW a \in Agents, Store(a) PROVE Timelines'
    BY <1>1, QuietTimelines DEF Store, hvars
  <1>2. ASSUME NEW a \in Agents, Ship(a) PROVE Timelines'
    <2>1. outbox[a] \in Telemetry /\ H!Ingest(Shipped[outbox[a]])
      BY <1>2 DEF Ship, IInv, Typed
    <2>2. Shipped[outbox[a]] \in Records
      BY <2>1 DEF Records
    <2> QED BY <2>1, <2>2, LakeTimelines DEF H!Ingest
  <1>3. ASSUME NEW a \in Agents, NEW e \in Telemetry, Ingest(a, e) PROVE Timelines'
    BY <1>3, QuietTimelines DEF Ingest, hvars
  <1>4. ASSUME Drain PROVE Timelines'
    BY <1>4, QuietTimelines DEF Drain, hvars
  <1>5. ASSUME NEW r \in Others, H!Ingest(r) PROVE Timelines'
    <2>1. r \in Records
      BY DEF Records
    <2> QED BY <1>5, <2>1, LakeTimelines DEF H!Ingest
  <1>6. ASSUME NEW h \in Hunts, H!CreateHunt(h) PROVE Timelines'
    BY <1>6, QuietTimelines DEF H!CreateHunt
  <1>7. ASSUME NEW x \in Hunters, NEW h \in Hunts, H!Begin(x, h) PROVE Timelines'
    BY <1>7, BeginTimelines
  <1>8. ASSUME NEW x \in Hunters, Hunt(x) PROVE Timelines'
    BY <1>8, SearchTimelines, CorrelateFirstTimelines, CorrelateSecondTimelines, FinishTimelines
       DEF Hunt, H!Continue
  <1>9. CASE UNCHANGED vars
    BY <1>9, QuietTimelines DEF vars
  <1> QED BY <1>1, <1>2, <1>3, <1>4, <1>5, <1>6, <1>7, <1>8, <1>9 DEF Next

(* The types as the engines state them.                                    *)
LEMMA TypesImply == IInv /\ Deliveries /\ Timelines => TypeOK
  <1> SUFFICES ASSUME IInv, Deliveries, Timelines PROVE TypeOK
    OBVIOUS
  <1>1. D!TypeOK
    BY DEF IInv, Typed, Deliveries, D!TypeOK
  <1>2. run \in [Hunters -> [pc : {"idle", "search", "second", "finish"},
                             hunt : Hunts \cup {None}, since : Nat, first : BOOLEAN,
                             found : Seq(Nat)]]
    BY DEF IInv, Typed, Timelines, Searches
  <1>3. H!TypeOK
    BY <1>2 DEF IInv, Typed, Status, Timelines, Searches, Result, Records, H!TypeOK
  <1> QED BY <1>1, <1>3 DEF TypeOK, IInv, Typed

LEMMA TimelinesImply == IInv /\ Timelines => ResultsExact
  <1> SUFFICES ASSUME IInv, Timelines, NEW h \in Hunts, NEW n \in 0..Len(lake)
               PROVE  LET line == H!Timeline(h)
                          times == H!Cardinality({k \in 1..Len(line) : line[k].record = n})
                          sure  == H!Cardinality({k \in 1..Len(runs[h]) : H!Asked(h, n, runs[h][k])})
                      IN  /\ sure <= times /\ times <= Len(runs[h])
                          /\ times > 0 => H!Asked(h, n, Len(lake))
    BY DEF ResultsExact, H!ResultsExact
  <1> DEFINE line == H!Timeline(h)
             own  == {k \in 1..Len(results) : results[k].hunt = h}
             V    == {r \in Result : r.record = n}
  <1>1. /\ results \in Seq(Result) /\ runs[h] \in Seq(Nat) /\ n \in Nat /\ Len(lake) \in Nat
    BY FrameFacts DEF Timelines, Searches
  <1>2. line = Sift(results, own)
    BY SameSift DEF H!Timeline
  <1>3. line \in Seq(Result)
    <2> HIDE DEF line, own
    <2> QED BY <1>1, <1>2, SiftProperties
  <1>4. own \cap Places(results, V) = Places(results, {[hunt |-> h, record |-> n]})
    BY <1>1 DEF Places, Result
  <1> HIDE DEF line, own
  <1>5. {k \in 1..Len(line) : line[k].record = n} = Places(line, V)
    BY <1>3 DEF Places
  <1> HIDE DEF V
  <1>6. Cardinality(Places(line, V)) = Cardinality(own \cap Places(results, V))
    BY <1>1, <1>2, SiftCount
  <1>7. H!Cardinality({k \in 1..Len(line) : line[k].record = n}) = Times(results, h, n)
    BY <1>4, <1>5, <1>6, SameCount DEF Times, Count
  <1>8. \A m \in Nat : H!Asked(h, n, m) <=> Wanted(lake, h, n, m)
    <2> SUFFICES ASSUME NEW m \in Nat PROVE H!Asked(h, n, m) <=> Wanted(lake, h, n, m)
      OBVIOUS
    <2>1. CASE n = 0
      <3>1. 1..2 = {1, 2}
        OBVIOUS
      <3> QED BY <2>1, <3>1 DEF H!Asked, Wanted, HasKind
    <2>2. CASE n # 0
      <3>1. Of[h].search \in {"Historical", "Ioc", "Behavioral", "Correlation"}
        BY EngineAssumptions DEF H!Assumption, H!Searches
      <3> QED BY <2>2, <3>1 DEF H!Asked, Wanted
    <2> QED BY <2>1, <2>2
  <1>9. {k \in 1..Len(runs[h]) : H!Asked(h, n, runs[h][k])}
          = Places(runs[h], {m \in Nat : Wanted(lake, h, n, m)})
    BY <1>1, <1>8 DEF Places
  <1>10. H!Cardinality({k \in 1..Len(runs[h]) : H!Asked(h, n, runs[h][k])})
           = Sure(lake, runs[h], h, n)
    BY <1>9, SameCount DEF Sure
  <1> QED BY <1>1, <1>7, <1>8, <1>10 DEF Timelines, Lines, line

-----------------------------------------------------------------------------
(* While agents ingest and ship, others fill the lake and hunters search   *)
(* it, a drain neither loses nor repeats a finding, and a record of an     *)
(* event is in the lake only after its finding was announced (ingest_*,    *)
(* drain_events).                                                          *)
THEOREM FindingsDeliveredHolds == Spec => []FindingsDelivered
  <1>1. Spec => [](IInv /\ Deliveries /\ Timelines)
    <2>1. Init => IInv /\ Deliveries /\ Timelines
      BY InitIInv, InitDeliveries, InitTimelines
    <2>2. IInv /\ Deliveries /\ Timelines /\ [Next]_vars => (IInv /\ Deliveries /\ Timelines)'
      BY NextIInv, NextDeliveries, NextTimelines DEF IInv
    <2> QED BY <2>1, <2>2, PTL DEF Spec
  <1>2. IInv /\ Deliveries /\ Timelines => FindingsDelivered
    BY TypesImply, DeliveriesImply DEF IInv, FindingsDelivered
  <1> QED BY <1>1, <1>2, PTL

(* The timeline of a hunt is what its finished runs had to find, however   *)
(* the lake grows while they search it and whoever else runs that hunt at  *)
(* the same time (run_hunt, generate_timeline).                            *)
THEOREM ResultsExactHolds == Spec => []ResultsExact
  <1>1. Spec => [](IInv /\ Timelines)
    <2>1. Init => IInv /\ Timelines
      BY InitIInv, InitTimelines
    <2>2. IInv /\ Timelines /\ [Next]_vars => (IInv /\ Timelines)'
      BY NextIInv, NextTimelines
    <2> QED BY <2>1, <2>2, PTL DEF Spec
  <1> QED BY <1>1, TimelinesImply, PTL
============================================================================
