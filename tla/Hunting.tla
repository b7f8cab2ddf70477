------------------------------ MODULE Hunting ------------------------------
(***************************************************************************)
(* The threat hunting engine (hunting/src/engine.rs).  A run of a hunt is  *)
(* several critical sections: look it up, mark it Running, search the data *)
(* lake with no lock held, then store the results and mark it Completed.   *)
(* Anybody may run a hunt again, also while it runs.  The data lake is     *)
(* external: records are added to it and can be listed by tenant or kind.  *)
(***************************************************************************)
EXTENDS Naturals, Sequences, FiniteSets, Functions, Sifting

CONSTANTS
  Hunters,  \* the threads that run hunts
  Hunts,    \* the uuids create_hunt draws
  Of,       \* hunt -> its tenant and query, see HuntType
  Records,  \* what may be put into the lake: [tenant, kind, text]
  None,     \* no such hunt
  MaxLake,  \* bound: records after which none is added
  MaxHunts, \* bound: hunts after which none is created
  MaxRuns   \* bound: runs, of whatever hunt, after which none begins

Searches == {"Historical", "Ioc", "Behavioral", "Correlation"}

(* The text of a query is known by what contains it: kinds of events, and  *)
(* texts of payloads; a correlation query names kinds, joined by '+'.  See *)
(* Edr for why this is assumed by the modules that use this one.           *)
Assumption ==
  /\ \A h \in Hunts : /\ Of[h].search \in Searches
                      /\ Of[h].pair \in Seq(Of[h].kinds \cup {r.kind : r \in Records})
  /\ None \notin Hunts \cup {"Draft", "Running", "Completed"}
  /\ MaxLake \in Nat /\ MaxHunts \in Nat /\ MaxRuns \in Nat

VARIABLES
  status,     \* hunt -> its status, None before it is created
  completed,  \* hunt -> completed_at is set
  results,    \* the stored results: the hunt and the record each is about,
              \* by its index in the lake, or 0 for a correlation
  lake,       \* the records of the data lake (external)
  runs,       \* hunt -> for each run that has finished, how many records
              \* there were when it began (auxiliary: no action reads it)
  run         \* hunter -> the run it is in, and where

Idle == [pc |-> "idle", hunt |-> None, since |-> 0, first |-> FALSE, found |-> <<>>]

Init ==
  /\ status    = [h \in Hunts |-> None]
  /\ completed = [h \in Hunts |-> FALSE]
  /\ results = <<>> /\ lake = <<>>
  /\ runs = [h \in Hunts |-> <<>>]
  /\ run = [x \in Hunters |-> Idle]

At(x, pc) == run[x].pc = pc
Underway(h) == {x \in Hunters : run[x].hunt = h}
Begun == FoldFunction(+, 0, [h \in Hunts |-> Len(runs[h]) + Cardinality(Underway(h))])

-----------------------------------------------------------------------------
(***************************************************************************)
(* The lake and the searches.                                              *)
(***************************************************************************)
Ingest(r) ==
  /\ Len(lake) < MaxLake
  /\ lake' = Append(lake, r)
  /\ UNCHANGED <<status, completed, results, runs, run>>

(* The records the lake lists, known by their indices.                     *)
Listed(ns)  == Sift([n \in 1..Len(lake) |-> n], ns)
ByTenant(h) == Listed({n \in 1..Len(lake) : lake[n].tenant = Of[h].tenant})
ByKind(k)   == Listed({n \in 1..Len(lake) : lake[n].kind = k})

SearchHistorical(h) ==
  LET own == ByTenant(h) IN Sift(own, {k \in 1..Len(own) : lake[own[k]].kind \in Of[h].kinds})
SearchIoc(h) ==
  LET own == ByTenant(h) IN Sift(own, {k \in 1..Len(own) : lake[own[k]].text \in Of[h].texts})

(* Mutant of SearchBehavioral: the tenant is forgotten.                    *)
SearchBehavioralAll(h) ==
  LET all == ByKind("behavior") IN Sift(all, {k \in 1..Len(all) : lake[all[k]].text \in Of[h].texts})

SearchBehavioral(h) ==
  LET all == ByKind("behavior")
  IN  Sift(all, {k \in 1..Len(all) : lake[all[k]].tenant = Of[h].tenant
                                      /\ lake[all[k]].text \in Of[h].texts})

-----------------------------------------------------------------------------
(***************************************************************************)
(* The operations.                                                         *)
(***************************************************************************)
CreateHunt(h) ==
  /\ status[h] = None /\ Cardinality({g \in Hunts : status[g] # None}) < MaxHunts
  /\ status' = [status EXCEPT ![h] = "Draft"]
  /\ UNCHANGED <<completed, results, lake, runs, run>>

(* run_hunt up to the search.  An unknown hunt is an error.  The look-up   *)
(* and set_hunt_status are two critical sections, but nothing the look-up  *)
(* reads ever changes.                                                     *)
Begin(x, h) ==
  /\ At(x, "idle") /\ status[h] # None
  /\ Begun < MaxRuns
  /\ status' = [status EXCEPT ![h] = "Running"]
  /\ run' = [run EXCEPT ![x] = [Idle EXCEPT !.pc = "search", !.hunt = h, !.since = Len(lake)]]
  /\ UNCHANGED <<completed, results, lake, runs>>

Found(x, ns) == run' = [run EXCEPT ![x].pc = "finish", ![x].found = ns]

(* A correlation of less than two kinds finds nothing.                     *)
Correlates(h) == Of[h].search = "Correlation" /\ Len(Of[h].pair) >= 2
Hits(h) ==
  CASE Of[h].search = "Historical" -> SearchHistorical(h)
    [] Of[h].search = "Ioc"        -> SearchIoc(h)
    [] Of[h].search = "Behavioral" -> SearchBehavioral(h)
    [] OTHER                       -> <<>>

(* A search lists the lake once, ...                                       *)
Search(x) ==
  /\ At(x, "search") /\ ~Correlates(run[x].hunt)
  /\ Found(x, Hits(run[x].hunt))
  /\ UNCHANGED <<status, completed, results, lake, runs>>

(* ... but a correlation twice, and for all tenants.                       *)
CorrelateFirst(x) ==
  /\ At(x, "search") /\ Correlates(run[x].hunt)
  /\ run' = [run EXCEPT ![x].pc = "second",
                        ![x].first = ByKind(Of[run[x].hunt].pair[1]) # <<>>]
  /\ UNCHANGED <<status, completed, results, lake, runs>>

CorrelateSecond(x) ==
  /\ At(x, "second")
  /\ Found(x, IF run[x].first /\ ByKind(Of[run[x].hunt].pair[2]) # <<>> THEN <<0>> ELSE <<>>)
  /\ UNCHANGED <<status, completed, results, lake, runs>>

(* Mutant of Finish: a run that found nothing leaves the status alone.     *)
FinishIfFound(x) ==
  /\ At(x, "finish")
  /\ LET h == run[x].hunt
     IN  /\ results' = results \o [n \in 1..Len(run[x].found) |->
                                     [hunt |-> h, record |-> run[x].found[n]]]
         /\ runs' = [runs EXCEPT ![h] = Append(@, run[x].since)]
         /\ IF run[x].found = <<>> THEN UNCHANGED <<status, completed>>
            ELSE /\ status' = [status EXCEPT ![h] = "Completed"]
                 /\ completed' = [completed EXCEPT ![h] = TRUE]
  /\ run' = [run EXCEPT ![x] = Idle]
  /\ UNCHANGED lake

(* Results and status under one write lock.                                *)
Finish(x) ==
  /\ At(x, "finish")
  /\ LET h == run[x].hunt
     IN  /\ results' = results \o [n \in 1..Len(run[x].found) |->
                                     [hunt |-> h, record |-> run[x].found[n]]]
         /\ runs' = [runs EXCEPT ![h] = Append(@, run[x].since)]
         /\ status' = [status EXCEPT ![h] = "Completed"]
         /\ completed' = [completed EXCEPT ![h] = TRUE]
  /\ run' = [run EXCEPT ![x] = Idle]
  /\ UNCHANGED lake

(* generate_timeline; it does not ask whether there is such a hunt.        *)
Timeline(h) == Sift(results, {k \in 1..Len(results) : results[k].hunt = h})

Continue(x) == Search(x) \/ CorrelateFirst(x) \/ CorrelateSecond(x) \/ Finish(x)

-----------------------------------------------------------------------------
TypeOK ==
  /\ status \in [Hunts -> {"Draft", "Running", "Completed", None}]
  /\ completed \in [Hunts -> BOOLEAN]
  /\ results \in Seq([hunt : Hunts, record : Nat])
  /\ lake \in Seq(Records)
  /\ runs \in [Hunts -> Seq(Nat)]
  /\ run \in [Hunters -> [pc : {"idle", "search", "second", "finish"}, hunt : Hunts \cup {None},
                          since : Nat, first : BOOLEAN, found : Seq(Nat)]]

(* What a hunt asks for, without a search: whether the record n, or with   *)
(* n = 0 a correlation, is to be found once the lake has m records.        *)
Asked(h, n, m) ==
  IF n = 0
  THEN /\ Correlates(h)
       /\ \A i \in 1..2 : \E j \in 1..m : lake[j].kind = Of[h].pair[i]
  ELSE /\ n <= m /\ lake[n].tenant = Of[h].tenant
       /\ CASE Of[h].search = "Historical"  -> lake[n].kind \in Of[h].kinds
            [] Of[h].search = "Ioc"         -> lake[n].text \in Of[h].texts
            [] Of[h].search = "Behavioral"  -> lake[n].kind = "behavior" /\ lake[n].text \in Of[h].texts
            [] Of[h].search = "Correlation" -> FALSE

(* The timeline of a hunt is what its finished runs had to find: a record  *)
(* asked for is in it once for each run that began when the record was     *)
(* there, at most once more for each other run, and nothing of another     *)
(* tenant or another hunt is, with the lake growing and several runs of one*)
(* hunt under way; only a correlation may rest on the records of others.   *)
ResultsExact ==
  \A h \in Hunts : runs[h] # <<>> \/ Timeline(h) # <<>> =>
    LET line == Timeline(h)
    IN  \A n \in 0..Len(lake) :
          LET times == Cardinality({k \in 1..Len(line) : line[k].record = n})
              sure  == Cardinality({k \in 1..Len(runs[h]) : Asked(h, n, runs[h][k])})
          IN  /\ sure <= times /\ times <= Len(runs[h])
              /\ times > 0 => Asked(h, n, Len(lake))

(* The status of a hunt can be trusted when it matters: a hunt is Running  *)
(* only while somebody runs it, however runs overlap; when nobody does, it *)
(* is Completed or has never been run; completed_at tells that a run has   *)
(* finished, and is not taken back by the next one.                        *)
StatusHonest ==
  \A h \in Hunts :
    /\ status[h] = "Running" => Underway(h) # {}
    /\ status[h] \in {None, "Draft"} => Underway(h) = {} /\ runs[h] = <<>>
    /\ completed[h] <=> runs[h] # <<>>
    /\ status[h] = "Completed" => completed[h]
=============================================================================
