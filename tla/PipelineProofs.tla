--------------------------- MODULE PipelineProofs ---------------------------
(***************************************************************************)
(* Theorems about the platform at work (Pipeline), for any finite sets of  *)
(* threads, incidents, triggers and techniques and whatever the triggers   *)
(* claim.  The properties are equations between sums, so there are lemmas  *)
(* about sums and bags first; then the invariant, conjunct by conjunct;    *)
(* then what follows from it for the summaries.                            *)
(***************************************************************************)
EXTENDS Pipeline, SiftingLemmas

-----------------------------------------------------------------------------
(***************************************************************************)
(* Sums over finite sets.  A fold is a recursive function over the subsets *)
(* of the set; it is the number of elements of a heap that has f[x] tokens *)
(* for every x, and what is known of cardinalities is then known of sums.  *)
(***************************************************************************)
Chosen(s) == CHOOSE x \in s : TRUE
IsIter(f, S, g) ==
  g = [s \in SUBSET S |-> IF s = {} THEN 0 ELSE f[Chosen(s)] + g[s \ {Chosen(s)}]]

Heap(f, S) == UNION {{x} \X (1..f[x]) : x \in S}
Tokens(f, S) == Cardinality(Heap(f, S))
Counts(f, S) == IsFiniteSet(S) /\ \A x \in S : f[x] \in Nat

LEMMA HeapFinite ==
  ASSUME NEW f, NEW S, Counts(f, S)
  PROVE  IsFiniteSet(Heap(f, S)) /\ Tokens(f, S) \in Nat
  <1> DEFINE T == {{x} \X (1..f[x]) : x \in S}
             g == [x \in S |-> {x} \X (1..f[x])]
  <1>1. g \in Surjection(S, T)
    BY DEF Surjection
  <1>2. IsFiniteSet(T)
    BY <1>1, FS_Surjection DEF Counts
  <1>3. ASSUME NEW x \in S PROVE IsFiniteSet({x} \X (1..f[x]))
    <2>1. IsFiniteSet({x}) /\ IsFiniteSet(1..f[x])
      BY FS_Singleton, UpTo DEF Counts
    <2> QED BY <2>1, FS_Product
  <1>4. \A X \in T : IsFiniteSet(X)
    BY <1>3
  <1> HIDE DEF T
  <1>5. IsFiniteSet(UNION T)
    BY <1>2, <1>4, FS_UNION
  <1>6. IsFiniteSet(Heap(f, S))
    BY <1>5 DEF T, Heap
  <1> QED BY <1>6, FS_CardinalityType DEF Tokens

LEMMA TokensRemove ==
  ASSUME NEW f, NEW S, Counts(f, S), NEW x \in S
  PROVE  Counts(f, S \ {x}) /\ Tokens(f, S) = f[x] + Tokens(f, S \ {x})
  <1> DEFINE X == {x} \X (1..f[x])
             H == Heap(f, S \ {x})
  <1>1. Counts(f, S \ {x}) /\ f[x] \in Nat
    BY FS_RemoveElement DEF Counts
  <1>2. IsFiniteSet(H) /\ Cardinality(H) \in Nat
    BY <1>1, HeapFinite DEF Tokens
  <1>3. IsFiniteSet({x}) /\ Cardinality({x}) = 1 /\ IsFiniteSet(1..f[x]) /\ Cardinality(1..f[x]) = f[x]
    BY <1>1, FS_Singleton, UpTo
  <1>4. IsFiniteSet(X) /\ Cardinality(X) = f[x]
    <2>1. IsFiniteSet(X) /\ Cardinality(X) = Cardinality({x}) * Cardinality(1..f[x])
      BY <1>3, FS_Product
    <2> QED BY <1>1, <1>3, <2>1
  <1>5. Heap(f, S) = X \cup H
    BY DEF Heap
  <1>6. X \cap H = {}
    BY DEF Heap
  <1> HIDE DEF X, H
  <1>7. Cardinality(X \cup H) = Cardinality(X) + Cardinality(H) - Cardinality(X \cap H)
    BY <1>2, <1>4, FS_Union
  <1>8. Cardinality(X \cap H) = 0
    BY <1>6, FS_EmptySet
  <1>9. Cardinality(Heap(f, S)) = f[x] + Cardinality(H)
    BY <1>1, <1>2, <1>4, <1>5, <1>7, <1>8
  <1> QED BY <1>1, <1>9 DEF Tokens, H

LEMMA TokensEmpty == \A f : Tokens(f, {}) = 0
  <1> SUFFICES ASSUME NEW f PROVE Tokens(f, {}) = 0
    OBVIOUS
  <1>1. Heap(f, {}) = {}
    BY DEF Heap
  <1> QED BY <1>1, FS_EmptySet DEF Tokens

LEMMA SumIs ==
  ASSUME NEW f, NEW S, NEW h, IsIter(f, S, h)
  PROVE  \E g : IsIter(f, S, g) /\ SumFunctionOnSet(f, S) = g[S]
  BY DEF SumFunctionOnSet, FoldFunctionOnSet, MapThenFoldSet, IsIter, Chosen

LEMMA SumIsTokens ==
  ASSUME NEW f, NEW S, Counts(f, S)
  PROVE  SumFunctionOnSet(f, S) = Tokens(f, S)
  <1> DEFINE h == [s \in SUBSET S |-> Tokens(f, s)]
  <1>1. ASSUME NEW s \in SUBSET S PROVE Counts(f, s)
    BY FS_Subset DEF Counts
  <1>2. ASSUME NEW s \in SUBSET S, s # {}
        PROVE  Chosen(s) \in s /\ s \ {Chosen(s)} \in SUBSET S
    BY <1>2 DEF Chosen
  <1>3. IsIter(f, S, h)
    <2>1. ASSUME NEW s \in SUBSET S
          PROVE  h[s] = IF s = {} THEN 0 ELSE f[Chosen(s)] + h[s \ {Chosen(s)}]
      <3>1. CASE s = {}
        BY <3>1, TokensEmpty
      <3>2. CASE s # {}
        <4>1. Tokens(f, s) = f[Chosen(s)] + Tokens(f, s \ {Chosen(s)})
          BY <1>1, <1>2, <3>2, TokensRemove
        <4> QED BY <1>2, <3>2, <4>1
      <3> QED BY <3>1, <3>2
    <2> HIDE DEF h
    <2>2. h = [s \in SUBSET S |-> h[s]]
      BY DEF h
    <2>3. [s \in SUBSET S |-> h[s]]
            = [s \in SUBSET S |-> IF s = {} THEN 0 ELSE f[Chosen(s)] + h[s \ {Chosen(s)}]]
      BY <2>1
    <2> QED BY <2>2, <2>3 DEF IsIter
  <1> HIDE DEF h
  <1>4. PICK g : IsIter(f, S, g) /\ SumFunctionOnSet(f, S) = g[S]
    BY <1>3, SumIs
  <1> DEFINE Bad == {s \in SUBSET S : g[s] # Tokens(f, s)}
             Sizes == {Cardinality(s) : s \in Bad}
  <1>5. ASSUME Bad # {} PROVE FALSE
    <2>1. \A s \in SUBSET S : IsFiniteSet(s) /\ Cardinality(s) \in Nat
      BY FS_Subset, FS_CardinalityType DEF Counts
    <2>2. Sizes \in SUBSET Nat /\ Sizes # {}
      BY <1>5, <2>1
    <2>3. PICK m \in Sizes : \A k \in Sizes : m <= k
      BY <2>2, Least
    <2>4. PICK s \in Bad : m = Cardinality(s)
      BY <2>3
    <2>5. g[s] = IF s = {} THEN 0 ELSE f[Chosen(s)] + g[s \ {Chosen(s)}]
      BY <1>4, <2>4 DEF IsIter
    <2>6. CASE s = {}
      BY <2>4, <2>5, <2>6, TokensEmpty
    <2>7. CASE s # {}
      <3> DEFINE u == s \ {Chosen(s)}
      <3>1. u \in SUBSET S /\ Chosen(s) \in s
        BY <1>2, <2>4, <2>7
      <3>2. Cardinality(u) = Cardinality(s) - 1
        BY <2>1, <2>4, <3>1, FS_RemoveElement
      <3>3. Cardinality(s) \in Nat /\ Cardinality(u) \in Nat
        BY <2>1, <2>4, <3>1
      <3>4. u \notin Bad
        <4> SUFFICES ASSUME u \in Bad PROVE FALSE
          OBVIOUS
        <4>1. Cardinality(u) \in Sizes
          OBVIOUS
        <4>2. Cardinality(s) <= Cardinality(u)
          BY <2>3, <2>4, <4>1
        <4> QED BY <3>2, <3>3, <4>2
      <3>5. g[u] = Tokens(f, u)
        BY <3>1, <3>4
      <3>6. Tokens(f, s) = f[Chosen(s)] + Tokens(f, u)
        BY <1>1, <2>4, <3>1, TokensRemove
      <3> QED BY <2>4, <2>5, <2>7, <3>5, <3>6
    <2> QED BY <2>6, <2>7
  <1>6. g[S] = Tokens(f, S)
    BY <1>5
  <1> QED BY <1>4, <1>6

-----------------------------------------------------------------------------
(* What a sum is, without a word of heaps.                                 *)
Sum(f, S) == SumFunctionOnSet(f, S)

LEMMA SumNat ==
  ASSUME NEW f, NEW S, Counts(f, S)
  PROVE  Sum(f, S) \in Nat
  BY SumIsTokens, HeapFinite DEF Sum

LEMMA SumEmpty == \A f : Sum(f, {}) = 0
  <1> SUFFICES ASSUME NEW f PROVE Sum(f, {}) = 0
    OBVIOUS
  <1>1. Counts(f, {})
    BY FS_EmptySet DEF Counts
  <1> QED BY <1>1, SumIsTokens, TokensEmpty DEF Sum

LEMMA SumRemove ==
  ASSUME NEW f, NEW S, Counts(f, S), NEW x \in S
  PROVE  /\ Sum(f, S) = f[x] + Sum(f, S \ {x})
         /\ Sum(f, S) \in Nat /\ Sum(f, S \ {x}) \in Nat /\ f[x] \in Nat
  <1>1. Counts(f, S \ {x}) /\ Tokens(f, S) = f[x] + Tokens(f, S \ {x})
    BY TokensRemove
  <1>2. Sum(f, S) = Tokens(f, S) /\ Sum(f, S \ {x}) = Tokens(f, S \ {x})
    BY <1>1, SumIsTokens DEF Sum
  <1>3. f[x] \in Nat
    BY DEF Counts
  <1> QED BY <1>1, <1>2, <1>3, HeapFinite

(* Only the terms matter.                                                  *)
LEMMA SumSame ==
  ASSUME NEW f, NEW g, NEW S, Counts(f, S), \A x \in S : g[x] = f[x]
  PROVE  Counts(g, S) /\ Sum(g, S) = Sum(f, S)
  <1>1. Counts(g, S)
    BY DEF Counts
  <1>2. Heap(g, S) = Heap(f, S)
    BY DEF Heap
  <1> QED BY <1>1, <1>2, SumIsTokens DEF Sum, Tokens

(* More terms, or larger ones, do not make less.                           *)
LEMMA SumMonotone ==
  ASSUME NEW f, NEW g, NEW S, NEW T, Counts(f, S), Counts(g, T), S \subseteq T,
         \A x \in S : f[x] <= g[x]
  PROVE  Sum(f, S) <= Sum(g, T)
  <1>1. \A x \in S : 1..f[x] \subseteq 1..g[x]
    BY DEF Counts
  <1>2. Heap(f, S) \subseteq Heap(g, T)
    BY <1>1 DEF Heap
  <1>3. IsFiniteSet(Heap(g, T))
    BY HeapFinite
  <1>4. Cardinality(Heap(f, S)) <= Cardinality(Heap(g, T))
    BY <1>2, <1>3, FS_Subset
  <1> QED BY <1>4, SumIsTokens DEF Sum, Tokens

(* Two sums that differ in one term.                                       *)
LEMMA SumStep ==
  ASSUME NEW f, NEW g, NEW S, NEW T, NEW x, Counts(f, S), Counts(g, T),
         S \ {x} = T \ {x}, \A y \in S \ {x} : g[y] = f[y]
  PROVE  Sum(g, T) + (IF x \in S THEN f[x] ELSE 0) = Sum(f, S) + (IF x \in T THEN g[x] ELSE 0)
  <1> DEFINE U == S \ {x}
  <1>1. Counts(f, U) /\ Counts(g, U)
    BY FS_RemoveElement DEF Counts
  <1>2. Sum(g, U) = Sum(f, U) /\ Sum(f, U) \in Nat
    <2>1. \A y \in U : g[y] = f[y]
      OBVIOUS
    <2> HIDE DEF U
    <2> QED BY <1>1, <2>1, SumSame, SumNat
  <1>3. /\ Sum(f, S) = (IF x \in S THEN f[x] ELSE 0) + Sum(f, U)
        /\ (IF x \in S THEN f[x] ELSE 0) \in Nat
    <2>1. CASE x \in S
      BY <2>1, SumRemove
    <2>2. CASE x \notin S
      <3>1. U = S
        BY <2>2
      <3>2. (IF x \in S THEN f[x] ELSE 0) = 0
        BY <2>2
      <3>3. Sum(f, S) = Sum(f, U)
        BY <3>1, Zenon
      <3> HIDE DEF U
      <3>4. Sum(f, U) \in Nat
        BY <1>1, SumNat
      <3>5. Sum(f, U) = 0 + Sum(f, U)
        BY <3>4
      <3> QED BY <3>2, <3>3, <3>5
    <2> QED BY <2>1, <2>2
  <1>4. /\ Sum(g, T) = (IF x \in T THEN g[x] ELSE 0) + Sum(g, U)
        /\ (IF x \in T THEN g[x] ELSE 0) \in Nat
    <2>0. U = T \ {x}
      OBVIOUS
    <2>1. CASE x \in T
      BY <2>0, <2>1, SumRemove
    <2>2. CASE x \notin T
      <3>1. U = T
        BY <2>0, <2>2
      <3>2. (IF x \in T THEN g[x] ELSE 0) = 0
        BY <2>2
      <3>3. Sum(g, T) = Sum(g, U)
        BY <3>1, Zenon
      <3> HIDE DEF U
      <3>4. Sum(g, U) \in Nat
        BY <1>1, SumNat
      <3>5. Sum(g, U) = 0 + Sum(g, U)
        BY <3>4
      <3> QED BY <3>2, <3>3, <3>5
    <2> QED BY <2>1, <2>2
  <1> DEFINE a == IF x \in S THEN f[x] ELSE 0
             b == IF x \in T THEN g[x] ELSE 0
  <1> HIDE DEF a, b, U
  <1>5. Sum(f, S) = a + Sum(f, U) /\ Sum(g, T) = b + Sum(f, U) /\ a \in Nat /\ b \in Nat
    BY <1>2, <1>3, <1>4 DEF a, b
  <1>6. Sum(g, T) + a = Sum(f, S) + b
    BY <1>2, <1>5
  <1> QED BY <1>6 DEF a, b

LEMMA SumOfOnes ==
  ASSUME NEW f, NEW S, IsFiniteSet(S), \A x \in S : f[x] = 1
  PROVE  Counts(f, S) /\ Sum(f, S) = Cardinality(S)
  <1> DEFINE g == [x \in S |-> <<x, 1>>]
  <1>1. Counts(f, S)
    BY DEF Counts
  <1>2. g \in Bijection(S, Heap(f, S))
    <2>1. 1..1 = {1}
      OBVIOUS
    <2>2. Heap(f, S) = {<<x, 1>> : x \in S}
      BY <2>1 DEF Heap
    <2>3. g \in Injection(S, Heap(f, S))
      BY <2>2 DEF Injection, IsInjective
    <2>4. g \in Surjection(S, Heap(f, S))
      BY <2>2 DEF Surjection
    <2> QED BY <2>3, <2>4 DEF Bijection
  <1>3. Cardinality(Heap(f, S)) = Cardinality(S)
    BY <1>2, FS_Bijection DEF ExistsBijection
  <1> QED BY <1>1, <1>3, SumIsTokens DEF Sum, Tokens
(* Terms that are nought may be left out.                                  *)
LEMMA SumSkip ==
  ASSUME NEW f, NEW S, NEW T \in SUBSET S, Counts(f, S), \A x \in S \ T : f[x] = 0
  PROVE  Counts(f, T) /\ Sum(f, S) = Sum(f, T)
  <1>1. Counts(f, T)
    BY FS_Subset DEF Counts
  <1>2. \A x \in S \ T : 1..f[x] = {}
    OBVIOUS
  <1>3. Heap(f, S) = Heap(f, T)
    BY <1>2 DEF Heap
  <1> QED BY <1>1, <1>3, SumIsTokens DEF Sum, Tokens

LEMMA SumZero ==
  ASSUME NEW f, NEW S, IsFiniteSet(S), \A x \in S : f[x] = 0
  PROVE  Sum(f, S) = 0
  <1>1. Counts(f, S)
    BY DEF Counts
  <1>2. Sum(f, S) = Sum(f, {})
    BY <1>1, SumSkip
  <1> QED BY <1>2, SumEmpty

-----------------------------------------------------------------------------
(***************************************************************************)
(* Bags.                                                                   *)
(***************************************************************************)
IsBag(B, S) == DOMAIN B \subseteq S /\ \A x \in DOMAIN B : B[x] \in Nat \ {0}

Copies(x, B) == IF x \in DOMAIN B THEN B[x] ELSE 0

(* One more of c, and nothing else.                                        *)
LEMMA BagAdd ==
  ASSUME NEW B, NEW S, IsBag(B, S), NEW c \in S
  PROVE  LET D == B (+) SetToBag({c})
         IN  /\ IsBag(D, S) /\ DOMAIN D = DOMAIN B \cup {c}
             /\ \A x \in DOMAIN B : D[x] = B[x] + (IF x = c THEN 1 ELSE 0)
             /\ c \notin DOMAIN B => D[c] = 1
  <1> DEFINE D == B (+) SetToBag({c})
  <1>1. /\ DOMAIN D = DOMAIN B \cup {c}
        /\ \A x \in DOMAIN D : D[x] = (IF x \in DOMAIN B THEN B[x] ELSE 0) + (IF x = c THEN 1 ELSE 0)
    BY DEF (+), SetToBag
  <1> HIDE DEF D
  <1>2. IsBag(D, S) /\ \A x \in DOMAIN B : D[x] = B[x] + (IF x = c THEN 1 ELSE 0)
    BY <1>1 DEF IsBag
  <1>3. c \notin DOMAIN B => D[c] = 1
    BY <1>1
  <1> QED BY <1>1, <1>2, <1>3 DEF D

LEMMA BagCopies ==
  ASSUME NEW B, NEW S, IsBag(B, S), NEW c \in S, NEW x
  PROVE  /\ Copies(x, B (+) SetToBag({c})) = Copies(x, B) + (IF x = c THEN 1 ELSE 0)
         /\ Copies(x, B) \in Nat
  <1> DEFINE D == B (+) SetToBag({c})
  <1>1. /\ DOMAIN D = DOMAIN B \cup {c}
        /\ \A y \in DOMAIN B : D[y] = B[y] + (IF y = c THEN 1 ELSE 0)
        /\ c \notin DOMAIN B => D[c] = 1
    BY BagAdd
  <1> HIDE DEF D
  <1>2. Copies(x, B) \in Nat
    BY DEF IsBag, Copies
  <1>3. Copies(x, D) = Copies(x, B) + (IF x = c THEN 1 ELSE 0)
    <2>1. CASE x \in DOMAIN B
      BY <1>1, <2>1 DEF Copies
    <2>2. CASE x \notin DOMAIN B
      BY <1>1, <2>2 DEF Copies
    <2> QED BY <2>1, <2>2
  <1> QED BY <1>2, <1>3 DEF D

(* The sum over a bag is one more, too.                                    *)
LEMMA BagSum ==
  ASSUME NEW B, NEW S, IsFiniteSet(S), IsBag(B, S), NEW c \in S
  PROVE  LET D == B (+) SetToBag({c})
         IN  /\ Sum(D, DOMAIN D) = Sum(B, DOMAIN B) + 1
             /\ Sum(B, DOMAIN B) \in Nat
  <1> DEFINE D == B (+) SetToBag({c})
  <1>1. /\ IsBag(D, S) /\ DOMAIN D = DOMAIN B \cup {c}
        /\ \A x \in DOMAIN B : D[x] = B[x] + (IF x = c THEN 1 ELSE 0)
        /\ c \notin DOMAIN B => D[c] = 1
    BY BagAdd
  <1> HIDE DEF D
  <1>2. Counts(B, DOMAIN B) /\ Counts(D, DOMAIN D)
    BY <1>1, FS_Subset DEF IsBag, Counts
  <1>3. DOMAIN B \ {c} = DOMAIN D \ {c} /\ \A y \in DOMAIN B \ {c} : D[y] = B[y]
    BY <1>1 DEF IsBag
  <1> DEFINE b == IF c \in DOMAIN B THEN B[c] ELSE 0
             e == IF c \in DOMAIN D THEN D[c] ELSE 0
  <1>4. Sum(D, DOMAIN D) + b = Sum(B, DOMAIN B) + e
    BY <1>2, <1>3, SumStep
  <1>5. e = b + 1 /\ b \in Nat
    BY <1>1 DEF IsBag
  <1>6. Sum(D, DOMAIN D) \in Nat /\ Sum(B, DOMAIN B) \in Nat
    BY <1>2, SumNat
  <1> HIDE DEF b, e
  <1>7. Sum(D, DOMAIN D) = Sum(B, DOMAIN B) + 1
    BY <1>4, <1>5, <1>6
  <1> QED BY <1>6, <1>7 DEF D

-----------------------------------------------------------------------------
(***************************************************************************)
(* The invariant.  The types, with the bags and the MITRE calls spelt out. *)
(***************************************************************************)
ClaimIds == UNION {{Claimed[d][n] : n \in DOMAIN Claimed[d]} : d \in Triggers}
Copied == [id : Ids, status : I!Statuses, detection : Triggers]
Calls  == [pc : I!PCs, id : Ids \cup {None}, to : I!Statuses \cup {None}]
MCalls == [trigger : Triggers \cup {None}, todo : Seq(ClaimIds), emit : BOOLEAN,
           found : Seq(Techniques)]
Jobs   == [pc : {"idle", "incidents", "detection", "mitre", "techniques"},
           id : Ids \cup {None}, status : I!Statuses \cup {None}, found : Seq(Techniques)]

Typed ==
  /\ status \in [Ids -> I!Statuses \cup {None}]
  /\ resolvedAt \in [Ids -> {"Resolved", "Closed", None}]
  /\ timeline \in [Ids -> Seq(I!Statuses)]
  /\ artifacts \in [Ids -> Nat]
  /\ events \in [Ids -> Seq(I!Notice)]
  /\ call \in [Threads -> Calls]
  /\ mappings \in Seq(Techniques)
  /\ hits \in [M!Hits -> Nat] /\ announced \in [M!Hits -> Nat]
  /\ mcall \in [Deliverers -> MCalls]
  /\ IsBag(copies, Copied) /\ IsBag(detections, Triggers) /\ IsBag(techniques, Techniques)
  /\ origin \in [Ids -> Triggers \cup {None}]
  /\ job \in [Threads -> Jobs]

LEMMA TypedIsTypeOK == Typed => TypeOK
  <1> SUFFICES ASSUME Typed PROVE TypeOK
    OBVIOUS
  <1>1. I!TypeOK
    BY DEF Typed, I!TypeOK, Calls
  <1>2. M!TypeOK
    BY SameTriggers DEF Typed, M!TypeOK, MCalls, Triggers, M!Hits
  <1>3. \A c \in DOMAIN copies : c.id \in Ids /\ c.status \in I!Statuses /\ c.detection \in Triggers
    BY DEF Typed, IsBag, Copied
  <1> QED BY <1>1, <1>2, <1>3, SameTriggers DEF Typed, TypeOK, IsBag, Jobs

(* How far a status is along the life of an incident.                      *)
Height(s) == CASE s = "Open" -> 0 [] s = "Investigating" -> 1 [] s = "Contained" -> 2
               [] s = "Resolved" -> 3 [] OTHER -> 4

(* What a thread has in hand agrees with the call it is in, and with the   *)
(* incident it works on.                                                   *)
Agrees(t) ==
  /\ At(t, "idle") => job[t] = Idle
  /\ ~At(t, "techniques") => job[t].found = <<>>
  /\ t \in Analysts => At(t, "idle") \/ At(t, "incidents")
  /\ ~At(t, "idle") => job[t].id \in Ids /\ job[t].status \in I!Statuses /\ DetectionOf(t) \in Triggers
  /\ At(t, "incidents") => (t \in Deliverers <=> job[t].status = "Open")
  /\ call[t].pc # "attach"
  /\ call[t].pc = "idle" => call[t] = I!Idle
  /\ call[t].pc # "idle" =>
       At(t, "incidents") /\ call[t].id = job[t].id /\ call[t].to = job[t].status
  /\ call[t].pc = "push" => job[t].status = "Open" /\ status[job[t].id] = None
  /\ At(t, "incidents") /\ call[t].pc # "push" =>
       /\ status[job[t].id] # None
       /\ Height(job[t].status) <= Height(status[job[t].id])
  /\ At(t, "incidents") /\ call[t].pc # "record" => job[t].status \in I!AuditedOf(job[t].id)

(* No two threads have the same status of one incident in hand.            *)
Apart ==
  \A t, u \in Threads :
    At(t, "incidents") /\ At(u, "incidents") /\ job[t].id = job[u].id /\ job[t].status = job[u].status
      => t = u

(* The log of an incident never runs ahead of it.                          *)
Ages(i) ==
  /\ origin[i] # None <=> I!AuditedOf(i) # {}
  /\ status[i] # None => I!AuditedOf(i) # {} /\ \A s \in I!AuditedOf(i) : Height(s) <= Height(status[i])
  /\ status[i] = None =>
       /\ I!AuditedOf(i) \subseteq {"Open"}
       /\ I!AuditedOf(i) # {} => \E t \in Threads : call[t].pc = "push" /\ call[t].id = i

Incid == (\A t \in Threads : Agrees(t)) /\ Apart /\ (\A i \in Ids : Ages(i))

(* A copy is true when it is made, is made once, and the first one of an   *)
(* incident is made before the trigger is recorded.                        *)
OwnCopy(t) == A!Copy(job[t].id, job[t].status, DetectionOf(t))
Copying ==
  /\ \A c \in DOMAIN copies : /\ copies[c] = 1 /\ status[c.id] # None
                              /\ c.status \in I!AuditedOf(c.id) /\ c.detection = origin[c.id]
  /\ \A t \in Threads : At(t, "incidents") => OwnCopy(t) \notin DOMAIN copies
  /\ \A t \in Deliverers : ~At(t, "idle") /\ ~At(t, "incidents") =>
       A!Copy(job[t].id, "Open", DetectionOf(t)) \in DOMAIN copies
  /\ \A i \in Ids : origin[i] # None =>
       \/ A!Copy(i, "Open", origin[i]) \in DOMAIN copies
       \/ \E t \in Deliverers : At(t, "incidents") /\ job[t].id = i
  /\ \A d \in DOMAIN detections : \E i \in Ids : A!Copy(i, "Open", d) \in DOMAIN copies

(* What a call of the MITRE engine has found and has left to do is what    *)
(* its trigger claims.                                                     *)
Mapping(t) ==
  /\ ~At(t, "mitre") => mcall[t] = M!Calm
  /\ mcall[t].trigger = None => mcall[t] = M!Calm
  /\ mcall[t].trigger # None =>
       /\ mcall[t].trigger = DetectionOf(t)
       /\ Len(mcall[t].found) + Cardinality(Places(mcall[t].todo, Techniques))
            = Cardinality(Claims(DetectionOf(t)))
  /\ mcall[t].emit => mcall[t].todo # <<>> /\ Head(mcall[t].todo) \in Techniques

(* The books balance.                                                      *)
Recorded(d) == {i \in Ids : A!Copy(i, "Open", d) \in DOMAIN copies}
Emitting(p) == {t \in Deliverers : mcall[t].emit /\ p = M!Claim(t)}
Held == [t \in Deliverers |-> Len(job[t].found) + Found[t]]
Made(d) == Cardinality(Recorded(d)) + Cardinality(Busy("incidents", d)) = Cardinality(CreatedFor(d))
Seen(d) == Times(d) + Cardinality(Busy("detection", d)) = Cardinality(Recorded(d))
Mapped(d) ==
  Sum(announced, {d} \X Techniques)
    = (Times(d) - Cardinality(Busy("mitre", d))) * Cardinality(Claims(d))
        + Sum(Found, Busy("mitre", d))
Spoken(p) == hits[p] = announced[p] + Cardinality(Emitting(p))
Told == Sum(techniques, DOMAIN techniques) + Sum(Held, Deliverers) = Sum(announced, M!Hits)
Balanced ==
  /\ \A d \in Triggers : Made(d) /\ Seen(d) /\ Mapped(d)
  /\ \A p \in M!Hits : Spoken(p)
  /\ Told

Mappings == \A t \in Deliverers : Mapping(t)
Inv == Typed /\ Incid /\ Copying /\ Mappings /\ Balanced

-----------------------------------------------------------------------------
(***************************************************************************)
(* What the assumptions give.                                              *)
(***************************************************************************)
LEMMA NoneApart == None \notin Ids /\ None \notin I!Statuses /\ None \notin Triggers
  BY EngineAssumptions, SameTriggers DEF M!Assumption, Triggers

LEMMA ThreadsApart ==
  /\ Deliverers \subseteq Threads /\ Analysts \subseteq Threads
  /\ \A t \in Threads : t \in Analysts <=> t \notin Deliverers
  BY RolesDistinct DEF Threads

LEMMA ClaimedTyped ==
  ASSUME NEW d \in Triggers
  PROVE  Claimed[d] \in Seq(ClaimIds)
  <1> DEFINE C == {Claimed[d][n] : n \in DOMAIN Claimed[d]}
  <1>1. Claimed[d] \in Seq(C)
    BY EngineAssumptions, SameTriggers DEF M!Assumption, Triggers
  <1>2. C \subseteq ClaimIds
    BY DEF ClaimIds
  <1> HIDE DEF C
  <1> QED BY <1>1, <1>2

LEMMA HitsFinite == IsFiniteSet(Techniques) /\ M!Hits = Triggers \X Techniques /\ IsFiniteSet(M!Hits)
  <1>1. IsFiniteSet(Techniques) /\ IsFiniteSet(Triggers)
    <2>1. IsFiniteSet(Techniques)
      BY EngineAssumptions DEF M!Assumption, M!IsFiniteSet, IsFiniteSet
    <2> QED BY <2>1, Finitely DEF Triggers
  <1>2. M!Hits = Triggers \X Techniques
    BY SameTriggers DEF M!Hits, Triggers
  <1> QED BY <1>1, <1>2, FS_Product

LEMMA ClaimsFinite ==
  ASSUME NEW d \in Triggers
  PROVE  IsFiniteSet(Claims(d)) /\ Cardinality(Claims(d)) \in Nat
  <1>1. Claims(d) = Places(Claimed[d], Techniques)
    BY DEF Claims, Places
  <1> QED BY <1>1, ClaimedTyped, PlacesFinite

(* One more entry of the log.                                              *)
LEMMA AuditedAppend ==
  ASSUME Typed, NEW i \in Ids, NEW s \in I!Statuses,
         timeline' = [timeline EXCEPT ![i] = Append(@, s)]
  PROVE  /\ (I!AuditedOf(i))' = I!AuditedOf(i) \cup {s}
         /\ \A j \in Ids \ {i} : (I!AuditedOf(j))' = I!AuditedOf(j)
  <1>1. timeline[i] \in Seq(I!Statuses) /\ timeline'[i] = Append(timeline[i], s)
    BY DEF Typed
  <1>2. /\ Len(timeline'[i]) = Len(timeline[i]) + 1 /\ Len(timeline[i]) \in Nat
        /\ \A n \in 1..Len(timeline[i]) : timeline'[i][n] = timeline[i][n]
        /\ timeline'[i][Len(timeline[i]) + 1] = s
    BY <1>1
  <1>3. (I!AuditedOf(i))' = I!AuditedOf(i) \cup {s}
    <2>1. 1..Len(timeline'[i]) = 1..Len(timeline[i]) \cup {Len(timeline[i]) + 1}
      BY <1>2
    <2> QED BY <1>2, <2>1 DEF I!AuditedOf
  <1>4. ASSUME NEW j \in Ids \ {i} PROVE (I!AuditedOf(j))' = I!AuditedOf(j)
    <2>1. timeline'[j] = timeline[j]
      BY DEF Typed
    <2> QED BY <2>1 DEF I!AuditedOf
  <1> QED BY <1>3, <1>4

(* A thread has only its own job changed, and what the others work on was  *)
(* created for the same trigger as before.                                 *)
Others(t) ==
  \A u \in Threads \ {t} :
    job'[u] = job[u] /\ (job[u].pc # "idle" => DetectionOf(u)' = DetectionOf(u))

LEMMA JobStep ==
  ASSUME Typed, NEW t \in Threads, NEW r, job' = [job EXCEPT ![t] = r]
  PROVE  /\ job'[t] = r /\ \A u \in Threads \ {t} : job'[u] = job[u]
         /\ UNCHANGED origin => Others(t)
  BY DEF Typed, Others, DetectionOf

-----------------------------------------------------------------------------
(***************************************************************************)
(* The incidents.                                                          *)
(***************************************************************************)
LEMMA IncidDeliver ==
  ASSUME Inv, NEW t \in Deliverers, NEW d \in Triggers, NEW i \in Ids, Deliver(t, d, i)
  PROVE  /\ Others(t) /\ Incid'
         /\ status[i] = None /\ origin[i] = None
  <1>0. Typed /\ Incid /\ t \in Threads
    BY ThreadsApart DEF Inv
  <1>1. /\ job[t].pc = "idle" /\ call[t].pc = "idle" /\ status[i] = None
        /\ \A u \in Threads : call[u].id # i
    BY <1>0 DEF Deliver, I!Create, I!Fresh, I!At, At
  <1>2. I!AuditedOf(i) = {} /\ origin[i] = None
    BY <1>0, <1>1 DEF Incid, Ages
  <1>3. /\ job' = [job EXCEPT ![t] = [pc |-> "incidents", id |-> i, status |-> "Open", found |-> <<>>]]
        /\ call' = [call EXCEPT ![t] = [pc |-> "push", id |-> i, to |-> "Open"]]
        /\ timeline' = [timeline EXCEPT ![i] = Append(@, "Open")]
        /\ origin' = [origin EXCEPT ![i] = d]
        /\ status' = status
    BY DEF Deliver, I!Create, I!RecordTimeline
  <1>4. /\ (I!AuditedOf(i))' = {"Open"}
        /\ \A j \in Ids \ {i} : (I!AuditedOf(j))' = I!AuditedOf(j)
    BY <1>0, <1>2, <1>3, AuditedAppend DEF I!Statuses
  <1>5. /\ job'[t] = [pc |-> "incidents", id |-> i, status |-> "Open", found |-> <<>>]
        /\ call'[t] = [pc |-> "push", id |-> i, to |-> "Open"]
        /\ origin'[i] = d
        /\ \A u \in Threads \ {t} : job'[u] = job[u] /\ call'[u] = call[u]
        /\ \A j \in Ids \ {i} : origin'[j] = origin[j]
    BY <1>0, <1>3 DEF Typed
  <1>6. \A u \in Threads : job[u].pc # "idle" => job[u].id \in Ids \ {i}
    BY <1>0, <1>2, NoneApart DEF Incid, Agrees, At, DetectionOf
  <1>7. Others(t)
    BY <1>5, <1>6 DEF Others, DetectionOf
  <1>8. ASSUME NEW u \in Threads PROVE Agrees(u)'
    <2>1. CASE u = t
      BY <1>0, <1>1, <1>3, <1>4, <1>5, <2>1, NoneApart, ThreadsApart DEF Agrees, At, DetectionOf, I!Statuses
    <2>2. CASE u # t
      <3>1. Agrees(u) /\ job'[u] = job[u] /\ call'[u] = call[u]
        BY <1>0, <1>5, <2>2 DEF Incid
      <3>2. CASE job[u].pc = "idle"
        BY <3>1, <3>2 DEF Agrees, At
      <3>3. CASE job[u].pc # "idle"
        <4>1. job[u].id \in Ids \ {i}
          BY <1>6, <3>3
        <4>2. (I!AuditedOf(job[u].id))' = I!AuditedOf(job[u].id)' /\ DetectionOf(u)' = DetectionOf(u)
          BY <1>7, <2>2, <3>3 DEF Others
        <4>3. \A j \in Ids \ {i} : {timeline'[j][n] : n \in 1..Len(timeline'[j])}
                                     = {timeline[j][n] : n \in 1..Len(timeline[j])}
          BY <1>4 DEF I!AuditedOf
        <4> QED BY <1>3, <3>1, <3>3, <4>1, <4>2, <4>3 DEF Agrees, At, I!AuditedOf
      <3> QED BY <3>2, <3>3
    <2> QED BY <2>1, <2>2
  <1>9. Apart'
    BY <1>0, <1>5, <1>6 DEF Incid, Apart, At
  <1>10. ASSUME NEW j \in Ids PROVE Ages(j)'
    <2>1. CASE j = i
      BY <1>0, <1>1, <1>3, <1>4, <1>5, <2>1, NoneApart DEF Ages
    <2>2. CASE j # i
      <3>1. Ages(j)
        BY <1>0 DEF Incid
      <3>2. origin'[j] = origin[j] /\ status'[j] = status[j] /\ (I!AuditedOf(j))' = I!AuditedOf(j)
        BY <1>3, <1>4, <1>5, <2>2
      <3>3. \A u \in Threads : call[u].pc = "push" => u # t /\ call'[u] = call[u]
        BY <1>1, <1>5
      <3> QED BY <3>1, <3>2, <3>3 DEF Ages
    <2> QED BY <2>1, <2>2
  <1> QED BY <1>1, <1>2, <1>7, <1>8, <1>9, <1>10 DEF Incid

LEMMA IncidMove ==
  ASSUME Inv, NEW t \in Analysts, NEW i \in Ids, NEW to \in I!Statuses, Move(t, i, to)
  PROVE  /\ Others(t) /\ Incid' /\ t \in Threads
         /\ status[i] # None /\ to # "Open" /\ Height(status[i]) < Height(to)
         /\ DetectionOf(t)' = origin[i]
  <1>0. Typed /\ Incid /\ t \in Threads /\ t \notin Deliverers
    BY ThreadsApart DEF Inv
  <1>1. job[t].pc = "idle" /\ call[t].pc = "idle" /\ status[i] # None /\ <<status[i], to>> \in I!Edges
    BY DEF Move, I!Transition, I!ValidTransition, I!At, At
  <1>2. to # "Open" /\ Height(status[i]) < Height(to)
    BY <1>1 DEF I!Edges, Height
  <1>3. /\ job' = [job EXCEPT ![t] = [pc |-> "incidents", id |-> i, status |-> to, found |-> <<>>]]
        /\ call' = [call EXCEPT ![t] = [pc |-> "record", id |-> i, to |-> to]]
        /\ status' = [status EXCEPT ![i] = to]
        /\ timeline' = timeline /\ origin' = origin
    BY DEF Move, I!Transition
  <1>4. /\ job'[t] = [pc |-> "incidents", id |-> i, status |-> to, found |-> <<>>]
        /\ call'[t] = [pc |-> "record", id |-> i, to |-> to]
        /\ status'[i] = to
        /\ \A u \in Threads \ {t} : job'[u] = job[u] /\ call'[u] = call[u]
        /\ \A j \in Ids \ {i} : status'[j] = status[j]
    BY <1>0, <1>3 DEF Typed
  <1>5. \A j \in Ids : (I!AuditedOf(j))' = I!AuditedOf(j)
    BY <1>3 DEF I!AuditedOf
  <1>6. I!AuditedOf(i) # {} /\ (\A s \in I!AuditedOf(i) : Height(s) <= Height(status[i])) /\ origin[i] \in Triggers
    BY <1>0, <1>1 DEF Incid, Ages, Typed
  <1>7. Others(t) /\ DetectionOf(t)' = origin[i]
    BY <1>3, <1>4 DEF Others, DetectionOf
  <1>8. Height(to) \in Nat /\ Height(status[i]) \in Nat
    BY DEF Height
  <1>9. ASSUME NEW u \in Threads PROVE Agrees(u)'
    <2>1. CASE u = t
      BY <1>0, <1>3, <1>4, <1>6, <1>7, <1>8, <1>2, <2>1, NoneApart DEF Agrees, At
    <2>2. CASE u # t
      <3>1. Agrees(u) /\ job'[u] = job[u] /\ call'[u] = call[u] /\ DetectionOf(u)' = DetectionOf(u)
        BY <1>0, <1>3, <1>4, <2>2 DEF Incid, DetectionOf
      <3>2. call[u].pc = "push" => job[u].id # i
        BY <1>1, <3>1 DEF Agrees
      <3>3. Height(job[u].status) \in Nat
        BY DEF Height
      <3>4. job[u].pc = "incidents" /\ call[u].pc # "push" =>
              /\ status'[job[u].id] # None
              /\ Height(job[u].status) <= Height(status'[job[u].id])
        BY <1>2, <1>4, <1>8, <3>1, <3>3, NoneApart DEF Agrees, At
      <3>5. job[u].pc # "idle" => job[u].id \in Ids
        BY <3>1 DEF Agrees, At
      <3>6. timeline' = timeline
        BY <1>3
      <3>7. call[u].pc = "push" => status'[job[u].id] = None
        BY <1>4, <3>1, <3>2, <3>5 DEF Agrees, At
      <3> QED BY <3>1, <3>4, <3>5, <3>6, <3>7 DEF Agrees, At, I!AuditedOf
    <2> QED BY <2>1, <2>2
  <1>10. ASSUME NEW u \in Threads \ {t}, job[u].pc = "incidents", job[u].id = i, job[u].status = to PROVE FALSE
    <2>1. Agrees(u)
      BY <1>0 DEF Incid
    <2>2. Height(to) <= Height(status[i])
      BY <1>1, <1>10, <2>1 DEF Agrees, At
    <2> QED BY <1>2, <1>8, <2>2
  <1>11. Apart'
    <2> SUFFICES ASSUME NEW u \in Threads, NEW v \in Threads, u # v,
                        job'[u].pc = "incidents", job'[v].pc = "incidents",
                        job'[u].id = job'[v].id, job'[u].status = job'[v].status
                 PROVE  FALSE
      BY DEF Apart, At
    <2>1. CASE u = t
      BY <1>4, <1>10, <2>1
    <2>2. CASE v = t
      BY <1>4, <1>10, <2>2
    <2>3. CASE u # t /\ v # t
      BY <1>0, <1>4, <2>3 DEF Incid, Apart, At
    <2> QED BY <2>1, <2>2, <2>3
  <1>12. ASSUME NEW j \in Ids PROVE Ages(j)'
    <2>0. Ages(j) /\ origin'[j] = origin[j] /\ (I!AuditedOf(j))' = I!AuditedOf(j)
      BY <1>0, <1>3, <1>5 DEF Incid
    <2>1. CASE j = i
      <3>1. \A s \in I!AuditedOf(i) : Height(s) <= Height(to)
        <4> SUFFICES ASSUME NEW s \in I!AuditedOf(i) PROVE Height(s) <= Height(to)
          OBVIOUS
        <4>1. Height(s) <= Height(status[i]) /\ Height(s) \in Nat
          BY <1>6 DEF Height
        <4> QED BY <1>2, <1>8, <4>1
      <3> QED BY <1>4, <1>6, <2>0, <2>1, <3>1, NoneApart DEF Ages
    <2>2. CASE j # i
      <3>1. \A u \in Threads : call[u].pc = "push" => u # t /\ call'[u] = call[u]
        BY <1>1, <1>4
      <3> QED BY <1>4, <2>0, <2>2, <3>1 DEF Ages
    <2> QED BY <2>1, <2>2
  <1> QED BY <1>0, <1>1, <1>2, <1>7, <1>9, <1>11, <1>12 DEF Incid

(* In the incident manager, a thread has the job it came with.             *)
LEMMA InHand ==
  ASSUME Typed, Incid, NEW t \in Threads, call[t].pc # "idle"
  PROVE  /\ job[t].pc = "incidents" /\ job[t].id \in Ids /\ job[t].status \in I!Statuses
         /\ call[t].id = job[t].id /\ call[t].to = job[t].status
         /\ DetectionOf(t) \in Triggers
  BY DEF Incid, Agrees, At

LEMMA IncidPush ==
  ASSUME Typed, Incid, NEW t \in Threads, I!CreatePush(t), UNCHANGED <<origin, job>>
  PROVE  /\ Incid'
         /\ \A i \in Ids : status[i] # None => status'[i] = status[i]
  <1> DEFINE i == job[t].id
  <1>1. /\ call[t].pc = "push" /\ job[t].pc = "incidents" /\ i \in Ids /\ job[t].status = "Open"
        /\ call[t].id = i /\ call[t].to = "Open" /\ status[i] = None
    BY InHand DEF I!CreatePush, I!At, Incid, Agrees
  <1>2. /\ status' = [status EXCEPT ![i] = "Open"]
        /\ call' = [call EXCEPT ![t].pc = "notify"]
        /\ timeline' = timeline /\ origin' = origin /\ job' = job
    BY <1>1 DEF I!CreatePush, I!Goto
  <1>3. /\ status'[i] = "Open" /\ \A j \in Ids \ {i} : status'[j] = status[j]
        /\ call'[t].pc = "notify" /\ call'[t].id = i /\ call'[t].to = "Open"
        /\ \A u \in Threads \ {t} : call'[u] = call[u]
    BY <1>1, <1>2 DEF Typed, Calls
  <1>4. Ages(i) /\ Agrees(t)
    BY <1>1 DEF Incid
  <1>5. I!AuditedOf(i) = {"Open"} /\ origin[i] # None
    <2>1. DetectionOf(t) \in Triggers
      BY <1>1, InHand
    <2> QED BY <1>1, <1>4, <2>1, NoneApart DEF Ages, DetectionOf
  <1>6. \A j \in Ids : (I!AuditedOf(j))' = I!AuditedOf(j)
    BY <1>2 DEF I!AuditedOf
  <1>7. "Open" \in I!Statuses /\ Height("Open") = 0
    BY DEF I!Statuses, Height
  <1>8. ASSUME NEW u \in Threads \ {t}, job[u].pc = "incidents", job[u].id = i PROVE FALSE
    <2>1. Agrees(u) /\ job[u].id \in Ids
      BY <1>8 DEF Incid, Agrees, At
    <2>2. call[u].pc = "push" /\ job[u].status = "Open"
      BY <1>1, <1>8, <2>1 DEF Agrees, At
    <2> QED BY <1>1, <1>8, <2>2 DEF Incid, Apart, At
  <1> HIDE DEF i
  <1>9. ASSUME NEW u \in Threads PROVE Agrees(u)'
    <2>1. CASE u = t
      <3>1. Height("Open") <= Height(status'[i])
        BY <1>3, <1>7
      <3> QED BY <1>1, <1>2, <1>3, <1>4, <1>5, <1>6, <1>7, <2>1, <3>1, NoneApart
              DEF Agrees, At, DetectionOf, i, I!AuditedOf
    <2>2. CASE u # t
      <3>1. Agrees(u) /\ call'[u] = call[u]
        BY <1>3, <2>2 DEF Incid
      <3>2. job[u].pc = "incidents" => job[u].id \in Ids \ {i}
        BY <1>8, <2>2, <3>1 DEF Agrees, At
      <3>3. job[u].pc = "incidents" => status'[job[u].id] = status[job[u].id]
        BY <1>3, <3>2
      <3>4. call[u].pc = "push" => status'[job[u].id] = None
        BY <3>1, <3>3 DEF Agrees, At
      <3> QED BY <1>2, <3>1, <3>3, <3>4 DEF Agrees, At, DetectionOf, I!AuditedOf
    <2> QED BY <2>1, <2>2
  <1>10. Apart'
    BY <1>2 DEF Incid, Apart, At
  <1>11. ASSUME NEW j \in Ids PROVE Ages(j)'
    <2>0. Ages(j) /\ (I!AuditedOf(j))' = I!AuditedOf(j) /\ origin'[j] = origin[j]
      BY <1>2, <1>6 DEF Incid
    <2>1. CASE j = i
      BY <1>3, <1>5, <1>7, <2>0, <2>1, NoneApart DEF Ages
    <2>2. CASE j # i
      <3>1. \A u \in Threads : call[u].pc = "push" /\ call[u].id = j => call'[u] = call[u]
        BY <1>1, <1>3, <2>2
      <3> QED BY <1>3, <2>0, <2>2, <3>1 DEF Ages
    <2> QED BY <2>1, <2>2
  <1> QED BY <1>1, <1>3, <1>9, <1>10, <1>11 DEF Incid

LEMMA IncidRecord ==
  ASSUME Typed, Incid, NEW t \in Threads, I!TransitionRecord(t), UNCHANGED <<origin, job>>
  PROVE  /\ Incid'
         /\ \A i \in Ids : I!AuditedOf(i) \subseteq (I!AuditedOf(i))'
  <1>0. PICK i \in Ids, s \in I!Statuses : i = job[t].id /\ s = job[t].status
    BY InHand DEF I!TransitionRecord, I!At
  <1>1. /\ call[t].pc = "record" /\ job[t].pc = "incidents" /\ i \in Ids /\ s \in I!Statuses
        /\ call[t].id = i /\ call[t].to = s /\ DetectionOf(t) \in Triggers
    BY <1>0, InHand DEF I!TransitionRecord, I!At
  <1>2. /\ timeline' = [timeline EXCEPT ![i] = Append(@, s)]
        /\ call' = [call EXCEPT ![t].pc = "notify"]
        /\ status' = status /\ origin' = origin /\ job' = job
    BY <1>1 DEF I!TransitionRecord, I!Goto, I!RecordTimeline
  <1>3. /\ call'[t].pc = "notify" /\ call'[t].id = i /\ call'[t].to = s
        /\ \A u \in Threads \ {t} : call'[u] = call[u]
    BY <1>1, <1>2 DEF Typed, Calls
  <1>4. Ages(i) /\ Agrees(t)
    BY <1>1 DEF Incid
  <1>5. status[i] # None /\ Height(s) <= Height(status[i]) /\ origin[i] # None
    BY <1>0, <1>1, <1>4, NoneApart DEF Agrees, At, DetectionOf
  <1>6. /\ (I!AuditedOf(i))' = I!AuditedOf(i) \cup {s}
        /\ \A j \in Ids \ {i} : (I!AuditedOf(j))' = I!AuditedOf(j)
    BY <1>1, <1>2, AuditedAppend
  <1>7. \A j \in Ids : I!AuditedOf(j) \subseteq (I!AuditedOf(j))'
    BY <1>6
  <1>8. \A j \in Ids : {timeline[j][n] : n \in 1..Len(timeline[j])}
                         \subseteq {timeline'[j][n] : n \in 1..Len(timeline'[j])}
    BY <1>7 DEF I!AuditedOf
  <1>9. s \in {timeline'[i][n] : n \in 1..Len(timeline'[i])}
    BY <1>6 DEF I!AuditedOf
  <1>10. ASSUME NEW u \in Threads PROVE Agrees(u)'
    <2>1. CASE u = t
      BY <1>0, <1>1, <1>2, <1>3, <1>4, <1>9, <2>1 DEF Agrees, At, DetectionOf, I!AuditedOf
    <2>2. CASE u # t
      <3>1. Agrees(u) /\ call'[u] = call[u]
        BY <1>3, <2>2 DEF Incid
      <3>2. job[u].pc = "incidents" => job[u].id \in Ids
        BY <3>1 DEF Agrees, At
      <3>3. job[u].pc = "incidents" /\ call[u].pc # "record" => job[u].status \in (I!AuditedOf(job[u].id))'
        <4>1. job[u].pc = "incidents" /\ call[u].pc # "record" => job[u].status \in I!AuditedOf(job[u].id)
          BY <3>1 DEF Agrees, At
        <4>2. job'[u].id = job[u].id
          BY <1>2
        <4> QED BY <1>8, <3>2, <4>1, <4>2 DEF I!AuditedOf
      <3> QED BY <1>2, <3>1, <3>3 DEF Agrees, At, DetectionOf
    <2> QED BY <2>1, <2>2
  <1>11. Apart'
    BY <1>2 DEF Incid, Apart, At
  <1>12. ASSUME NEW j \in Ids PROVE Ages(j)'
    <2>0. Ages(j) /\ origin'[j] = origin[j] /\ status'[j] = status[j]
      BY <1>2 DEF Incid
    <2>1. CASE j = i
      <3>1. \A x \in I!AuditedOf(i) \cup {s} : Height(x) <= Height(status[i])
        BY <1>5, <2>0, <2>1 DEF Ages
      <3>2. (I!AuditedOf(i))' # {}
        BY <1>6
      <3> QED BY <1>5, <1>6, <2>0, <2>1, <3>1, <3>2 DEF Ages
    <2>2. CASE j # i
      <3>1. \A u \in Threads : call[u].pc = "push" => call'[u] = call[u]
        BY <1>1, <1>3
      <3> QED BY <1>6, <2>0, <2>2, <3>1 DEF Ages
    <2> QED BY <2>1, <2>2
  <1> QED BY <1>7, <1>10, <1>11, <1>12 DEF Incid

LEMMA IncidEmit ==
  ASSUME Typed, Incid, NEW t \in Threads, I!Emit(t), UNCHANGED <<origin, job>>
  PROVE  Incid'
  <1>1. /\ call[t].pc = "notify" /\ call'[t] = I!Idle /\ UNCHANGED <<status, timeline, origin, job>>
        /\ \A u \in Threads \ {t} : call'[u] = call[u]
    BY DEF Typed, I!Emit, I!At, I!Return
  <1>2. I!Idle.pc = "idle"
    BY DEF I!Idle
  <1>3. ASSUME NEW u \in Threads PROVE Agrees(u)'
    <2>0. Agrees(u)
      BY DEF Incid
    <2>1. CASE u = t
      BY <1>1, <1>2, <2>0, <2>1 DEF Agrees, At, DetectionOf, I!AuditedOf
    <2>2. CASE u # t
      BY <1>1, <2>0, <2>2 DEF Agrees, At, DetectionOf, I!AuditedOf
    <2> QED BY <2>1, <2>2
  <1>4. Apart'
    BY <1>1 DEF Incid, Apart, At
  <1>5. ASSUME NEW j \in Ids PROVE Ages(j)'
    <2>1. Ages(j) /\ \A u \in Threads : call[u].pc = "push" => call'[u] = call[u]
      BY <1>1 DEF Incid
    <2> QED BY <1>1, <2>1 DEF Ages, I!AuditedOf
  <1> QED BY <1>3, <1>4, <1>5 DEF Incid

(* Out of the incident manager, a thread goes on with what it has, or goes *)
(* home.                                                                   *)
Later(t, r) ==
  \/ r = Idle
  \/ /\ t \in Deliverers /\ job[t].pc # "idle" /\ r.id = job[t].id /\ r.status = job[t].status
     /\ r.pc \in {"detection", "mitre", "techniques"} /\ (r.pc = "techniques" \/ r.found = <<>>)

LEMMA IncidJob ==
  ASSUME Typed, Incid, NEW t \in Threads, call[t].pc = "idle", NEW r, Later(t, r),
         job' = [job EXCEPT ![t] = r], UNCHANGED <<ivars, origin>>
  PROVE  Incid'
  <1>1. job'[t] = r /\ \A u \in Threads \ {t} : job'[u] = job[u]
    BY JobStep
  <1>2. UNCHANGED <<status, timeline, call, origin>>
    BY DEF ivars
  <1>3. ASSUME NEW u \in Threads PROVE Agrees(u)'
    <2>0. Agrees(u)
      BY DEF Incid
    <2>1. CASE u = t
      <3>1. CASE r = Idle
        BY <1>1, <1>2, <2>0, <2>1, <3>1 DEF Agrees, At, Idle
      <3>2. CASE r # Idle
        BY <1>1, <1>2, <2>0, <2>1, <3>2, ThreadsApart DEF Agrees, At, DetectionOf, Later
      <3> QED BY <3>1, <3>2
    <2>2. CASE u # t
      BY <1>1, <1>2, <2>0, <2>2 DEF Agrees, At, DetectionOf, I!AuditedOf
    <2> QED BY <2>1, <2>2
  <1>4. Apart'
    <2>1. r.pc # "incidents"
      BY DEF Later, Idle
    <2> QED BY <1>1, <2>1 DEF Incid, Apart, At
  <1>5. ASSUME NEW j \in Ids PROVE Ages(j)'
    <2>1. Ages(j) /\ (I!AuditedOf(j))' = I!AuditedOf(j)
      BY <1>2 DEF Incid, I!AuditedOf
    <2> QED BY <1>2, <2>1 DEF Ages
  <1> QED BY <1>3, <1>4, <1>5 DEF Incid

LEMMA IncidSame ==
  ASSUME Incid, UNCHANGED <<ivars, origin, job>>
  PROVE  Incid'
  <1>1. UNCHANGED <<status, timeline, call, origin, job>>
    BY DEF ivars
  <1>2. ASSUME NEW t \in Threads PROVE Agrees(t)'
    BY <1>1 DEF Incid, Agrees, At, DetectionOf, I!AuditedOf
  <1>3. ASSUME NEW i \in Ids PROVE Ages(i)'
    <2>1. Ages(i) /\ (I!AuditedOf(i))' = I!AuditedOf(i)
      BY <1>1 DEF Incid, I!AuditedOf
    <2> QED BY <1>1, <2>1 DEF Ages
  <1>4. Apart'
    BY <1>1 DEF Incid, Apart, At
  <1> QED BY <1>2, <1>3, <1>4 DEF Incid

-----------------------------------------------------------------------------
(***************************************************************************)
(* The copies.                                                             *)
(***************************************************************************)
LEMMA CopyFields ==
  ASSUME NEW i, NEW s, NEW d
  PROVE  LET c == A!Copy(i, s, d) IN c.id = i /\ c.status = s /\ c.detection = d
  BY DEF A!Copy

LEMMA CopyIs ==
  ASSUME Typed, NEW c \in DOMAIN copies
  PROVE  /\ c \in Copied /\ c = A!Copy(c.id, c.status, c.detection)
         /\ c.id \in Ids /\ c.status \in I!Statuses /\ c.detection \in Triggers
  BY DEF Typed, IsBag, Copied, A!Copy

LEMMA CopyingDeliver ==
  ASSUME Inv, NEW t \in Deliverers, NEW d \in Triggers, NEW i \in Ids, Deliver(t, d, i)
  PROVE  Copying'
  <1>0. Typed /\ Incid /\ Copying /\ t \in Threads
    BY ThreadsApart DEF Inv
  <1>1. Others(t) /\ Incid' /\ status[i] = None /\ origin[i] = None
    BY IncidDeliver
  <1>2. /\ job' = [job EXCEPT ![t] = [pc |-> "incidents", id |-> i, status |-> "Open", found |-> <<>>]]
        /\ timeline' = [timeline EXCEPT ![i] = Append(@, "Open")]
        /\ origin' = [origin EXCEPT ![i] = d]
        /\ UNCHANGED <<status, copies, detections>>
    BY DEF Deliver, I!Create, I!RecordTimeline, avars
  <1>3. /\ job'[t].pc = "incidents" /\ job'[t].id = i /\ job'[t].status = "Open"
        /\ \A u \in Threads \ {t} : job'[u] = job[u]
        /\ origin'[i] = d /\ \A j \in Ids \ {i} : origin'[j] = origin[j]
        /\ \A j \in Ids : I!AuditedOf(j) \subseteq (I!AuditedOf(j))'
    <2>1. "Open" \in I!Statuses
      BY DEF I!Statuses
    <2>2. \A j \in Ids : I!AuditedOf(j) \subseteq (I!AuditedOf(j))'
      BY <1>0, <1>2, <2>1, AuditedAppend
    <2> QED BY <1>0, <1>2, <2>2 DEF Typed
  <1>4. \A c \in DOMAIN copies : c.id \in Ids \ {i}
    BY <1>0, <1>1, CopyIs DEF Copying
  <1>5. \A u \in Threads : job[u].pc # "idle" => job[u].id \in Ids \ {i}
    BY <1>0, <1>1, NoneApart DEF Incid, Agrees, At, DetectionOf
  <1>6. \A u \in Threads \ {t} : job[u].pc # "idle" => DetectionOf(u)' = DetectionOf(u)
    BY <1>1 DEF Others
  <1>7. ASSUME NEW c \in DOMAIN copies'
        PROVE  /\ copies'[c] = 1 /\ status'[c.id] # None
               /\ c.status \in (I!AuditedOf(c.id))' /\ c.detection = origin'[c.id]
    BY <1>0, <1>2, <1>3, <1>4, <1>7 DEF Copying
  <1>8. ASSUME NEW u \in Threads, At(u, "incidents")' PROVE OwnCopy(u)' \notin DOMAIN copies'
    <2>1. CASE u = t
      <3>1. (OwnCopy(u)').id = i
        BY <1>3, <2>1 DEF OwnCopy, A!Copy
      <3> QED BY <1>2, <1>4, <3>1
    <2>2. CASE u # t
      <3>1. job'[u] = job[u] /\ At(u, "incidents") /\ DetectionOf(u)' = DetectionOf(u)
        BY <1>3, <1>6, <1>8, <2>2 DEF At
      <3>2. OwnCopy(u)' = OwnCopy(u)
        BY <3>1 DEF OwnCopy
      <3> QED BY <1>0, <1>2, <3>1, <3>2 DEF Copying
    <2> QED BY <2>1, <2>2
  <1>9. ASSUME NEW u \in Deliverers, ~At(u, "idle")', ~At(u, "incidents")'
        PROVE  A!Copy(job[u].id, "Open", DetectionOf(u))' \in DOMAIN copies'
    <2>1. u # t /\ u \in Threads
      BY <1>3, <1>9, ThreadsApart DEF At
    <2>2. job'[u] = job[u] /\ ~At(u, "idle") /\ ~At(u, "incidents") /\ DetectionOf(u)' = DetectionOf(u)
      BY <1>3, <1>6, <1>9, <2>1 DEF At
    <2>3. A!Copy(job[u].id, "Open", DetectionOf(u)) \in DOMAIN copies
      BY <1>0, <2>2 DEF Copying
    <2> QED BY <1>2, <2>2, <2>3
  <1>10. ASSUME NEW j \in Ids, origin'[j] # None
         PROVE  \/ A!Copy(j, "Open", origin'[j]) \in DOMAIN copies'
                \/ \E u \in Deliverers : At(u, "incidents")' /\ job'[u].id = j
    <2>1. CASE j = i
      BY <1>3, <2>1 DEF At
    <2>2. CASE j # i
      <3>1. \/ A!Copy(j, "Open", origin[j]) \in DOMAIN copies
            \/ \E u \in Deliverers : At(u, "incidents") /\ job[u].id = j
        BY <1>0, <1>3, <1>10, <2>2 DEF Copying
      <3>2. job[t].pc = "idle"
        BY DEF Deliver, At
      <3>3. \A u \in Deliverers : At(u, "incidents") => job'[u] = job[u]
        BY <1>3, <3>2, ThreadsApart DEF At
      <3> QED BY <1>2, <1>3, <2>2, <3>1, <3>3 DEF At
    <2> QED BY <2>1, <2>2
  <1>11. \A x \in DOMAIN detections' : \E j \in Ids : A!Copy(j, "Open", x) \in DOMAIN copies'
    BY <1>0, <1>2 DEF Copying
  <1> QED BY <1>7, <1>8, <1>9, <1>10, <1>11 DEF Copying

LEMMA CopyingMove ==
  ASSUME Inv, NEW t \in Analysts, NEW i \in Ids, NEW to \in I!Statuses, Move(t, i, to)
  PROVE  Copying'
  <1>0. Typed /\ Incid /\ Copying /\ t \in Threads /\ t \notin Deliverers
    BY ThreadsApart DEF Inv
  <1>1. /\ Others(t) /\ status[i] # None /\ to # "Open" /\ Height(status[i]) < Height(to)
    BY IncidMove
  <1>2. /\ job' = [job EXCEPT ![t] = [pc |-> "incidents", id |-> i, status |-> to, found |-> <<>>]]
        /\ status' = [status EXCEPT ![i] = to]
        /\ UNCHANGED <<timeline, copies, detections, origin>>
    BY DEF Move, I!Transition, avars
  <1>3. /\ job'[t].pc = "incidents" /\ job'[t].id = i /\ job'[t].status = to
        /\ \A u \in Threads \ {t} : job'[u] = job[u]
        /\ \A j \in Ids : status[j] # None => status'[j] # None
        /\ \A j \in Ids : (I!AuditedOf(j))' = I!AuditedOf(j)
    <2>1. \A j \in Ids : (I!AuditedOf(j))' = I!AuditedOf(j)
      BY <1>2 DEF I!AuditedOf
    <2> QED BY <1>0, <1>2, <2>1, NoneApart DEF Typed
  <1>4. Ages(i) /\ Height(to) \in Nat /\ Height(status[i]) \in Nat
    BY <1>0 DEF Incid, Height
  <1>5. to \notin I!AuditedOf(i)
    BY <1>1, <1>4 DEF Ages
  <1>6. \A c \in DOMAIN copies : c.id \in Ids
    BY <1>0, CopyIs
  <1>7. ASSUME NEW c \in DOMAIN copies'
        PROVE  /\ copies'[c] = 1 /\ status'[c.id] # None
               /\ c.status \in (I!AuditedOf(c.id))' /\ c.detection = origin'[c.id]
    BY <1>0, <1>2, <1>3, <1>6, <1>7 DEF Copying
  <1>8. ASSUME NEW u \in Threads, At(u, "incidents")' PROVE OwnCopy(u)' \notin DOMAIN copies'
    <2>1. CASE u = t
      <3>1. (OwnCopy(u)').id = i /\ (OwnCopy(u)').status = to
        BY <1>3, <2>1 DEF OwnCopy, A!Copy
      <3> QED BY <1>0, <1>2, <1>5, <3>1 DEF Copying
    <2>2. CASE u # t
      <3>1. job'[u] = job[u] /\ At(u, "incidents") /\ OwnCopy(u)' = OwnCopy(u)
        BY <1>2, <1>3, <1>8, <2>2 DEF At, OwnCopy, DetectionOf
      <3> QED BY <1>0, <1>2, <3>1 DEF Copying
    <2> QED BY <2>1, <2>2
  <1>9. \A u \in Deliverers : job'[u] = job[u] /\ DetectionOf(u)' = DetectionOf(u)
    BY <1>0, <1>2, <1>3, ThreadsApart DEF DetectionOf
  <1>10. ASSUME NEW u \in Deliverers, ~At(u, "idle")', ~At(u, "incidents")'
         PROVE  A!Copy(job[u].id, "Open", DetectionOf(u))' \in DOMAIN copies'
    BY <1>0, <1>2, <1>9, <1>10 DEF Copying, At
  <1>11. ASSUME NEW j \in Ids, origin'[j] # None
         PROVE  \/ A!Copy(j, "Open", origin'[j]) \in DOMAIN copies'
                \/ \E u \in Deliverers : At(u, "incidents")' /\ job'[u].id = j
    BY <1>0, <1>2, <1>9, <1>11 DEF Copying, At
  <1>12. \A x \in DOMAIN detections' : \E j \in Ids : A!Copy(j, "Open", x) \in DOMAIN copies'
    BY <1>0, <1>2 DEF Copying
  <1> QED BY <1>7, <1>8, <1>10, <1>11, <1>12 DEF Copying

(* Nothing is copied, and the incidents move on.                           *)
LEMMA CopyingKept ==
  ASSUME Typed, Copying, UNCHANGED <<copies, detections, origin, job>>,
         \A i \in Ids : /\ status[i] # None => status'[i] # None
                        /\ I!AuditedOf(i) \subseteq (I!AuditedOf(i))'
  PROVE  Copying'
  <1>1. \A c \in DOMAIN copies : c.id \in Ids
    BY CopyIs
  <1>2. ASSUME NEW c \in DOMAIN copies'
        PROVE  /\ copies'[c] = 1 /\ status'[c.id] # None
               /\ c.status \in (I!AuditedOf(c.id))' /\ c.detection = origin'[c.id]
    BY <1>1, <1>2 DEF Copying
  <1> QED BY <1>2 DEF Copying, OwnCopy, DetectionOf, At

LEMMA CopyingJob ==
  ASSUME Typed, Copying, NEW t \in Threads, t \in Analysts \/ job[t].pc # "incidents",
         NEW r, Later(t, r), job' = [job EXCEPT ![t] = r], UNCHANGED <<ivars, copies, origin>>,
         \A d \in DOMAIN detections' :
           \/ d \in DOMAIN detections
           \/ t \in Deliverers /\ job[t].pc # "idle" /\ d = DetectionOf(t) /\ job[t].id \in Ids
  PROVE  Copying'
  <1>1. job'[t] = r /\ \A u \in Threads \ {t} : job'[u] = job[u]
    BY JobStep
  <1>2. UNCHANGED <<status, timeline, copies, origin>> /\ r.pc # "incidents"
    BY DEF ivars, Later, Idle
  <1>3. ASSUME NEW c \in DOMAIN copies'
        PROVE  /\ copies'[c] = 1 /\ status'[c.id] # None
               /\ c.status \in (I!AuditedOf(c.id))' /\ c.detection = origin'[c.id]
    BY <1>2, <1>3 DEF Copying, I!AuditedOf
  <1>4. ASSUME NEW u \in Threads, At(u, "incidents")' PROVE OwnCopy(u)' \notin DOMAIN copies'
    <2>1. u # t
      BY <1>1, <1>2, <1>4 DEF At
    <2> QED BY <1>1, <1>2, <1>4, <2>1 DEF Copying, At, OwnCopy, DetectionOf
  <1>5. ASSUME NEW u \in Deliverers, ~At(u, "idle")', ~At(u, "incidents")'
        PROVE  A!Copy(job[u].id, "Open", DetectionOf(u))' \in DOMAIN copies'
    <2>0. u \in Threads
      BY ThreadsApart
    <2>1. CASE u = t
      <3>1. job[t].pc # "idle" /\ job[t].pc # "incidents" /\ job'[t].id = job[t].id
        BY <1>1, <1>5, <2>1, ThreadsApart DEF At, Later, Idle
      <3> QED BY <1>2, <2>1, <3>1 DEF Copying, At, DetectionOf
    <2>2. CASE u # t
      BY <1>1, <1>2, <1>5, <2>0, <2>2 DEF Copying, At, DetectionOf
    <2> QED BY <2>1, <2>2
  <1>6. ASSUME NEW j \in Ids, origin'[j] # None
        PROVE  \/ A!Copy(j, "Open", origin'[j]) \in DOMAIN copies'
               \/ \E u \in Deliverers : At(u, "incidents")' /\ job'[u].id = j
    <2>1. \A u \in Deliverers : At(u, "incidents") => job'[u] = job[u]
      BY <1>1, ThreadsApart DEF At
    <2> QED BY <1>2, <1>6, <2>1 DEF Copying, At
  <1>7. ASSUME NEW d \in DOMAIN detections'
        PROVE  \E j \in Ids : A!Copy(j, "Open", d) \in DOMAIN copies'
    <2>1. CASE d \in DOMAIN detections
      BY <1>2, <2>1 DEF Copying
    <2>2. CASE d \notin DOMAIN detections
      <3>1. t \in Deliverers /\ job[t].pc # "idle" /\ d = DetectionOf(t) /\ job[t].id \in Ids
        BY <2>2
      <3>2. job[t].pc # "incidents"
        BY <3>1, ThreadsApart
      <3> QED BY <1>2, <3>1, <3>2 DEF Copying, At
    <2> QED BY <2>1, <2>2
  <1> QED BY <1>3, <1>4, <1>5, <1>6, <1>7 DEF Copying

(* What RecordIncident appends.                                            *)
LEMMA RecordIncidentAdds ==
  ASSUME Typed, Incid, Copying, NEW t \in Threads, RecordIncident(t)
  PROVE  /\ job[t].pc = "incidents" /\ call[t].pc = "idle" /\ OwnCopy(t) \in Copied
         /\ OwnCopy(t) \notin DOMAIN copies
         /\ IsBag(copies', Copied) /\ DOMAIN copies' = DOMAIN copies \cup {OwnCopy(t)}
         /\ \A c \in DOMAIN copies : copies'[c] = copies[c]
         /\ copies'[OwnCopy(t)] = 1
  <1>1. /\ job[t].pc = "incidents" /\ call[t].pc = "idle"
        /\ copies' = copies (+) SetToBag({OwnCopy(t)})
    <2>1. copies' = copies (+) SetToBag({OwnCopy(t)})
      BY DEF RecordIncident, A!RecordIncident, A!(+), (+), A!SetToBag, SetToBag, OwnCopy
    <2> QED BY <2>1 DEF RecordIncident, Returned, At
  <1>2. OwnCopy(t) \in Copied
    BY <1>1 DEF Incid, Agrees, At, OwnCopy, A!Copy, Copied
  <1>3. OwnCopy(t) \notin DOMAIN copies
    BY <1>1 DEF Copying, At
  <1>4. IsBag(copies, Copied)
    BY DEF Typed
  <1>5. /\ IsBag(copies', Copied) /\ DOMAIN copies' = DOMAIN copies \cup {OwnCopy(t)}
        /\ \A c \in DOMAIN copies : copies'[c] = copies[c] + (IF c = OwnCopy(t) THEN 1 ELSE 0)
        /\ OwnCopy(t) \notin DOMAIN copies => copies'[OwnCopy(t)] = 1
    <2>0. PICK o : o = OwnCopy(t)
      OBVIOUS
    <2> DEFINE D == copies (+) SetToBag({o})
    <2>1. /\ IsBag(D, Copied) /\ DOMAIN D = DOMAIN copies \cup {o}
          /\ \A c \in DOMAIN copies : D[c] = copies[c] + (IF c = o THEN 1 ELSE 0)
          /\ o \notin DOMAIN copies => D[o] = 1
      BY <1>2, <1>4, <2>0, BagAdd
    <2>2. copies' = D
      BY <1>1, <2>0
    <2> HIDE DEF D
    <2> QED BY <2>0, <2>1, <2>2
  <1>6. \A c \in DOMAIN copies : copies[c] \in Nat
    BY <1>4 DEF IsBag
  <1>7. \A c \in DOMAIN copies : copies'[c] = copies[c]
    BY <1>3, <1>5, <1>6
  <1> QED BY <1>1, <1>2, <1>3, <1>5, <1>7

LEMMA RecordIncidentLater ==
  ASSUME Typed, Incid, NEW t \in Threads, RecordIncident(t)
  PROVE  \E r : /\ Later(t, r) /\ job' = [job EXCEPT ![t] = r] /\ r \in Jobs /\ r.found = <<>>
                /\ t \in Deliverers =>
                     r.pc = "detection" /\ r.id = job[t].id /\ r.status = job[t].status
  <1>1. Agrees(t) /\ job[t] \in Jobs /\ job[t].pc = "incidents"
    BY DEF Typed, Incid, RecordIncident, Returned, At
  <1>2. CASE t \in Deliverers
    <2> DEFINE r == [job[t] EXCEPT !.pc = "detection"]
    <2>1. job' = [job EXCEPT ![t] = r]
      BY <1>2 DEF RecordIncident, Goto, Typed
    <2>2. /\ r.pc = "detection" /\ r.id = job[t].id /\ r.status = job[t].status
          /\ r.found = <<>> /\ r \in Jobs
      BY <1>1 DEF Agrees, At, Jobs
    <2> HIDE DEF r
    <2> QED BY <1>1, <1>2, <2>1, <2>2 DEF Later
  <1>3. CASE t \notin Deliverers
    <2>1. Idle \in Jobs /\ Idle.found = <<>>
      BY DEF Idle, Jobs
    <2> QED BY <1>3, <2>1 DEF RecordIncident, Later
  <1> QED BY <1>2, <1>3

LEMMA CopyingRecordIncident ==
  ASSUME Typed, Incid, Copying, NEW t \in Threads, RecordIncident(t)
  PROVE  Copying'
  <1> DEFINE o == OwnCopy(t)
  <1>1. /\ job[t].pc = "incidents" /\ call[t].pc = "idle" /\ o \in Copied
        /\ DOMAIN copies' = DOMAIN copies \cup {o}
        /\ \A c \in DOMAIN copies : copies'[c] = copies[c]
        /\ copies'[o] = 1
    BY RecordIncidentAdds
  <1>2. PICK r : /\ Later(t, r) /\ job' = [job EXCEPT ![t] = r]
                 /\ t \in Deliverers =>
                      r.pc = "detection" /\ r.id = job[t].id /\ r.status = job[t].status
    BY RecordIncidentLater
  <1>3. /\ job'[t] = r /\ r.pc # "incidents" /\ \A u \in Threads \ {t} : job'[u] = job[u]
        /\ UNCHANGED <<status, timeline, origin, detections>>
    <2>1. job'[t] = r /\ \A u \in Threads \ {t} : job'[u] = job[u]
      BY <1>2, JobStep
    <2>2. r.pc # "incidents"
      BY <1>2 DEF Later, Idle
    <2> QED BY <2>1, <2>2 DEF RecordIncident, A!RecordIncident, ivars
  <1>4. Agrees(t) /\ job[t].id \in Ids
    BY <1>1 DEF Incid, Agrees, At
  <1>5. o.id = job[t].id /\ o.status = job[t].status /\ o.detection = origin[job[t].id]
    BY DEF OwnCopy, A!Copy, DetectionOf
  <1>6. \A i : (I!AuditedOf(i))' = I!AuditedOf(i)
    BY <1>3 DEF I!AuditedOf
  <1>7. t \in Deliverers => o = A!Copy(job[t].id, "Open", origin[job[t].id])
    BY <1>1, <1>4 DEF Agrees, At, OwnCopy, DetectionOf
  <1>8. ASSUME NEW u \in Threads, At(u, "incidents")'
        PROVE  u # t /\ job'[u] = job[u] /\ OwnCopy(u)' = OwnCopy(u) /\ At(u, "incidents")
    <2>1. u # t
      BY <1>3, <1>8 DEF At
    <2> QED BY <1>3, <1>8, <2>1 DEF At, OwnCopy, DetectionOf
  <1> HIDE DEF o
  <1>9. ASSUME NEW c \in DOMAIN copies'
        PROVE  /\ copies'[c] = 1 /\ status'[c.id] # None
               /\ c.status \in (I!AuditedOf(c.id))' /\ c.detection = origin'[c.id]
    <2>1. CASE c \in DOMAIN copies
      BY <1>1, <1>3, <1>6, <2>1 DEF Copying
    <2>2. CASE c = o
      BY <1>1, <1>3, <1>4, <1>5, <1>6, <2>2 DEF Agrees, At
    <2> QED BY <1>1, <2>1, <2>2
  <1>10. ASSUME NEW u \in Threads, At(u, "incidents")' PROVE OwnCopy(u)' \notin DOMAIN copies'
    <2>1. u # t /\ OwnCopy(u)' = OwnCopy(u) /\ At(u, "incidents")
      BY <1>8, <1>10
    <2>2. OwnCopy(u) # o
      <3> SUFFICES ASSUME OwnCopy(u) = o PROVE FALSE
        OBVIOUS
      <3>1. job[u].id = job[t].id /\ job[u].status = job[t].status
        <4>1. OwnCopy(u).id = job[u].id /\ OwnCopy(u).status = job[u].status
          BY DEF OwnCopy, A!Copy
        <4> QED BY <1>5, <4>1
      <3> QED BY <1>1, <2>1, <3>1 DEF Incid, Apart, At
    <2> QED BY <1>1, <2>1, <2>2 DEF Copying
  <1>11. ASSUME NEW u \in Deliverers, ~At(u, "idle")', ~At(u, "incidents")'
         PROVE  A!Copy(job[u].id, "Open", DetectionOf(u))' \in DOMAIN copies'
    <2>0. u \in Threads
      BY ThreadsApart
    <2>1. CASE u = t
      BY <1>1, <1>2, <1>3, <1>7, <2>1 DEF DetectionOf
    <2>2. CASE u # t
      BY <1>1, <1>3, <1>11, <2>0, <2>2 DEF Copying, At, DetectionOf
    <2> QED BY <2>1, <2>2
  <1>12. ASSUME NEW j \in Ids, origin'[j] # None
         PROVE  \/ A!Copy(j, "Open", origin'[j]) \in DOMAIN copies'
                \/ \E u \in Deliverers : At(u, "incidents")' /\ job'[u].id = j
    <2>1. \/ A!Copy(j, "Open", origin[j]) \in DOMAIN copies
          \/ \E u \in Deliverers : At(u, "incidents") /\ job[u].id = j
      BY <1>3, <1>12 DEF Copying
    <2>2. ASSUME NEW u \in Deliverers, At(u, "incidents"), job[u].id = j
          PROVE  \/ A!Copy(j, "Open", origin'[j]) \in DOMAIN copies'
                 \/ \E v \in Deliverers : At(v, "incidents")' /\ job'[v].id = j
      <3>1. CASE u = t
        BY <1>1, <1>3, <1>7, <2>2, <3>1
      <3>2. CASE u # t
        BY <1>3, <2>2, <3>2, ThreadsApart DEF At
      <3> QED BY <3>1, <3>2
    <2> QED BY <1>1, <1>3, <2>1, <2>2
  <1>13. \A d \in DOMAIN detections' : \E j \in Ids : A!Copy(j, "Open", d) \in DOMAIN copies'
    BY <1>1, <1>3 DEF Copying
  <1> QED BY <1>9, <1>10, <1>11, <1>12, <1>13 DEF Copying

-----------------------------------------------------------------------------
(***************************************************************************)
(* The MITRE calls.                                                        *)
(***************************************************************************)
OthersCall(t) == \A u \in Deliverers \ {t} : mcall'[u] = mcall[u]

LEMMA CalmFields ==
  M!Calm.trigger = None /\ M!Calm.todo = <<>> /\ M!Calm.emit = FALSE /\ M!Calm.found = <<>>
  BY DEF M!Calm

(* A thread that is not in the MITRE engine afterwards has no call there.  *)
LEMMA MappingOut ==
  ASSUME Mappings, NEW t \in Threads, Others(t), OthersCall(t),
         t \in Deliverers => mcall'[t] = M!Calm
  PROVE  Mappings'
  <1> SUFFICES ASSUME NEW u \in Deliverers PROVE Mapping(u)'
    BY DEF Mappings
  <1>1. CASE u = t
    BY <1>1, CalmFields DEF Mapping
  <1>2. CASE u # t
    <2>1. job'[u] = job[u] /\ (job[u].pc # "idle" => DetectionOf(u)' = DetectionOf(u)) /\ mcall'[u] = mcall[u] /\ Mapping(u)
      BY <1>2, ThreadsApart DEF Others, OthersCall, Mappings
    <2>2. job[u].pc = "idle" => mcall[u].trigger = None
      BY <2>1, CalmFields DEF Mapping, At
    <2> QED BY <2>1, <2>2 DEF Mapping, At
  <1> QED BY <1>1, <1>2

LEMMA MappingSame ==
  ASSUME Mappings, UNCHANGED <<mcall, job, origin>>
  PROVE  Mappings'
  BY DEF Mappings, Mapping, At, DetectionOf

(* A step of a call.                                                       *)
LEMMA MappingCall ==
  ASSUME Mappings, NEW t \in Deliverers, OthersCall(t), UNCHANGED <<job, origin>>, Mapping(t)'
  PROVE  Mappings'
  BY DEF Mappings, Mapping, OthersCall, At, DetectionOf

LEMMA MappingCallMitre ==
  ASSUME Inv, NEW t \in Deliverers, CallMitre(t)
  PROVE  /\ Mapping(t)' /\ OthersCall(t) /\ job[t].pc = "mitre" /\ mcall[t] = M!Calm
         /\ DetectionOf(t) \in Triggers
         /\ mcall'[t] = [trigger |-> DetectionOf(t), todo |-> Claimed[DetectionOf(t)],
                         emit |-> FALSE, found |-> <<>>]
         /\ mcall' \in [Deliverers -> MCalls]
  <1>0. PICK d : d = DetectionOf(t)
    OBVIOUS
  <1>1. /\ job[t].pc = "mitre" /\ mcall[t] = M!Calm /\ d \in Triggers
        /\ mcall' = [mcall EXCEPT ![t] = [trigger |-> d, todo |-> Claimed[d], emit |-> FALSE, found |-> <<>>]]
        /\ UNCHANGED <<job, origin>>
    BY <1>0, ThreadsApart DEF CallMitre, M!Trigger, At, Inv, Incid, Agrees
  <1>2. /\ mcall'[t] = [trigger |-> d, todo |-> Claimed[d], emit |-> FALSE, found |-> <<>>]
        /\ OthersCall(t)
    BY <1>1 DEF Inv, Typed, OthersCall
  <1>3. Claimed[d] \in Seq(ClaimIds)
    BY <1>1, ClaimedTyped
  <1>4. Places(Claimed[d], Techniques) = Claims(d) /\ Cardinality(Places(Claimed[d], Techniques)) \in Nat
    BY <1>3, PlacesFinite DEF Places, Claims
  <1>5. Len(<<>>) + Cardinality(Places(Claimed[d], Techniques)) = Cardinality(Claims(d))
    BY <1>4
  <1>6. d # None /\ d = DetectionOf(t)'
    BY <1>0, <1>1, NoneApart DEF DetectionOf
  <1>7. Mapping(t)'
    BY <1>1, <1>2, <1>5, <1>6 DEF Mapping, At
  <1>8. [trigger |-> d, todo |-> Claimed[d], emit |-> FALSE, found |-> <<>>] \in MCalls
    BY <1>1, <1>3 DEF MCalls
  <1>9. mcall' \in [Deliverers -> MCalls]
    BY <1>1, <1>8 DEF Inv, Typed
  <1> QED BY <1>0, <1>1, <1>2, <1>7, <1>9

(* A call under way.                                                       *)
LEMMA Calling ==
  ASSUME Inv, NEW t \in Deliverers, mcall[t].trigger # None \/ mcall[t].todo # <<>> \/ mcall[t].emit
  PROVE  /\ job[t].pc = "mitre" /\ mcall[t] \in MCalls
         /\ mcall[t].trigger \in Triggers /\ mcall[t].trigger = DetectionOf(t)
         /\ mcall[t].todo \in Seq(ClaimIds) /\ mcall[t].found \in Seq(Techniques) /\ mcall[t].emit \in BOOLEAN
         /\ Len(mcall[t].found) + Cardinality(Places(mcall[t].todo, Techniques))
              = Cardinality(Claims(DetectionOf(t)))
  <1>1. mcall[t] \in MCalls /\ Mapping(t)
    BY DEF Inv, Typed, Mappings
  <1>2. mcall[t].trigger # None
    BY <1>1, CalmFields DEF Mapping
  <1>3. job[t].pc = "mitre"
    BY <1>1, <1>2, CalmFields DEF Mapping, At
  <1> QED BY <1>1, <1>2, <1>3 DEF Mapping, MCalls

LEMMA MappingSkip ==
  ASSUME Inv, NEW t \in Deliverers, M!Skip(t), UNCHANGED <<job, origin>>
  PROVE  /\ Mapping(t)' /\ OthersCall(t) /\ mcall' \in [Deliverers -> MCalls]
         /\ mcall'[t].trigger = mcall[t].trigger /\ mcall'[t].found = mcall[t].found
         /\ ~mcall[t].emit /\ ~mcall'[t].emit /\ job[t].pc = "mitre"
  <1>1. /\ mcall[t].todo # <<>> /\ Head(mcall[t].todo) \notin Techniques
        /\ mcall' = [mcall EXCEPT ![t].todo = Tail(@)]
    BY DEF M!Skip
  <1>2. /\ job[t].pc = "mitre" /\ mcall[t] \in MCalls
        /\ mcall[t].trigger \in Triggers /\ mcall[t].trigger = DetectionOf(t)
        /\ mcall[t].todo \in Seq(ClaimIds) /\ mcall[t].found \in Seq(Techniques) /\ mcall[t].emit \in BOOLEAN
        /\ Len(mcall[t].found) + Cardinality(Places(mcall[t].todo, Techniques))
             = Cardinality(Claims(DetectionOf(t)))
    BY <1>1, Calling
  <1>3. ~mcall[t].emit
    BY <1>1 DEF Inv, Mappings, Mapping
  <1>4. /\ mcall'[t].trigger = mcall[t].trigger /\ mcall'[t].found = mcall[t].found
        /\ mcall'[t].emit = mcall[t].emit /\ mcall'[t].todo = Tail(mcall[t].todo)
        /\ OthersCall(t)
    BY <1>1, <1>2 DEF Inv, Typed, MCalls, OthersCall
  <1>5. Tail(mcall[t].todo) \in Seq(ClaimIds)
    BY <1>1, <1>2, HeadTail
  <1>6. mcall' \in [Deliverers -> MCalls]
    BY <1>1, <1>2, <1>5 DEF Inv, Typed, MCalls
  <1>7. Cardinality(Places(Tail(mcall[t].todo), Techniques)) = Cardinality(Places(mcall[t].todo, Techniques))
    <2>1. Cardinality(Places(Tail(mcall[t].todo), Techniques)) \in Nat
      BY <1>5, PlacesFinite
    <2>2. Cardinality(Places(Tail(mcall[t].todo), Techniques))
            + (IF Head(mcall[t].todo) \in Techniques THEN 1 ELSE 0)
          = Cardinality(Places(mcall[t].todo, Techniques))
      BY <1>1, <1>2, PlacesTail
    <2> QED BY <1>1, <2>1, <2>2
  <1>8. DetectionOf(t)' = DetectionOf(t) /\ job' = job
    BY DEF DetectionOf
  <1>9. Mapping(t)'
    BY <1>2, <1>3, <1>4, <1>7, <1>8, NoneApart DEF Mapping, At
  <1> QED BY <1>2, <1>3, <1>4, <1>6, <1>9

LEMMA MappingHit ==
  ASSUME Inv, NEW t \in Deliverers, M!Hit(t), UNCHANGED <<job, origin>>
  PROVE  /\ Mapping(t)' /\ OthersCall(t) /\ mcall' \in [Deliverers -> MCalls]
         /\ mcall'[t].trigger = mcall[t].trigger /\ mcall'[t].found = mcall[t].found
         /\ mcall'[t].todo = mcall[t].todo
         /\ ~mcall[t].emit /\ mcall'[t].emit /\ job[t].pc = "mitre"
         /\ M!Claim(t) \in M!Hits /\ hits' = [hits EXCEPT ![M!Claim(t)] = @ + 1]
  <1>1. /\ mcall[t].todo # <<>> /\ Head(mcall[t].todo) \in Techniques /\ ~mcall[t].emit
        /\ mcall' = [mcall EXCEPT ![t].emit = TRUE]
        /\ hits' = [hits EXCEPT ![M!Claim(t)] = @ + 1]
    BY DEF M!Hit
  <1>2. /\ job[t].pc = "mitre" /\ mcall[t] \in MCalls
        /\ mcall[t].trigger \in Triggers /\ mcall[t].trigger = DetectionOf(t)
        /\ Len(mcall[t].found) + Cardinality(Places(mcall[t].todo, Techniques))
             = Cardinality(Claims(DetectionOf(t)))
    BY <1>1, Calling
  <1>4. /\ mcall'[t].trigger = mcall[t].trigger /\ mcall'[t].found = mcall[t].found
        /\ mcall'[t].emit /\ mcall'[t].todo = mcall[t].todo
        /\ OthersCall(t)
    BY <1>1, <1>2 DEF Inv, Typed, MCalls, OthersCall
  <1>6. mcall' \in [Deliverers -> MCalls]
    BY <1>1, <1>2 DEF Inv, Typed, MCalls
  <1>8. DetectionOf(t)' = DetectionOf(t) /\ job' = job
    BY DEF DetectionOf
  <1>9. Mapping(t)'
    BY <1>1, <1>2, <1>4, <1>8, NoneApart DEF Mapping, At
  <1>10. M!Claim(t) \in M!Hits
    BY <1>1, <1>2, HitsFinite DEF M!Claim
  <1> QED BY <1>1, <1>2, <1>4, <1>6, <1>9, <1>10

LEMMA MappingAnnounce ==
  ASSUME Inv, NEW t \in Deliverers, M!Announce(t), UNCHANGED <<job, origin>>
  PROVE  /\ Mapping(t)' /\ OthersCall(t) /\ mcall' \in [Deliverers -> MCalls]
         /\ mcall'[t].trigger = mcall[t].trigger
         /\ mcall[t].found \in Seq(Techniques) /\ Len(mcall'[t].found) = Len(mcall[t].found) + 1
         /\ mcall[t].emit /\ ~mcall'[t].emit /\ job[t].pc = "mitre"
         /\ mcall[t].trigger \in Triggers /\ mcall[t].trigger = DetectionOf(t)
         /\ M!Claim(t) \in {DetectionOf(t)} \X Techniques
         /\ M!Claim(t) \in M!Hits /\ announced' = [announced EXCEPT ![M!Claim(t)] = @ + 1]
  <1>1. /\ mcall[t].emit
        /\ mcall' = [mcall EXCEPT ![t].emit = FALSE, ![t].todo = Tail(@),
                                  ![t].found = Append(@, Head(mcall[t].todo))]
        /\ announced' = [announced EXCEPT ![M!Claim(t)] = @ + 1]
    BY DEF M!Announce
  <1>2. /\ job[t].pc = "mitre" /\ mcall[t] \in MCalls
        /\ mcall[t].trigger \in Triggers /\ mcall[t].trigger = DetectionOf(t)
        /\ mcall[t].todo \in Seq(ClaimIds) /\ mcall[t].found \in Seq(Techniques)
        /\ Len(mcall[t].found) + Cardinality(Places(mcall[t].todo, Techniques))
             = Cardinality(Claims(DetectionOf(t)))
    BY <1>1, Calling
  <1>3. mcall[t].todo # <<>> /\ Head(mcall[t].todo) \in Techniques
    BY <1>1 DEF Inv, Mappings, Mapping
  <1>4. /\ mcall'[t].trigger = mcall[t].trigger
        /\ mcall'[t].found = Append(mcall[t].found, Head(mcall[t].todo))
        /\ ~mcall'[t].emit /\ mcall'[t].todo = Tail(mcall[t].todo)
        /\ OthersCall(t)
    BY <1>1, <1>2 DEF Inv, Typed, MCalls, OthersCall
  <1>5. /\ Tail(mcall[t].todo) \in Seq(ClaimIds)
        /\ Append(mcall[t].found, Head(mcall[t].todo)) \in Seq(Techniques)
        /\ Len(mcall'[t].found) = Len(mcall[t].found) + 1 /\ Len(mcall[t].found) \in Nat
    BY <1>2, <1>3, <1>4, HeadTail
  <1>6. mcall' \in [Deliverers -> MCalls]
    BY <1>1, <1>2, <1>5 DEF Inv, Typed, MCalls
  <1>7. /\ Cardinality(Places(Tail(mcall[t].todo), Techniques)) + 1 = Cardinality(Places(mcall[t].todo, Techniques))
        /\ Cardinality(Places(Tail(mcall[t].todo), Techniques)) \in Nat
    BY <1>2, <1>3, <1>5, PlacesTail, PlacesFinite
  <1>8. DetectionOf(t)' = DetectionOf(t) /\ job' = job
    BY DEF DetectionOf
  <1>9. Len(mcall'[t].found) + Cardinality(Places(mcall'[t].todo, Techniques))
          = Cardinality(Claims(DetectionOf(t)))
    <2>1. Cardinality(Places(mcall'[t].todo, Techniques)) + 1 = Cardinality(Places(mcall[t].todo, Techniques))
      BY <1>4, <1>7
    <2>2. Cardinality(Places(mcall'[t].todo, Techniques)) \in Nat
      BY <1>4, <1>7
    <2> DEFINE a == Len(mcall[t].found)
               b == Cardinality(Places(mcall[t].todo, Techniques))
               e == Cardinality(Places(mcall'[t].todo, Techniques))
               k == Cardinality(Claims(DetectionOf(t)))
    <2>3. a \in Nat /\ e \in Nat /\ e + 1 = b /\ a + b = k /\ Len(mcall'[t].found) = a + 1
      BY <1>2, <1>5, <2>1, <2>2
    <2> HIDE DEF a, b, e, k
    <2>4. Len(mcall'[t].found) + e = k
      BY <2>3
    <2> QED BY <2>4 DEF e, k
  <1>10. Mapping(t)'
    BY <1>2, <1>4, <1>8, <1>9, NoneApart DEF Mapping, At
  <1>11. M!Claim(t) \in {DetectionOf(t)} \X Techniques
    BY <1>2, <1>3 DEF M!Claim
  <1>12. M!Claim(t) \in M!Hits
    BY <1>2, <1>11, HitsFinite
  <1> QED BY <1>1, <1>2, <1>4, <1>5, <1>6, <1>10, <1>11, <1>12

-----------------------------------------------------------------------------
(***************************************************************************)
(* The books: how counts and sums change when one thread moves.            *)
(***************************************************************************)
LEMMA BusyMember ==
  ASSUME NEW t, NEW pc, NEW d
  PROVE  /\ t \in Busy(pc, d) <=> t \in Deliverers /\ job[t].pc = pc /\ DetectionOf(t) = d
         /\ t \in (Busy(pc, d))' <=> t \in Deliverers /\ job'[t].pc = pc /\ DetectionOf(t)' = d
  BY DEF Busy, At

LEMMA BusyChange ==
  ASSUME NEW t \in Threads, Others(t), NEW pc, pc # "idle", NEW d
  PROVE  /\ (Busy(pc, d))' \ {t} = Busy(pc, d) \ {t}
         /\ Busy(pc, d) \in SUBSET Deliverers /\ (Busy(pc, d))' \in SUBSET Deliverers
         /\ IsFiniteSet(Busy(pc, d)) /\ IsFiniteSet((Busy(pc, d))')
         /\ Cardinality(Busy(pc, d)) \in Nat /\ Cardinality((Busy(pc, d))') \in Nat
         /\ Cardinality((Busy(pc, d))') + (IF t \in Busy(pc, d) THEN 1 ELSE 0)
              = Cardinality(Busy(pc, d)) + (IF t \in (Busy(pc, d))' THEN 1 ELSE 0)
  <1>1. Busy(pc, d) \in SUBSET Deliverers /\ (Busy(pc, d))' \in SUBSET Deliverers
    BY DEF Busy
  <1>2. (Busy(pc, d))' \ {t} = Busy(pc, d) \ {t}
    <2>1. ASSUME NEW u \in Deliverers \ {t} PROVE u \in Busy(pc, d) <=> u \in (Busy(pc, d))'
      <3>1. job'[u] = job[u] /\ (job[u].pc # "idle" => DetectionOf(u)' = DetectionOf(u))
        BY ThreadsApart DEF Others
      <3> QED BY <3>1, BusyMember
    <2> QED BY <1>1, <2>1
  <1>3. IsFiniteSet(Busy(pc, d)) /\ IsFiniteSet((Busy(pc, d))')
    BY <1>1, Finitely, FS_Subset
  <1>4. PICK B, C : B = Busy(pc, d) /\ C = (Busy(pc, d))'
    OBVIOUS
  <1>5. /\ Cardinality(B) \in Nat /\ Cardinality(C) \in Nat
        /\ Cardinality(C) + (IF t \in B THEN 1 ELSE 0) = Cardinality(B) + (IF t \in C THEN 1 ELSE 0)
    BY <1>2, <1>3, <1>4, OneOff
  <1> QED BY <1>1, <1>2, <1>3, <1>4, <1>5

(* If it was not there and will not be, nothing changes.                   *)
LEMMA BusySame ==
  ASSUME NEW t \in Threads, Others(t), NEW pc, pc # "idle", NEW d,
         t \in Deliverers => job[t].pc # pc /\ job'[t].pc # pc
  PROVE  (Busy(pc, d))' = Busy(pc, d)
  <1>1. (Busy(pc, d))' \ {t} = Busy(pc, d) \ {t}
    BY BusyChange
  <1>2. t \notin Busy(pc, d) /\ t \notin (Busy(pc, d))'
    BY BusyMember
  <1> QED BY <1>1, <1>2

LEMMA FoundCounts ==
  ASSUME Typed, NEW S \in SUBSET Deliverers
  PROVE  /\ Counts(Found, S) /\ Sum(Found, S) \in Nat
         /\ \A u \in Deliverers : Found[u] = Len(mcall[u].found) /\ Len(mcall[u].found) \in Nat
  <1>1. \A u \in Deliverers : mcall[u].found \in Seq(Techniques)
    BY DEF Typed, MCalls
  <1>2. \A u \in Deliverers : Found[u] = Len(mcall[u].found) /\ Len(mcall[u].found) \in Nat
    BY <1>1 DEF Found
  <1>3. Counts(Found, S)
    BY <1>2, Finitely, FS_Subset DEF Counts
  <1> QED BY <1>2, <1>3, SumNat

(* Plain arithmetic.                                                       *)
LEMMA SumOfTwo == ASSUME NEW a \in Nat, NEW b \in Nat PROVE a + b \in Nat
  OBVIOUS

LEMMA OneMoreIn ==
  ASSUME NEW i \in Nat, NEW j \in Nat, NEW k, NEW m, NEW n, m = i + j, n = i + k, k = j + 1
  PROVE  n = m + 1
  OBVIOUS

LEMMA HeldIs ==
  ASSUME NEW j, NEW m, NEW h,
         h = [t \in Deliverers |-> Len(j[t].found) + [u \in Deliverers |-> Len(m[u].found)][t]],
         \A u \in Deliverers : j[u].found \in Seq(Techniques) /\ m[u].found \in Seq(Techniques)
  PROVE  /\ Counts(h, Deliverers) /\ Sum(h, Deliverers) \in Nat
         /\ \A u \in Deliverers : /\ h[u] = Len(j[u].found) + Len(m[u].found)
                                  /\ h[u] \in Nat
                                  /\ Len(j[u].found) \in Nat /\ Len(m[u].found) \in Nat
  <1>1. ASSUME NEW u \in Deliverers
        PROVE  /\ h[u] = Len(j[u].found) + Len(m[u].found) /\ h[u] \in Nat
               /\ Len(j[u].found) \in Nat /\ Len(m[u].found) \in Nat
    <2>1. PICK a \in Nat, b \in Nat : a = Len(j[u].found) /\ b = Len(m[u].found)
      OBVIOUS
    <2>2. h[u] = Len(j[u].found) + Len(m[u].found)
      OBVIOUS
    <2>3. h[u] = a + b
      BY <2>1, <2>2
    <2>4. a + b \in Nat
      BY SumOfTwo
    <2>5. h[u] \in Nat
      BY <2>3, <2>4, Zenon
    <2> QED BY <2>1, <2>2, <2>5
  <1>2. Counts(h, Deliverers)
    BY <1>1, Finitely DEF Counts
  <1> QED BY <1>1, <1>2, SumNat

LEMMA HeldCounts ==
  ASSUME Typed
  PROVE  /\ Counts(Held, Deliverers) /\ Sum(Held, Deliverers) \in Nat
         /\ \A u \in Deliverers : /\ Held[u] = Len(job[u].found) + Len(mcall[u].found)
                                  /\ Held[u] \in Nat
                                  /\ Len(job[u].found) \in Nat /\ Len(mcall[u].found) \in Nat
  <1>1. \A u \in Deliverers : job[u].found \in Seq(Techniques) /\ mcall[u].found \in Seq(Techniques)
    BY ThreadsApart DEF Typed, Jobs, MCalls
  <1>2. Held = [t \in Deliverers |-> Len(job[t].found) + [u \in Deliverers |-> Len(mcall[u].found)][t]]
    BY DEF Held, Found
  <1> QED BY <1>1, <1>2, HeldIs

LEMMA AnnouncedCounts ==
  ASSUME Typed, NEW S \in SUBSET M!Hits
  PROVE  Counts(announced, S) /\ Sum(announced, S) \in Nat
  <1>1. Counts(announced, S)
    BY HitsFinite, FS_Subset DEF Typed, Counts
  <1> QED BY <1>1, SumNat

-----------------------------------------------------------------------------
LEMMA MappedSame ==
  ASSUME NEW t \in Threads, Others(t), t \in Deliverers => job[t].pc # "mitre" /\ job'[t].pc # "mitre",
         UNCHANGED <<mcall, detections, announced>>, NEW d, Mapped(d)
  PROVE  Mapped(d)'
  <1>1. (Busy("mitre", d))' = Busy("mitre", d)
    BY BusySame
  <1>2. Times(d)' = Times(d) /\ Found' = Found
    BY DEF Times, Found
  <1> QED BY <1>1, <1>2 DEF Mapped

LEMMA MappedCall ==
  ASSUME UNCHANGED <<job, origin, detections, announced>>,
         \A u \in Deliverers : mcall'[u].found = mcall[u].found, NEW d, Mapped(d)
  PROVE  Mapped(d)'
  <1>1. (Busy("mitre", d))' = Busy("mitre", d)
    BY DEF Busy, At, DetectionOf
  <1>2. Times(d)' = Times(d) /\ Found' = Found
    BY DEF Times, Found
  <1> QED BY <1>1, <1>2 DEF Mapped

LEMMA SpokenSame ==
  ASSUME UNCHANGED <<hits, announced>>,
         \A u \in Deliverers : /\ mcall'[u].emit <=> mcall[u].emit
                               /\ mcall[u].emit => mcall'[u] = mcall[u],
         NEW p, Spoken(p)
  PROVE  Spoken(p)'
  <1>1. (Emitting(p))' = Emitting(p)
    BY DEF Emitting, M!Claim
  <1> QED BY <1>1 DEF Spoken

LEMMA ToldSame ==
  ASSUME Typed, Told, UNCHANGED <<techniques, announced>>,
         \A u \in Deliverers : Len(job'[u].found) + Len(mcall'[u].found)
                                 = Len(job[u].found) + Len(mcall[u].found)
  PROVE  Told'
  <1>1. Held' = Held
    BY DEF Held, Found
  <1> QED BY <1>1 DEF Told

LEMMA BooksSame ==
  ASSUME NEW t \in Threads, Others(t), UNCHANGED <<copies, detections, origin>>,
         t \in Deliverers => /\ job[t].pc \notin {"incidents", "detection"}
                             /\ job'[t].pc \notin {"incidents", "detection"},
         NEW d, Made(d), Seen(d)
  PROVE  Made(d)' /\ Seen(d)'
  <1>1. (Busy("incidents", d))' = Busy("incidents", d) /\ (Busy("detection", d))' = Busy("detection", d)
    BY BusySame
  <1>2. Recorded(d)' = Recorded(d) /\ CreatedFor(d)' = CreatedFor(d) /\ Times(d)' = Times(d)
    BY DEF Recorded, CreatedFor, Times
  <1> QED BY <1>1, <1>2 DEF Made, Seen

LEMMA OthersSame ==
  ASSUME UNCHANGED <<job, origin>>, NEW t
  PROVE  Others(t)
  BY DEF Others, DetectionOf

(* Steps that leave the books alone: nothing about jobs is changed.        *)
LEMMA BooksKept ==
  ASSUME UNCHANGED <<copies, detections, origin, job>>, NEW d, Made(d), Seen(d)
  PROVE  Made(d)' /\ Seen(d)'
  <1>1. (Busy("incidents", d))' = Busy("incidents", d) /\ (Busy("detection", d))' = Busy("detection", d)
    BY DEF Busy, At, DetectionOf
  <1>2. Recorded(d)' = Recorded(d) /\ CreatedFor(d)' = CreatedFor(d) /\ Times(d)' = Times(d)
    BY DEF Recorded, CreatedFor, Times
  <1> QED BY <1>1, <1>2 DEF Made, Seen

(* The MITRE side of the books, for a step outside that engine.            *)
LEMMA OutsideMitre ==
  ASSUME Typed, Balanced, NEW t \in Threads, Others(t),
         t \in Deliverers => job[t].pc # "mitre" /\ job'[t].pc # "mitre",
         t \in Deliverers => Len(job'[t].found) = Len(job[t].found),
         UNCHANGED <<mvars, detections, techniques>>
  PROVE  (\A d \in Triggers : Mapped(d)') /\ (\A p \in M!Hits : Spoken(p)') /\ Told'
  <1>1. UNCHANGED <<mcall, hits, announced>>
    BY DEF mvars
  <1>2. \A d \in Triggers : Mapped(d)'
    BY <1>1, MappedSame DEF Balanced
  <1>3. \A p \in M!Hits : Spoken(p)'
    BY <1>1, SpokenSame DEF Balanced
  <1>4. \A u \in Deliverers : Len(job'[u].found) = Len(job[u].found)
    BY ThreadsApart DEF Others
  <1>5. Told'
    BY <1>1, <1>4, ToldSame DEF Balanced
  <1> QED BY <1>2, <1>3, <1>5

LEMMA BalancedDeliver ==
  ASSUME Inv, NEW t \in Deliverers, NEW d \in Triggers, NEW i \in Ids, Deliver(t, d, i)
  PROVE  Balanced'
  <1>0. Typed /\ Incid /\ Copying /\ Balanced /\ t \in Threads
    BY ThreadsApart DEF Inv
  <1>1. Others(t) /\ status[i] = None /\ origin[i] = None
    BY IncidDeliver
  <1>2. /\ job[t].pc = "idle" /\ job[t].found = <<>>
        /\ job'[t] = [pc |-> "incidents", id |-> i, status |-> "Open", found |-> <<>>]
        /\ origin'[i] = d /\ \A j \in Ids \ {i} : origin'[j] = origin[j]
        /\ UNCHANGED <<mvars, copies, detections, techniques>>
    <2>1. job[t].pc = "idle" /\ job[t].found = <<>>
      BY <1>0 DEF Deliver, At, Incid, Agrees
    <2> QED BY <1>0, <2>1 DEF Deliver, Typed, avars
  <1>3. (\A e \in Triggers : Mapped(e)') /\ (\A p \in M!Hits : Spoken(p)') /\ Told'
    BY <1>0, <1>1, <1>2, OutsideMitre
  <1>4. ASSUME NEW e \in Triggers PROVE Made(e)' /\ Seen(e)'
    <2>1. PICK B, C, D, E, F, G :
            /\ B = Busy("incidents", e) /\ C = (Busy("incidents", e))'
            /\ D = CreatedFor(e) /\ E = (CreatedFor(e))'
            /\ F = Busy("detection", e) /\ G = (Busy("detection", e))'
      OBVIOUS
    <2>2. /\ Cardinality(B) \in Nat /\ Cardinality(C) \in Nat
          /\ Cardinality(C) + (IF t \in B THEN 1 ELSE 0) = Cardinality(B) + (IF t \in C THEN 1 ELSE 0)
      BY <1>0, <1>1, <2>1, BusyChange
    <2>3. t \notin B /\ (t \in C <=> e = d)
      BY <1>2, <2>1, BusyMember DEF DetectionOf
    <2>4. D \ {i} = E \ {i} /\ IsFiniteSet(D) /\ i \notin D /\ (i \in E <=> e = d)
      <3>1. D \in SUBSET Ids
        BY <2>1 DEF CreatedFor
      <3>2. IsFiniteSet(D)
        BY <3>1, Finitely, FS_Subset
      <3> QED BY <1>1, <1>2, <2>1, <3>2, NoneApart DEF CreatedFor
    <2>5. /\ Cardinality(D) \in Nat /\ Cardinality(E) \in Nat
          /\ Cardinality(E) + (IF i \in D THEN 1 ELSE 0) = Cardinality(D) + (IF i \in E THEN 1 ELSE 0)
      BY <2>4, OneOff
    <2>6. G = F
      BY <1>0, <1>1, <1>2, <2>1, BusySame
    <2>7. Recorded(e)' = Recorded(e) /\ Times(e)' = Times(e)
      BY <1>2 DEF Recorded, Times
    <2>8. Cardinality(Recorded(e)) \in Nat
      <3>1. Recorded(e) \in SUBSET Ids
        BY DEF Recorded
      <3> QED BY <3>1, Finitely, FS_Subset, FS_CardinalityType
    <2>9. Cardinality(Recorded(e)) + Cardinality(B) = Cardinality(D)
      BY <1>0, <2>1 DEF Balanced, Made
    <2>10. Cardinality(Recorded(e)) + Cardinality(C) = Cardinality(E)
      BY <2>2, <2>3, <2>4, <2>5, <2>8, <2>9
    <2>11. Made(e)'
      BY <2>1, <2>7, <2>10 DEF Made
    <2>12. Seen(e)'
      BY <1>0, <2>1, <2>6, <2>7 DEF Balanced, Seen
    <2> QED BY <2>11, <2>12
  <1> QED BY <1>3, <1>4 DEF Balanced

LEMMA BalancedMove ==
  ASSUME Inv, NEW t \in Analysts, NEW i \in Ids, NEW to \in I!Statuses, Move(t, i, to)
  PROVE  Balanced'
  <1>0. Typed /\ Balanced /\ t \in Threads /\ t \notin Deliverers
    BY ThreadsApart DEF Inv
  <1>1. Others(t) /\ UNCHANGED <<mvars, copies, detections, techniques, origin>>
    BY IncidMove DEF Move, avars
  <1>2. (\A d \in Triggers : Mapped(d)') /\ (\A p \in M!Hits : Spoken(p)') /\ Told'
    BY <1>0, <1>1, OutsideMitre
  <1>3. \A d \in Triggers : Made(d)' /\ Seen(d)'
    BY <1>0, <1>1, BooksSame DEF Balanced
  <1> QED BY <1>2, <1>3 DEF Balanced

LEMMA RecordedFinite ==
  ASSUME NEW d
  PROVE  IsFiniteSet(Recorded(d)) /\ Cardinality(Recorded(d)) \in Nat
  <1>1. Recorded(d) \in SUBSET Ids
    BY DEF Recorded
  <1> QED BY <1>1, Finitely, FS_Subset, FS_CardinalityType

LEMMA BalancedRecordIncident ==
  ASSUME Inv, NEW t \in Threads, RecordIncident(t)
  PROVE  Balanced'
  <1>0. Typed /\ Incid /\ Copying /\ Balanced /\ Agrees(t)
    BY DEF Inv, Incid
  <1>1. /\ job[t].pc = "incidents" /\ OwnCopy(t) \notin DOMAIN copies
        /\ DOMAIN copies' = DOMAIN copies \cup {OwnCopy(t)}
    BY <1>0, RecordIncidentAdds
  <1>2. PICK r : /\ Later(t, r) /\ job' = [job EXCEPT ![t] = r] /\ r.found = <<>>
                 /\ t \in Deliverers => r.pc = "detection"
    BY <1>0, RecordIncidentLater
  <1>3. /\ UNCHANGED <<mvars, detections, techniques, origin>>
        /\ job'[t] = r /\ Others(t) /\ job[t].found = <<>>
    <2>1. job[t].found = <<>>
      BY <1>0, <1>1 DEF Agrees, At
    <2>2. UNCHANGED <<mvars, detections, techniques, origin>>
      BY DEF RecordIncident, A!RecordIncident
    <2> QED BY <1>0, <1>2, <2>1, <2>2, JobStep
  <1>4. (\A e \in Triggers : Mapped(e)') /\ (\A p \in M!Hits : Spoken(p)') /\ Told'
    BY <1>0, <1>1, <1>2, <1>3, OutsideMitre
  <1>5. ASSUME NEW e \in Triggers, t \in Deliverers PROVE Made(e)' /\ Seen(e)'
    <2>1. PICK B, C, F, G, R, S, i :
            /\ B = Busy("incidents", e) /\ C = (Busy("incidents", e))'
            /\ F = Busy("detection", e) /\ G = (Busy("detection", e))'
            /\ R = Recorded(e) /\ S = Recorded(e)' /\ i = job[t].id
      OBVIOUS
    <2>2. i \in Ids /\ job[t].status = "Open" /\ OwnCopy(t) = A!Copy(i, "Open", DetectionOf(t))
      BY <1>0, <1>1, <1>5, <2>1 DEF Agrees, At, OwnCopy
    <2>3. DetectionOf(t)' = DetectionOf(t)
      <3>1. r.id = job[t].id
        BY <1>2, <1>5 DEF Later, Idle
      <3> QED BY <1>3, <3>1 DEF DetectionOf
    <2>4. /\ Cardinality(B) \in Nat /\ Cardinality(C) \in Nat
          /\ Cardinality(C) + (IF t \in B THEN 1 ELSE 0) = Cardinality(B) + (IF t \in C THEN 1 ELSE 0)
          /\ Cardinality(F) \in Nat /\ Cardinality(G) \in Nat
          /\ Cardinality(G) + (IF t \in F THEN 1 ELSE 0) = Cardinality(F) + (IF t \in G THEN 1 ELSE 0)
      BY <1>3, <2>1, BusyChange
    <2>5. /\ t \in B <=> e = DetectionOf(t)
          /\ t \notin C /\ t \notin F
          /\ t \in G <=> e = DetectionOf(t)
      BY <1>1, <1>2, <1>3, <1>5, <2>1, <2>3, BusyMember
    <2>6. /\ R \ {i} = S \ {i} /\ IsFiniteSet(R)
          /\ e = DetectionOf(t) => i \notin R /\ i \in S
          /\ e # DetectionOf(t) => R = S
      <3>1. \A j \in Ids : A!Copy(j, "Open", e) = OwnCopy(t) <=> j = i /\ e = DetectionOf(t)
        BY <2>2 DEF A!Copy
      <3>2. \A j \in Ids : j \in S <=> j \in R \/ (j = i /\ e = DetectionOf(t))
        BY <1>1, <2>1, <3>1 DEF Recorded
      <3>3. R \subseteq Ids /\ S \subseteq Ids
        BY <2>1 DEF Recorded
      <3>4. e = DetectionOf(t) => i \notin R
        BY <1>1, <2>1, <2>2 DEF Recorded
      <3> QED BY <2>1, <2>2, <3>2, <3>3, <3>4, RecordedFinite
    <2>7. /\ Cardinality(R) \in Nat /\ Cardinality(S) \in Nat
          /\ Cardinality(S) + (IF i \in R THEN 1 ELSE 0) = Cardinality(R) + (IF i \in S THEN 1 ELSE 0)
      BY <2>6, OneOff
    <2>8. CreatedFor(e)' = CreatedFor(e) /\ Times(e)' = Times(e)
      BY <1>3 DEF CreatedFor, Times
    <2>9. /\ Cardinality(R) + Cardinality(B) = Cardinality(CreatedFor(e))
          /\ Times(e) + Cardinality(F) = Cardinality(R)
      BY <1>0, <2>1 DEF Balanced, Made, Seen
    <2>10. Times(e) \in Nat
      BY <1>0 DEF Typed, IsBag, Times
    <2>11. /\ Cardinality(S) + Cardinality(C) = Cardinality(R) + Cardinality(B)
           /\ Times(e) + Cardinality(G) = Cardinality(S)
      <3>1. CASE e = DetectionOf(t)
        BY <2>4, <2>5, <2>6, <2>7, <2>9, <2>10, <3>1
      <3>2. CASE e # DetectionOf(t)
        BY <2>4, <2>5, <2>6, <2>7, <2>9, <2>10, <3>2
      <3> QED BY <3>1, <3>2
    <2> QED BY <2>1, <2>8, <2>9, <2>11 DEF Made, Seen
  <1>6. ASSUME NEW e \in Triggers, t \notin Deliverers PROVE Made(e)' /\ Seen(e)'
    <2>1. job[t].status # "Open"
      BY <1>0, <1>1, <1>6 DEF Agrees, At
    <2>2. \A j : A!Copy(j, "Open", e) # OwnCopy(t)
      BY <2>1 DEF A!Copy, OwnCopy
    <2>3. Recorded(e)' = Recorded(e)
      BY <1>1, <2>2 DEF Recorded
    <2>4. CreatedFor(e)' = CreatedFor(e) /\ Times(e)' = Times(e)
      BY <1>3 DEF CreatedFor, Times
    <2>5. (Busy("incidents", e))' = Busy("incidents", e) /\ (Busy("detection", e))' = Busy("detection", e)
      BY <1>3, <1>6, BusySame
    <2> QED BY <1>0, <2>3, <2>4, <2>5 DEF Balanced, Made, Seen
  <1> QED BY <1>4, <1>5, <1>6 DEF Balanced

(* A step of a thread outside the engines, which records nothing.          *)
LEMMA BalancedIdle ==
  ASSUME Inv, NEW t \in Threads, NEW r, job' = [job EXCEPT ![t] = r], r.found = <<>>, job[t].found = <<>>,
         t \in Analysts \/ (job[t].pc = "techniques" /\ r.pc = "idle"),
         UNCHANGED <<mvars, avars, origin>>
  PROVE  Balanced'
  <1>0. Typed /\ Balanced
    BY DEF Inv
  <1>1. Others(t) /\ job'[t] = r /\ UNCHANGED <<copies, detections, techniques>>
    BY <1>0, JobStep DEF avars
  <1>2. t \in Deliverers => job[t].pc = "techniques" /\ r.pc = "idle"
    BY ThreadsApart
  <1>3. (\A e \in Triggers : Mapped(e)') /\ (\A p \in M!Hits : Spoken(p)') /\ Told'
    BY <1>0, <1>1, <1>2, OutsideMitre
  <1>4. \A e \in Triggers : Made(e)' /\ Seen(e)'
    BY <1>0, <1>1, <1>2, BooksSame DEF Balanced
  <1> QED BY <1>3, <1>4 DEF Balanced

(* What RecordDetection does.                                              *)
LEMMA RecordDetectionAdds ==
  ASSUME Typed, Incid, NEW t \in Deliverers, RecordDetection(t)
  PROVE  /\ job[t].pc = "detection" /\ job[t].id \in Ids /\ DetectionOf(t) \in Triggers
         /\ job[t].found = <<>> /\ call[t].pc = "idle"
         /\ IsBag(detections', Triggers)
         /\ DOMAIN detections' = DOMAIN detections \cup {DetectionOf(t)}
         /\ \A e : /\ Times(e)' = Times(e) + (IF e = DetectionOf(t) THEN 1 ELSE 0)
                   /\ Times(e) \in Nat
         /\ \E r : /\ job' = [job EXCEPT ![t] = r] /\ r \in Jobs /\ Later(t, r)
                   /\ r.pc = "mitre" /\ r.id = job[t].id /\ r.found = <<>>
         /\ DetectionOf(t)' = DetectionOf(t)
         /\ UNCHANGED <<ivars, mvars, origin, copies, techniques>>
  <1>0. t \in Threads
    BY ThreadsApart
  <1>1. /\ job[t].pc = "detection" /\ job[t].id \in Ids /\ DetectionOf(t) \in Triggers
        /\ job[t].found = <<>> /\ call[t].pc = "idle" /\ job[t] \in Jobs
    BY <1>0 DEF RecordDetection, Typed, Incid, Agrees, At
  <1>2. PICK d : d = DetectionOf(t)
    OBVIOUS
  <1>3. detections' = detections (+) SetToBag({d}) /\ UNCHANGED <<copies, techniques>>
    BY <1>2 DEF RecordDetection, A!RecordDetection, A!(+), (+), A!SetToBag, SetToBag
  <1>4. IsBag(detections, Triggers) /\ d \in Triggers
    BY <1>1, <1>2 DEF Typed
  <1>5. IsBag(detections', Triggers) /\ DOMAIN detections' = DOMAIN detections \cup {d}
    <2> DEFINE D == detections (+) SetToBag({d})
    <2>1. IsBag(D, Triggers) /\ DOMAIN D = DOMAIN detections \cup {d}
      BY <1>4, BagAdd
    <2> HIDE DEF D
    <2>2. detections' = D
      BY <1>3 DEF D
    <2> QED BY <2>1, <2>2
  <1>6. ASSUME NEW e PROVE Times(e)' = Times(e) + (IF e = d THEN 1 ELSE 0) /\ Times(e) \in Nat
    <2>1. /\ Copies(e, detections (+) SetToBag({d})) = Copies(e, detections) + (IF e = d THEN 1 ELSE 0)
          /\ Copies(e, detections) \in Nat
      BY <1>4, BagCopies
    <2>2. Copies(e, detections') = Copies(e, detections) + (IF e = d THEN 1 ELSE 0)
      BY <1>3, <2>1
    <2> QED BY <2>1, <2>2 DEF Copies, Times
  <1>7. PICK r : r = [job[t] EXCEPT !.pc = "mitre"]
    OBVIOUS
  <1>8. job' = [job EXCEPT ![t] = r]
    BY <1>0, <1>7 DEF RecordDetection, Goto, Typed
  <1>9. /\ r.pc = "mitre" /\ r.id = job[t].id /\ r.status = job[t].status /\ r.found = <<>> /\ r \in Jobs
    BY <1>1, <1>7 DEF Jobs
  <1>10. Later(t, r)
    BY <1>1, <1>9 DEF Later
  <1>11. job'[t] = r
    BY <1>0, <1>8 DEF Typed
  <1>12. UNCHANGED <<ivars, mvars, origin>>
    BY DEF RecordDetection
  <1>13. DetectionOf(t)' = DetectionOf(t)
    BY <1>9, <1>11, <1>12 DEF DetectionOf
  <1> QED BY <1>1, <1>2, <1>3, <1>5, <1>6, <1>8, <1>9, <1>10, <1>12, <1>13

LEMMA BalancedRecordDetection ==
  ASSUME Inv, NEW t \in Deliverers, RecordDetection(t)
  PROVE  Balanced'
  <1>0. Typed /\ Incid /\ Mappings /\ Balanced /\ t \in Threads
    BY ThreadsApart DEF Inv
  <1>1. PICK d : d = DetectionOf(t)
    OBVIOUS
  <1>2. /\ job[t].pc = "detection" /\ job[t].found = <<>>
        /\ \A e : /\ Times(e)' = Times(e) + (IF e = d THEN 1 ELSE 0)
                  /\ Times(e) \in Nat
        /\ DetectionOf(t)' = d
        /\ UNCHANGED <<ivars, mvars, origin, copies, techniques>>
    BY <1>0, <1>1, RecordDetectionAdds
  <1>3. PICK r : job' = [job EXCEPT ![t] = r] /\ r.pc = "mitre" /\ r.found = <<>>
    BY <1>0, RecordDetectionAdds
  <1>4. job'[t] = r /\ Others(t) /\ UNCHANGED <<mcall, hits, announced>>
    BY <1>0, <1>2, <1>3, JobStep DEF mvars
  <1>5. mcall[t] = M!Calm
    BY <1>0, <1>2 DEF Mappings, Mapping, At
  <1>6. ASSUME NEW e \in Triggers PROVE Made(e)' /\ Seen(e)' /\ Mapped(e)'
    <2>1. PICK B, C, F, G :
            /\ B = Busy("mitre", e) /\ C = (Busy("mitre", e))'
            /\ F = Busy("detection", e) /\ G = (Busy("detection", e))'
      OBVIOUS
    <2>2. /\ Cardinality(B) \in Nat /\ Cardinality(C) \in Nat
          /\ Cardinality(C) + (IF t \in B THEN 1 ELSE 0) = Cardinality(B) + (IF t \in C THEN 1 ELSE 0)
          /\ Cardinality(F) \in Nat /\ Cardinality(G) \in Nat
          /\ Cardinality(G) + (IF t \in F THEN 1 ELSE 0) = Cardinality(F) + (IF t \in G THEN 1 ELSE 0)
          /\ B \in SUBSET Deliverers /\ C \in SUBSET Deliverers /\ B \ {t} = C \ {t}
      BY <1>0, <1>4, <2>1, BusyChange
    <2>3. /\ t \notin B /\ (t \in C <=> e = d)
          /\ (t \in F <=> e = d) /\ t \notin G
      BY <1>1, <1>2, <1>3, <1>4, <2>1, BusyMember
    <2>4. /\ Recorded(e)' = Recorded(e) /\ CreatedFor(e)' = CreatedFor(e)
          /\ (Busy("incidents", e))' = Busy("incidents", e)
      <3>1. (Busy("incidents", e))' = Busy("incidents", e)
        BY <1>0, <1>2, <1>3, <1>4, BusySame
      <3> QED BY <1>2, <3>1 DEF Recorded, CreatedFor
    <2>5. Made(e)'
      BY <1>0, <2>4 DEF Balanced, Made
    <2>6. PICK m, n, k : /\ m = Times(e) /\ n = Times(e)' /\ k = Cardinality(Recorded(e))
                         /\ m \in Nat /\ n = m + (IF e = d THEN 1 ELSE 0)
      BY <1>2
    <2>7. Seen(e)'
      <3>1. m + Cardinality(F) = k
        BY <1>0, <2>1, <2>6 DEF Balanced, Seen
      <3>2. n + Cardinality(G) = k
        BY <2>2, <2>3, <2>6, <3>1
      <3> QED BY <2>1, <2>4, <2>6, <3>2 DEF Seen
    <2>8. Sum(Found', C) = Sum(Found, B)
      <3>1. Found' = Found
        BY <1>4 DEF Found
      <3>2. Counts(Found, B) /\ Counts(Found, C) /\ Sum(Found, B) \in Nat /\ Sum(Found, C) \in Nat
        BY <1>0, <2>2, FoundCounts
      <3>3. Sum(Found, C) + (IF t \in B THEN Found[t] ELSE 0) = Sum(Found, B) + (IF t \in C THEN Found[t] ELSE 0)
        BY <2>2, <3>2, SumStep
      <3>4. Found[t] = 0
        BY <1>5, CalmFields DEF Found
      <3> QED BY <2>3, <3>1, <3>2, <3>3, <3>4
    <2>9. n - Cardinality(C) = m - Cardinality(B)
      BY <2>2, <2>3, <2>6
    <2>10. Sum(announced, {e} \X Techniques)
             = (m - Cardinality(B)) * Cardinality(Claims(e)) + Sum(Found, B)
      BY <1>0, <2>1, <2>6 DEF Balanced, Mapped
    <2>11. Sum(announced, {e} \X Techniques)
             = (n - Cardinality(C)) * Cardinality(Claims(e)) + Sum(Found, B)
      BY <2>9, <2>10
    <2>12. Mapped(e)'
      BY <1>4, <2>1, <2>6, <2>8, <2>11 DEF Mapped
    <2> QED BY <2>5, <2>7, <2>12
  <1>7. \A p \in M!Hits : Spoken(p)'
    BY <1>0, <1>4, SpokenSame DEF Balanced
  <1>8. Told'
    <2>1. \A u \in Deliverers : Len(job'[u].found) = Len(job[u].found)
      BY <1>2, <1>3, <1>4, ThreadsApart DEF Others
    <2> QED BY <1>0, <1>2, <1>4, <2>1, ToldSame DEF Balanced
  <1> QED BY <1>6, <1>7, <1>8 DEF Balanced

(* What RecordTechnique does.                                              *)
LEMMA RecordTechniqueAdds ==
  ASSUME Typed, Incid, NEW t \in Deliverers, RecordTechnique(t)
  PROVE  /\ job[t].pc = "techniques" /\ call[t].pc = "idle"
         /\ IsBag(techniques', Techniques) /\ DOMAIN techniques \subseteq DOMAIN techniques'
         /\ Sum(techniques', DOMAIN techniques') = Sum(techniques, DOMAIN techniques) + 1
         /\ Sum(techniques, DOMAIN techniques) \in Nat
         /\ \E r : /\ job' = [job EXCEPT ![t] = r] /\ r \in Jobs /\ Later(t, r)
                   /\ r.pc = "techniques" /\ Len(r.found) + 1 = Len(job[t].found)
         /\ UNCHANGED <<ivars, mvars, origin, copies, detections>>
  <1>0. t \in Threads
    BY ThreadsApart
  <1>1. PICK q : q = Head(job[t].found)
    OBVIOUS
  <1>2. /\ job[t].pc = "techniques" /\ call[t].pc = "idle" /\ job[t] \in Jobs
        /\ job[t].found # <<>> /\ job[t].found \in Seq(Techniques)
    BY <1>0 DEF RecordTechnique, Typed, Incid, Agrees, At, Jobs
  <1>3. techniques' = techniques (+) SetToBag({q}) /\ UNCHANGED <<copies, detections>>
    BY <1>1 DEF RecordTechnique, A!RecordTechnique, A!(+), (+), A!SetToBag, SetToBag
  <1>4. IsBag(techniques, Techniques) /\ q \in Techniques
    BY <1>1, <1>2, HeadTail DEF Typed
  <1> DEFINE D == techniques (+) SetToBag({q})
  <1>5. IsBag(D, Techniques) /\ DOMAIN D = DOMAIN techniques \cup {q}
    BY <1>4, BagAdd
  <1>6. /\ Sum(D, DOMAIN D) = Sum(techniques, DOMAIN techniques) + 1
        /\ Sum(techniques, DOMAIN techniques) \in Nat
    BY <1>4, HitsFinite, BagSum
  <1> HIDE DEF D
  <1>7. techniques' = D
    BY <1>3 DEF D
  <1>8. PICK r : r = [job[t] EXCEPT !.found = Tail(@)]
    OBVIOUS
  <1>9. job' = [job EXCEPT ![t] = r]
    BY <1>0, <1>8 DEF RecordTechnique, Typed
  <1>10. Tail(job[t].found) \in Seq(Techniques) /\ Len(Tail(job[t].found)) + 1 = Len(job[t].found)
    BY <1>2, HeadTail
  <1>11. /\ r.pc = "techniques" /\ r.id = job[t].id /\ r.status = job[t].status
         /\ r.found = Tail(job[t].found) /\ r \in Jobs
    BY <1>2, <1>8, <1>10 DEF Jobs
  <1>12. Later(t, r)
    BY <1>2, <1>11 DEF Later
  <1>13. UNCHANGED <<ivars, mvars, origin>>
    BY DEF RecordTechnique
  <1>14. \E x : /\ job' = [job EXCEPT ![t] = x] /\ x \in Jobs /\ Later(t, x)
                /\ x.pc = "techniques" /\ Len(x.found) + 1 = Len(job[t].found)
    BY <1>9, <1>10, <1>11, <1>12
  <1> QED BY <1>2, <1>3, <1>5, <1>6, <1>7, <1>13, <1>14

(* The sum of what deliverers hold, when one of them holds another number. *)
LEMMA HeldStep ==
  ASSUME Typed, Typed', NEW t \in Deliverers, Others(t), OthersCall(t)
  PROVE  /\ Sum(Held', Deliverers) + Held[t] = Sum(Held, Deliverers) + Held'[t]
         /\ Sum(Held', Deliverers) \in Nat /\ Sum(Held, Deliverers) \in Nat
         /\ Held[t] \in Nat /\ Held'[t] \in Nat
         /\ Held[t] = Len(job[t].found) + Len(mcall[t].found)
         /\ Held'[t] = Len(job'[t].found) + Len(mcall'[t].found)
         /\ Len(job[t].found) \in Nat /\ Len(mcall[t].found) \in Nat
         /\ Len(job'[t].found) \in Nat /\ Len(mcall'[t].found) \in Nat
  <1>1. /\ Counts(Held, Deliverers) /\ Sum(Held, Deliverers) \in Nat
        /\ \A u \in Deliverers : /\ Held[u] = Len(job[u].found) + Len(mcall[u].found)
                                 /\ Held[u] \in Nat
                                 /\ Len(job[u].found) \in Nat /\ Len(mcall[u].found) \in Nat
    BY HeldCounts
  <1>2. /\ Counts(Held', Deliverers) /\ Sum(Held', Deliverers) \in Nat
        /\ \A u \in Deliverers : /\ Held'[u] = Len(job'[u].found) + Len(mcall'[u].found)
                                 /\ Held'[u] \in Nat
                                 /\ Len(job'[u].found) \in Nat /\ Len(mcall'[u].found) \in Nat
    <2>1. \A u \in Deliverers : job'[u].found \in Seq(Techniques) /\ mcall'[u].found \in Seq(Techniques)
      BY ThreadsApart DEF Typed, Jobs, MCalls
    <2>2. Held' = [v \in Deliverers |-> Len(job'[v].found) + [u \in Deliverers |-> Len(mcall'[u].found)][v]]
      BY DEF Held, Found
    <2> QED BY <2>1, <2>2, HeldIs
  <1>3. \A u \in Deliverers \ {t} : Held'[u] = Held[u]
    BY <1>1, <1>2, ThreadsApart DEF Others, OthersCall
  <1>4. PICK f, g : f = Held /\ g = Held'
    OBVIOUS
  <1>5. Sum(g, Deliverers) + (IF t \in Deliverers THEN f[t] ELSE 0)
          = Sum(f, Deliverers) + (IF t \in Deliverers THEN g[t] ELSE 0)
    BY <1>1, <1>2, <1>3, <1>4, SumStep
  <1> QED BY <1>1, <1>2, <1>4, <1>5

LEMMA BalancedRecordTechnique ==
  ASSUME Inv, Typed', NEW t \in Deliverers, RecordTechnique(t)
  PROVE  Balanced'
  <1>0. Typed /\ Incid /\ Mappings /\ Balanced /\ t \in Threads
    BY ThreadsApart DEF Inv
  <1>1. /\ job[t].pc = "techniques"
        /\ Sum(techniques', DOMAIN techniques') = Sum(techniques, DOMAIN techniques) + 1
        /\ Sum(techniques, DOMAIN techniques) \in Nat
        /\ UNCHANGED <<mcall, hits, announced, origin, copies, detections>>
    BY <1>0, RecordTechniqueAdds DEF mvars
  <1>2. PICK r : /\ job' = [job EXCEPT ![t] = r]
                 /\ r.pc = "techniques" /\ Len(r.found) + 1 = Len(job[t].found)
    BY <1>0, RecordTechniqueAdds
  <1>3. job'[t] = r /\ Others(t) /\ OthersCall(t)
    BY <1>0, <1>1, <1>2, JobStep DEF OthersCall
  <1>4. \A e \in Triggers : Mapped(e)'
    BY <1>0, <1>1, <1>2, <1>3, MappedSame DEF Balanced
  <1>5. \A e \in Triggers : Made(e)' /\ Seen(e)'
    BY <1>0, <1>1, <1>2, <1>3, BooksSame DEF Balanced
  <1>6. \A p \in M!Hits : Spoken(p)'
    BY <1>0, <1>1, SpokenSame DEF Balanced
  <1>7. Told'
    <2>1. PICK a, b, x, y, m, n :
            /\ a = Sum(techniques, DOMAIN techniques) /\ b = Sum(techniques', DOMAIN techniques')
            /\ x = Sum(Held, Deliverers) /\ y = Sum(Held', Deliverers)
            /\ m = Held[t] /\ n = Held'[t]
      OBVIOUS
    <2>2. y + m = x + n /\ y \in Nat /\ x \in Nat /\ m \in Nat /\ n \in Nat
      BY <1>0, <1>3, <2>1, HeldStep
    <2>3. n + 1 = m
      <3>1. PICK i \in Nat, j \in Nat, k \in Nat :
              i = Len(job[t].found) /\ j = Len(mcall[t].found) /\ k = Len(job'[t].found)
        BY <1>0, <1>3, HeldStep
      <3>2. m = i + j /\ n = k + j /\ k + 1 = i
        BY <1>0, <1>1, <1>2, <1>3, <2>1, <3>1, HeldStep
      <3> QED BY <3>2
    <2>4. a + x = Sum(announced, M!Hits)
      BY <1>0, <2>1 DEF Balanced, Told
    <2>5. b + y = Sum(announced, M!Hits)
      BY <1>1, <2>1, <2>2, <2>3, <2>4
    <2> QED BY <1>1, <2>1, <2>5, HitsFinite DEF Told, M!Hits
  <1> QED BY <1>4, <1>5, <1>6, <1>7 DEF Balanced

(* A step that touches no book.                                            *)
LEMMA BalancedSame ==
  ASSUME Balanced, UNCHANGED <<job, origin, copies, detections, techniques, hits, announced, mcall>>
  PROVE  Balanced'
  <1>1. \A e \in Triggers : Mapped(e)'
    BY MappedCall DEF Balanced
  <1>2. \A e \in Triggers : Made(e)' /\ Seen(e)'
    BY BooksKept DEF Balanced
  <1>3. \A p \in M!Hits : Spoken(p)'
    BY SpokenSame DEF Balanced
  <1>4. Told'
    <2>1. Held' = Held
      BY DEF Held, Found
    <2> QED BY <2>1 DEF Balanced, Told
  <1> QED BY <1>1, <1>2, <1>3, <1>4 DEF Balanced

(* A step of a call that announces nothing and speaks of nothing.          *)
LEMMA BalancedCall ==
  ASSUME Typed, Balanced, UNCHANGED <<job, origin, copies, detections, techniques, announced>>,
         \A u \in Deliverers : mcall'[u].found = mcall[u].found,
         \A p \in M!Hits : Spoken(p)'
  PROVE  Balanced'
  <1>1. \A e \in Triggers : Mapped(e)'
    BY MappedCall DEF Balanced
  <1>2. \A e \in Triggers : Made(e)' /\ Seen(e)'
    BY BooksKept DEF Balanced
  <1>3. Told'
    BY ToldSame DEF Balanced
  <1> QED BY <1>1, <1>2, <1>3 DEF Balanced

LEMMA BalancedCallMitre ==
  ASSUME Inv, NEW t \in Deliverers, CallMitre(t)
  PROVE  Balanced'
  <1>0. Typed /\ Balanced
    BY DEF Inv
  <1>1. /\ OthersCall(t) /\ mcall[t].found = <<>> /\ mcall'[t].found = <<>>
        /\ ~mcall[t].emit /\ ~mcall'[t].emit
    <2>1. PICK d : mcall'[t] = [trigger |-> d, todo |-> Claimed[d], emit |-> FALSE, found |-> <<>>]
      BY MappingCallMitre
    <2>2. mcall[t] = M!Calm /\ OthersCall(t)
      BY MappingCallMitre
    <2> QED BY <2>1, <2>2, CalmFields
  <1>2. UNCHANGED <<job, origin, copies, detections, techniques, hits, announced>>
    BY DEF CallMitre, M!Trigger, avars
  <1>3. \A u \in Deliverers : /\ mcall'[u].found = mcall[u].found
                              /\ mcall'[u].emit <=> mcall[u].emit
                              /\ mcall[u].emit => mcall'[u] = mcall[u]
    BY <1>1 DEF OthersCall
  <1>4. \A p \in M!Hits : Spoken(p)'
    BY <1>0, <1>2, <1>3, SpokenSame DEF Balanced
  <1> QED BY <1>0, <1>2, <1>3, <1>4, BalancedCall

LEMMA BalancedSkip ==
  ASSUME Inv, NEW t \in Deliverers, M!Skip(t), UNCHANGED <<job, origin, avars>>
  PROVE  Balanced'
  <1>0. Typed /\ Balanced
    BY DEF Inv
  <1>1. OthersCall(t) /\ mcall'[t].found = mcall[t].found /\ ~mcall[t].emit /\ ~mcall'[t].emit
    BY MappingSkip
  <1>2. UNCHANGED <<copies, detections, techniques, hits, announced>>
    BY DEF M!Skip, avars
  <1>3. \A u \in Deliverers : /\ mcall'[u].found = mcall[u].found
                              /\ mcall'[u].emit <=> mcall[u].emit
                              /\ mcall[u].emit => mcall'[u] = mcall[u]
    BY <1>1 DEF OthersCall
  <1>4. \A p \in M!Hits : Spoken(p)'
    BY <1>0, <1>2, <1>3, SpokenSame DEF Balanced
  <1> QED BY <1>0, <1>2, <1>3, <1>4, BalancedCall

(* Who is about to announce what, when one call moves.                     *)
LEMMA EmittingChange ==
  ASSUME NEW t \in Deliverers, OthersCall(t), NEW p
  PROVE  /\ Cardinality(Emitting(p)) \in Nat /\ Cardinality((Emitting(p))') \in Nat
         /\ Cardinality((Emitting(p))') + (IF t \in Emitting(p) THEN 1 ELSE 0)
              = Cardinality(Emitting(p)) + (IF t \in (Emitting(p))' THEN 1 ELSE 0)
         /\ t \in Emitting(p) <=> mcall[t].emit /\ p = M!Claim(t)
         /\ t \in (Emitting(p))' <=> mcall'[t].emit /\ p = <<mcall'[t].trigger, Head(mcall'[t].todo)>>
  <1>1. Emitting(p) \in SUBSET Deliverers /\ (Emitting(p))' \in SUBSET Deliverers
    BY DEF Emitting
  <1>2. (Emitting(p))' \ {t} = Emitting(p) \ {t}
    BY DEF OthersCall, Emitting, M!Claim
  <1>3. IsFiniteSet(Emitting(p))
    BY <1>1, Finitely, FS_Subset
  <1>4. PICK B, C : B = Emitting(p) /\ C = (Emitting(p))'
    OBVIOUS
  <1>5. /\ Cardinality(B) \in Nat /\ Cardinality(C) \in Nat
        /\ Cardinality(C) + (IF t \in B THEN 1 ELSE 0) = Cardinality(B) + (IF t \in C THEN 1 ELSE 0)
    BY <1>2, <1>3, <1>4, OneOff
  <1>6. /\ t \in Emitting(p) <=> mcall[t].emit /\ p = M!Claim(t)
        /\ t \in (Emitting(p))' <=> mcall'[t].emit /\ p = <<mcall'[t].trigger, Head(mcall'[t].todo)>>
    BY DEF Emitting, M!Claim
  <1> QED BY <1>4, <1>5, <1>6

LEMMA BalancedHit ==
  ASSUME Inv, NEW t \in Deliverers, M!Hit(t), UNCHANGED <<job, origin, avars>>
  PROVE  Balanced'
  <1>0. Typed /\ Balanced
    BY DEF Inv
  <1>1. PICK q : q = M!Claim(t)
    OBVIOUS
  <1>2. /\ OthersCall(t) /\ mcall'[t].found = mcall[t].found /\ ~mcall[t].emit /\ mcall'[t].emit
        /\ q = <<mcall'[t].trigger, Head(mcall'[t].todo)>>
        /\ q \in M!Hits /\ hits' = [hits EXCEPT ![q] = @ + 1]
    BY <1>1, MappingHit DEF M!Claim
  <1>3. UNCHANGED <<copies, detections, techniques, announced>>
    BY DEF M!Hit, avars
  <1>4. \A u \in Deliverers : mcall'[u].found = mcall[u].found
    BY <1>2 DEF OthersCall
  <1>5. ASSUME NEW p \in M!Hits PROVE Spoken(p)'
    <2>1. /\ Cardinality(Emitting(p)) \in Nat
          /\ Cardinality((Emitting(p))') = Cardinality(Emitting(p)) + (IF p = q THEN 1 ELSE 0)
      BY <1>2, EmittingChange
    <2>2. hits'[p] = hits[p] + (IF p = q THEN 1 ELSE 0) /\ hits[p] \in Nat /\ announced[p] \in Nat
      <3>1. hits \in [M!Hits -> Nat] /\ announced \in [M!Hits -> Nat]
        BY <1>0 DEF Typed
      <3> QED BY <1>2, <3>1
    <2>3. hits[p] = announced[p] + Cardinality(Emitting(p))
      BY <1>0 DEF Balanced, Spoken
    <2>4. hits'[p] = announced[p] + Cardinality((Emitting(p))')
      BY <2>1, <2>2, <2>3
    <2> QED BY <1>3, <2>4 DEF Spoken
  <1> QED BY <1>0, <1>3, <1>4, <1>5, BalancedCall

LEMMA BalancedAnnounce ==
  ASSUME Inv, Typed', NEW t \in Deliverers, M!Announce(t), UNCHANGED <<job, origin, avars>>
  PROVE  Balanced'
  <1>0. Typed /\ Balanced /\ t \in Threads
    BY ThreadsApart DEF Inv
  <1>1. PICK q, d : q = M!Claim(t) /\ d = DetectionOf(t)
    OBVIOUS
  <1>2. /\ OthersCall(t) /\ mcall[t].emit /\ ~mcall'[t].emit /\ job[t].pc = "mitre"
        /\ mcall[t].found \in Seq(Techniques) /\ Len(mcall'[t].found) = Len(mcall[t].found) + 1
        /\ d \in Triggers /\ q \in {d} \X Techniques /\ q \in M!Hits
        /\ announced' = [announced EXCEPT ![q] = @ + 1]
    BY <1>1, MappingAnnounce
  <1>3. UNCHANGED <<copies, detections, techniques, hits>> /\ Others(t)
    BY OthersSame DEF M!Announce, avars
  <1>4. announced \in [M!Hits -> Nat] /\ announced' \in [M!Hits -> Nat] /\ hits \in [M!Hits -> Nat]
    BY <1>0 DEF Typed
  <1>5. announced'[q] = announced[q] + 1 /\ \A p \in M!Hits \ {q} : announced'[p] = announced[p]
    BY <1>2, <1>4
  <1>6. ASSUME NEW S \in SUBSET M!Hits
        PROVE  /\ Sum(announced', S) = Sum(announced, S) + (IF q \in S THEN 1 ELSE 0)
               /\ Sum(announced, S) \in Nat
    <2>1. PICK f, g : f = announced /\ g = announced'
      OBVIOUS
    <2>2. Counts(f, S) /\ Counts(g, S)
      BY <1>4, <2>1, HitsFinite, FS_Subset DEF Counts
    <2>3. \A p \in S \ {q} : g[p] = f[p]
      BY <1>5, <2>1
    <2>4. Sum(g, S) + (IF q \in S THEN f[q] ELSE 0) = Sum(f, S) + (IF q \in S THEN g[q] ELSE 0)
      BY <2>2, <2>3, SumStep
    <2>5. Sum(g, S) \in Nat /\ Sum(f, S) \in Nat
      BY <2>2, SumNat
    <2>6. f[q] \in Nat /\ g[q] = f[q] + 1
      BY <1>2, <1>4, <1>5, <2>1
    <2>7. Sum(g, S) = Sum(f, S) + (IF q \in S THEN 1 ELSE 0)
      BY <2>4, <2>5, <2>6
    <2> QED BY <2>1, <2>5, <2>7
  <1>7. \A e \in Triggers : Made(e)' /\ Seen(e)'
    BY <1>0, <1>3, BooksKept DEF Balanced
  <1>8. ASSUME NEW e \in Triggers PROVE Mapped(e)'
    <2>1. PICK B : B = Busy("mitre", e)
      OBVIOUS
    <2>2. (Busy("mitre", e))' = B
      BY <2>1 DEF Busy, At, DetectionOf
    <2>3. B \in SUBSET Deliverers /\ (t \in B <=> e = d)
      <3>1. B \in SUBSET Deliverers
        BY <2>1 DEF Busy
      <3>2. t \in B <=> e = d
        BY <1>1, <1>2, <2>1, BusyMember
      <3> QED BY <3>1, <3>2
    <2>4. PICK f, g : f = Found /\ g = Found'
      OBVIOUS
    <2>5. /\ \A u \in Deliverers : f[u] = Len(mcall[u].found) /\ f[u] \in Nat
          /\ g[t] = f[t] + 1 /\ \A u \in Deliverers \ {t} : g[u] = f[u]
      <3>1. \A u \in Deliverers : f[u] = Len(mcall[u].found) /\ f[u] \in Nat
        BY <1>0, <2>4, FoundCounts
      <3>2. \A u \in Deliverers : g[u] = Len(mcall'[u].found)
        BY <2>4 DEF Found
      <3> QED BY <1>2, <3>1, <3>2 DEF OthersCall
    <2>6. Counts(f, B) /\ Counts(g, B)
      <3>1. IsFiniteSet(B)
        BY <2>3, Finitely, FS_Subset
      <3>2. \A u \in B : g[u] \in Nat
        BY <2>3, <2>5
      <3> QED BY <2>3, <2>5, <3>1, <3>2 DEF Counts
    <2>7. Sum(g, B) + (IF t \in B THEN f[t] ELSE 0) = Sum(f, B) + (IF t \in B THEN g[t] ELSE 0)
      <3>1. \A u \in B \ {t} : g[u] = f[u]
        BY <2>3, <2>5
      <3> QED BY <2>6, <3>1, SumStep
    <2>8. Sum(f, B) \in Nat /\ Sum(g, B) \in Nat
      BY <2>6, SumNat
    <2>9. Sum(g, B) = Sum(f, B) + (IF e = d THEN 1 ELSE 0)
      BY <2>3, <2>5, <2>7, <2>8
    <2>10. {e} \X Techniques \in SUBSET M!Hits /\ (q \in {e} \X Techniques <=> e = d)
      BY <1>2, HitsFinite
    <2>11. PICK S : S = {e} \X Techniques
      OBVIOUS
    <2>12. /\ Sum(announced', S) = Sum(announced, S) + (IF e = d THEN 1 ELSE 0)
           /\ Sum(announced, S) \in Nat
      BY <1>6, <2>10, <2>11
    <2>13. PICK k : k = (Times(e) - Cardinality(B)) * Cardinality(Claims(e))
      OBVIOUS
    <2>14. Sum(announced, S) = k + Sum(f, B)
      BY <1>0, <2>1, <2>4, <2>11, <2>13 DEF Balanced, Mapped
    <2>15. k \in Int
      <3>1. Times(e) \in Int
        BY <1>0 DEF Times, Typed, IsBag
      <3>2. Cardinality(B) \in Int
        BY <2>3, Finitely, FS_Subset, FS_CardinalityType
      <3>3. Cardinality(Claims(e)) \in Int
        <4>1. Claims(e) = Places(Claimed[e], Techniques)
          BY DEF Claims, Places
        <4> QED BY <4>1, ClaimedTyped, PlacesFinite
      <3>4. PICK x \in Int, y \in Int, z \in Int :
              x = Times(e) /\ y = Cardinality(B) /\ z = Cardinality(Claims(e))
        BY <3>1, <3>2, <3>3
      <3>5. (x - y) * z \in Int
        BY <3>4
      <3> QED BY <2>13, <3>4, <3>5
    <2>16. Sum(announced', S) = k + Sum(g, B)
      BY <2>8, <2>9, <2>12, <2>14, <2>15
    <2>17. Times(e)' = Times(e)
      BY <1>3 DEF Times
    <2> QED BY <2>2, <2>4, <2>11, <2>13, <2>16, <2>17 DEF Mapped
  <1>9. ASSUME NEW p \in M!Hits PROVE Spoken(p)'
    <2>1. /\ Cardinality(Emitting(p)) \in Nat /\ Cardinality((Emitting(p))') \in Nat
          /\ Cardinality((Emitting(p))') + (IF p = q THEN 1 ELSE 0) = Cardinality(Emitting(p))
      <3>1. PICK B, C : B = Emitting(p) /\ C = (Emitting(p))'
        OBVIOUS
      <3>2. /\ Cardinality(B) \in Nat /\ Cardinality(C) \in Nat
            /\ Cardinality(C) + (IF t \in B THEN 1 ELSE 0) = Cardinality(B) + (IF t \in C THEN 1 ELSE 0)
            /\ t \in B <=> mcall[t].emit /\ p = M!Claim(t)
            /\ t \in C => mcall'[t].emit
        BY <1>2, <3>1, EmittingChange
      <3>3. t \notin C /\ (t \in B <=> p = q)
        BY <1>1, <1>2, <3>2
      <3> QED BY <3>1, <3>2, <3>3
    <2>2. announced'[p] = announced[p] + (IF p = q THEN 1 ELSE 0) /\ hits[p] \in Nat /\ announced[p] \in Nat
      BY <1>2, <1>4, <1>5
    <2>3. hits[p] = announced[p] + Cardinality(Emitting(p))
      BY <1>0 DEF Balanced, Spoken
    <2>4. hits[p] = announced'[p] + Cardinality((Emitting(p))')
      BY <2>1, <2>2, <2>3
    <2> QED BY <1>3, <2>4 DEF Spoken
  <1>10. Told'
    <2>1. PICK a, x, y, m, n, v, w :
            /\ a = Sum(techniques, DOMAIN techniques)
            /\ x = Sum(Held, Deliverers) /\ y = Sum(Held', Deliverers)
            /\ m = Held[t] /\ n = Held'[t]
            /\ v = Sum(announced, M!Hits) /\ w = Sum(announced', M!Hits)
      OBVIOUS
    <2>2. y + m = x + n /\ y \in Nat /\ x \in Nat /\ m \in Nat /\ n \in Nat
      BY <1>0, <1>2, <1>3, <2>1, HeldStep
    <2>3. n = m + 1
      <3>1. PICK i \in Nat, j \in Nat, k \in Nat :
              i = Len(job[t].found) /\ j = Len(mcall[t].found) /\ k = Len(mcall'[t].found)
        BY <1>0, <1>2, <1>3, HeldStep
      <3>2. m = i + j /\ n = Len(job'[t].found) + k
        BY <1>0, <1>2, <1>3, <2>1, <3>1, HeldStep
      <3>3. n = i + k /\ k = j + 1
        BY <1>2, <3>1, <3>2
      <3>4. m = i + j
        BY <3>2
      <3> QED BY <3>3, <3>4, OneMoreIn
    <2>4. w = v + 1 /\ v \in Nat
      BY <1>2, <1>6, <2>1
    <2>5. a + x = v
      BY <1>0, <2>1 DEF Balanced, Told
    <2>6. a \in Nat
      <3>1. Counts(techniques, DOMAIN techniques)
        BY <1>0, HitsFinite, FS_Subset DEF Typed, IsBag, Counts
      <3> QED BY <2>1, <3>1, SumNat
    <2>7. a + y = w
      BY <2>2, <2>3, <2>4, <2>5, <2>6
    <2> QED BY <1>3, <2>1, <2>7 DEF Told, M!Hits
  <1> QED BY <1>7, <1>8, <1>9, <1>10 DEF Balanced

(* What TakeTechniques does.                                               *)
LEMMA TakeTechniquesDoes ==
  ASSUME Inv, NEW t \in Deliverers, TakeTechniques(t)
  PROVE  /\ job[t].pc = "mitre" /\ job[t].found = <<>> /\ call[t].pc = "idle"
         /\ mcall[t].found \in Seq(Techniques) /\ ~mcall[t].emit
         /\ DetectionOf(t) \in Triggers /\ Len(mcall[t].found) = Cardinality(Claims(DetectionOf(t)))
         /\ mcall'[t] = M!Calm /\ OthersCall(t) /\ mcall' \in [Deliverers -> MCalls]
         /\ \E r : /\ job' = [job EXCEPT ![t] = r] /\ r \in Jobs /\ Later(t, r)
                   /\ r.pc = "techniques" /\ r.found = mcall[t].found
         /\ UNCHANGED <<ivars, avars, origin, mappings, hits, announced>>
  <1>0. Typed /\ Incid /\ t \in Threads
    BY ThreadsApart DEF Inv
  <1>1. /\ mcall[t].trigger # None /\ mcall[t].todo = <<>> /\ mcall' = [mcall EXCEPT ![t] = M!Calm]
        /\ UNCHANGED <<ivars, avars, origin, mappings, hits, announced>>
    BY DEF TakeTechniques, M!Return
  <1>2. /\ job[t].pc = "mitre" /\ mcall[t].trigger \in Triggers /\ mcall[t].trigger = DetectionOf(t)
        /\ mcall[t].found \in Seq(Techniques)
        /\ Len(mcall[t].found) + Cardinality(Places(mcall[t].todo, Techniques))
             = Cardinality(Claims(DetectionOf(t)))
    BY <1>1, Calling
  <1>3. Cardinality(Places(mcall[t].todo, Techniques)) = 0
    <2>1. Places(<<>>, Techniques) = {}
      BY DEF Places
    <2> QED BY <1>1, <2>1, FS_EmptySet
  <1>4. Len(mcall[t].found) = Cardinality(Claims(DetectionOf(t)))
    <2>1. Len(mcall[t].found) \in Nat
      BY <1>2
    <2> QED BY <1>2, <1>3, <2>1
  <1>5. ~mcall[t].emit
    BY <1>1 DEF Inv, Mappings, Mapping
  <1>6. job[t].found = <<>> /\ call[t].pc = "idle" /\ job[t] \in Jobs
    BY <1>0, <1>2 DEF Incid, Agrees, At, Typed
  <1>7. PICK r : r = [job[t] EXCEPT !.pc = "techniques", !.found = mcall[t].found]
    OBVIOUS
  <1>8. job' = [job EXCEPT ![t] = r]
    BY <1>0, <1>7 DEF TakeTechniques, Typed
  <1>9. /\ r.pc = "techniques" /\ r.id = job[t].id /\ r.status = job[t].status
        /\ r.found = mcall[t].found /\ r \in Jobs
    BY <1>2, <1>6, <1>7 DEF Jobs
  <1>10. Later(t, r)
    BY <1>2, <1>9 DEF Later
  <1>11. mcall'[t] = M!Calm /\ OthersCall(t)
    BY <1>0, <1>1 DEF Typed, OthersCall
  <1>12. mcall' \in [Deliverers -> MCalls]
    <2>1. M!Calm \in MCalls
      BY DEF M!Calm, MCalls
    <2> QED BY <1>0, <1>1, <2>1 DEF Typed
  <1>13. \E x : /\ job' = [job EXCEPT ![t] = x] /\ x \in Jobs /\ Later(t, x)
                /\ x.pc = "techniques" /\ x.found = mcall[t].found
    BY <1>8, <1>9, <1>10
  <1> QED BY <1>1, <1>2, <1>4, <1>5, <1>6, <1>11, <1>12, <1>13

LEMMA OneMoreOf ==
  ASSUME NEW a \in Int, NEW b \in Int, NEW k \in Int, NEW f \in Int
  PROVE  (a - b) * k + (f + k) = (a - (b - 1)) * k + f
  OBVIOUS

LEMMA BalancedTake ==
  ASSUME Inv, Typed', NEW t \in Deliverers, TakeTechniques(t)
  PROVE  Balanced'
  <1>0. Typed /\ Balanced /\ t \in Threads
    BY ThreadsApart DEF Inv
  <1>1. PICK d : d = DetectionOf(t)
    OBVIOUS
  <1>2. /\ job[t].pc = "mitre" /\ job[t].found = <<>>
        /\ mcall[t].found \in Seq(Techniques) /\ ~mcall[t].emit
        /\ d \in Triggers /\ Len(mcall[t].found) = Cardinality(Claims(d))
        /\ mcall'[t] = M!Calm /\ OthersCall(t)
        /\ UNCHANGED <<copies, detections, techniques, origin, hits, announced>>
    BY <1>1, TakeTechniquesDoes DEF avars
  <1>3. PICK r : job' = [job EXCEPT ![t] = r] /\ r.pc = "techniques" /\ r.found = mcall[t].found
    BY TakeTechniquesDoes
  <1>4. job'[t] = r /\ Others(t)
    BY <1>0, <1>2, <1>3, JobStep
  <1>5. mcall'[t].found = <<>> /\ ~mcall'[t].emit
    BY <1>2, CalmFields
  <1>6. \A e \in Triggers : Made(e)' /\ Seen(e)'
    BY <1>0, <1>2, <1>3, <1>4, BooksSame DEF Balanced
  <1>7. \A p \in M!Hits : Spoken(p)'
    <2>1. \A u \in Deliverers : /\ mcall'[u].emit <=> mcall[u].emit
                                /\ mcall[u].emit => mcall'[u] = mcall[u]
      BY <1>2, <1>5 DEF OthersCall
    <2> QED BY <1>0, <1>2, <2>1, SpokenSame DEF Balanced
  <1>8. Told'
    <2>1. \A u \in Deliverers \ {t} : job'[u] = job[u] /\ mcall'[u] = mcall[u]
      BY <1>2, <1>4, ThreadsApart DEF Others, OthersCall
    <2>2. Len(job'[t].found) + Len(mcall'[t].found) = Len(job[t].found) + Len(mcall[t].found)
      <3>1. Len(mcall[t].found) \in Nat /\ Len(<<>>) = 0
        BY <1>2
      <3>2. job'[t].found = mcall[t].found
        BY <1>3, <1>4
      <3> QED BY <1>2, <1>5, <3>1, <3>2
    <2>3. \A u \in Deliverers : Len(job'[u].found) + Len(mcall'[u].found)
                                  = Len(job[u].found) + Len(mcall[u].found)
      BY <2>1, <2>2
    <2> QED BY <1>0, <1>2, <2>3, ToldSame DEF Balanced
  <1>9. ASSUME NEW e \in Triggers PROVE Mapped(e)'
    <2>1. PICK B, C : B = Busy("mitre", e) /\ C = (Busy("mitre", e))'
      OBVIOUS
    <2>2. /\ Cardinality(B) \in Nat /\ Cardinality(C) \in Nat
          /\ Cardinality(C) + (IF t \in B THEN 1 ELSE 0) = Cardinality(B) + (IF t \in C THEN 1 ELSE 0)
          /\ B \in SUBSET Deliverers /\ C \in SUBSET Deliverers /\ B \ {t} = C \ {t}
      BY <1>0, <1>4, <2>1, BusyChange
    <2>3. t \notin C /\ (t \in B <=> e = d)
      BY <1>1, <1>2, <1>3, <1>4, <2>1, BusyMember
    <2>4. PICK f, g : f = Found /\ g = Found'
      OBVIOUS
    <2>5. \A u \in Deliverers : f[u] = Len(mcall[u].found) /\ f[u] \in Nat
      BY <1>0, <2>4, FoundCounts
    <2>6. \A u \in Deliverers \ {t} : g[u] = f[u]
      <3>1. \A u \in Deliverers : g[u] = Len(mcall'[u].found)
        BY <2>4 DEF Found
      <3> QED BY <1>2, <2>5, <3>1 DEF OthersCall
    <2>7. Counts(f, B) /\ Counts(g, C)
      <3>1. IsFiniteSet(B) /\ IsFiniteSet(C)
        BY <2>2, Finitely, FS_Subset
      <3>2. \A u \in C : g[u] \in Nat
        BY <2>2, <2>3, <2>5, <2>6
      <3> QED BY <2>2, <2>5, <3>1, <3>2 DEF Counts
    <2>8. Sum(g, C) + (IF t \in B THEN f[t] ELSE 0) = Sum(f, B) + (IF t \in C THEN g[t] ELSE 0)
      BY <2>2, <2>6, <2>7, SumStep
    <2>9. Sum(f, B) \in Nat /\ Sum(g, C) \in Nat
      BY <2>7, SumNat
    <2>10. PICK x, k, y, z : /\ x = Times(e) /\ k = Cardinality(Claims(e))
                             /\ y = Cardinality(B) /\ z = Cardinality(C)
      OBVIOUS
    <2>11. Sum(announced, {e} \X Techniques) = (x - y) * k + Sum(f, B)
      BY <1>0, <2>1, <2>4, <2>10 DEF Balanced, Mapped
    <2>12. x \in Int /\ k \in Int /\ y \in Int /\ z \in Int
      <3>1. x \in Nat
        BY <1>0, <2>10 DEF Times, Typed, IsBag
      <3>2. k \in Nat
        <4>1. Claims(e) = Places(Claimed[e], Techniques)
          BY DEF Claims, Places
        <4> QED BY <2>10, <4>1, ClaimedTyped, PlacesFinite
      <3> QED BY <2>2, <2>10, <3>1, <3>2
    <2>13. Sum(announced, {e} \X Techniques) = (x - z) * k + Sum(g, C)
      <3>1. CASE e = d
        <4>1. f[t] = k
          BY <1>2, <2>5, <2>10, <3>1
        <4>2. Sum(f, B) = Sum(g, C) + k /\ z = y - 1
          BY <2>2, <2>3, <2>8, <2>9, <2>10, <2>12, <3>1, <4>1
        <4>3. (x - y) * k + (Sum(g, C) + k) = (x - (y - 1)) * k + Sum(g, C)
          BY <2>9, <2>12, OneMoreOf
        <4> QED BY <2>11, <4>2, <4>3
      <3>2. CASE e # d
        <4>1. Sum(f, B) = Sum(g, C) /\ z = y
          BY <2>2, <2>3, <2>8, <2>9, <2>10, <3>2
        <4> QED BY <2>11, <4>1
      <3> QED BY <3>1, <3>2
    <2>14. Times(e)' = x
      BY <1>2, <2>10 DEF Times
    <2> QED BY <1>2, <2>1, <2>4, <2>10, <2>13, <2>14 DEF Mapped
  <1> QED BY <1>6, <1>7, <1>8, <1>9 DEF Balanced
-----------------------------------------------------------------------------
(***************************************************************************)
(* The types.                                                              *)
(***************************************************************************)
LEMMA TypedDeliver ==
  ASSUME Inv, NEW t \in Deliverers, NEW d \in Triggers, NEW i \in Ids, Deliver(t, d, i)
  PROVE  Typed'
  <1>0. Typed /\ t \in Threads
    BY ThreadsApart DEF Inv
  <1> DEFINE r == [pc |-> "incidents", id |-> i, status |-> "Open", found |-> <<>>]
             k == [pc |-> "push", id |-> i, to |-> "Open"]
  <1>1. r \in Jobs /\ k \in Calls
    BY DEF Jobs, Calls, I!Statuses, I!PCs
  <1>2. /\ job' = [job EXCEPT ![t] = r] /\ call' = [call EXCEPT ![t] = k]
        /\ timeline' = [timeline EXCEPT ![i] = Append(@, "Open")]
        /\ origin' = [origin EXCEPT ![i] = d]
        /\ UNCHANGED <<status, resolvedAt, artifacts, events, mvars, avars>>
    BY DEF Deliver, I!Create, I!RecordTimeline
  <1> HIDE DEF r, k
  <1>3. timeline' \in [Ids -> Seq(I!Statuses)]
    BY <1>0, <1>2 DEF Typed, I!Statuses
  <1>4. job' \in [Threads -> Jobs] /\ call' \in [Threads -> Calls] /\ origin' \in [Ids -> Triggers \cup {None}]
    BY <1>0, <1>1, <1>2 DEF Typed
  <1> QED BY <1>0, <1>2, <1>3, <1>4 DEF Typed, mvars, avars, IsBag

LEMMA TypedMove ==
  ASSUME Inv, NEW t \in Analysts, NEW i \in Ids, NEW to \in I!Statuses, Move(t, i, to)
  PROVE  Typed'
  <1>0. Typed /\ t \in Threads
    BY ThreadsApart DEF Inv
  <1> DEFINE r == [pc |-> "incidents", id |-> i, status |-> to, found |-> <<>>]
             k == [pc |-> "record", id |-> i, to |-> to]
  <1>1. r \in Jobs /\ k \in Calls
    BY DEF Jobs, Calls, I!PCs
  <1>2. /\ job' = [job EXCEPT ![t] = r] /\ call' = [call EXCEPT ![t] = k]
        /\ status' = [status EXCEPT ![i] = to]
        /\ resolvedAt' = [resolvedAt EXCEPT ![i] = I!Stamped(i, to)]
        /\ UNCHANGED <<timeline, artifacts, events, origin, mvars, avars>>
    BY DEF Move, I!Transition
  <1> HIDE DEF r, k
  <1>3. I!Stamped(i, to) \in {"Resolved", "Closed", None}
    BY <1>0 DEF Typed, I!Stamped
  <1>4. /\ job' \in [Threads -> Jobs] /\ call' \in [Threads -> Calls]
        /\ status' \in [Ids -> I!Statuses \cup {None}]
        /\ resolvedAt' \in [Ids -> {"Resolved", "Closed", None}]
    BY <1>0, <1>1, <1>2, <1>3 DEF Typed
  <1> QED BY <1>0, <1>2, <1>4 DEF Typed, mvars, avars, IsBag

LEMMA CallsNotify ==
  ASSUME Typed, NEW t \in Threads, call' = [call EXCEPT ![t].pc = "notify"]
  PROVE  call' \in [Threads -> Calls]
  <1> DEFINE k == [call[t] EXCEPT !.pc = "notify"]
  <1>1. call \in [Threads -> Calls]
    BY DEF Typed
  <1>2. call[t] \in Calls
    BY <1>1
  <1>3. k \in Calls
    BY <1>2 DEF Calls, I!PCs
  <1>4. call' = [call EXCEPT ![t] = k]
    OBVIOUS
  <1> HIDE DEF k
  <1> QED BY <1>1, <1>3, <1>4

LEMMA TypedPush ==
  ASSUME Typed, Incid, NEW t \in Threads, I!CreatePush(t), UNCHANGED <<mvars, avars, origin, job>>
  PROVE  Typed'
  <1>1. /\ call' = [call EXCEPT ![t].pc = "notify"]
        /\ status' = [status EXCEPT ![call[t].id] = "Open"] /\ call[t].id \in Ids
        /\ UNCHANGED <<resolvedAt, timeline, artifacts, events>>
    BY InHand DEF I!CreatePush, I!Goto, I!At
  <1>2. call' \in [Threads -> Calls]
    BY <1>1, CallsNotify
  <1>3. status' \in [Ids -> I!Statuses \cup {None}]
    BY <1>1 DEF Typed, I!Statuses
  <1> QED BY <1>1, <1>2, <1>3 DEF Typed, mvars, avars, IsBag

LEMMA TypedRecord ==
  ASSUME Typed, Incid, NEW t \in Threads, I!TransitionRecord(t), UNCHANGED <<mvars, avars, origin, job>>
  PROVE  Typed'
  <1>1. /\ call' = [call EXCEPT ![t].pc = "notify"]
        /\ call[t].id \in Ids /\ call[t].to \in I!Statuses
        /\ timeline' = [timeline EXCEPT ![call[t].id] = Append(@, call[t].to)]
        /\ UNCHANGED <<status, resolvedAt, artifacts, events>>
    BY InHand DEF I!TransitionRecord, I!Goto, I!At, I!RecordTimeline
  <1>2. call' \in [Threads -> Calls]
    BY <1>1, CallsNotify
  <1>3. timeline' \in [Ids -> Seq(I!Statuses)]
    BY <1>1 DEF Typed
  <1> QED BY <1>1, <1>2, <1>3 DEF Typed, mvars, avars, IsBag

LEMMA TypedEmit ==
  ASSUME Typed, Incid, NEW t \in Threads, I!Emit(t), UNCHANGED <<mvars, avars, origin, job>>
  PROVE  Typed'
  <1> DEFINE n == [kind |-> I!EventKind(call[t].to), status |-> call[t].to]
  <1>1. /\ call' = [call EXCEPT ![t] = I!Idle]
        /\ call[t].id \in Ids /\ call[t].to \in I!Statuses
        /\ events' = [events EXCEPT ![call[t].id] = Append(@, n)]
        /\ UNCHANGED <<status, resolvedAt, artifacts, timeline>>
    BY InHand DEF I!Emit, I!Return, I!At
  <1>2. n \in I!Notice
    <2>1. I!EventKind(call[t].to) \in I!Kinds
      BY <1>1 DEF I!EventKind, I!Kinds, I!Statuses
    <2> QED BY <1>1, <2>1 DEF I!Notice
  <1> HIDE DEF n
  <1>3. call' \in [Threads -> Calls]
    BY <1>1 DEF Typed, Calls, I!PCs, I!Idle
  <1>4. events' \in [Ids -> Seq(I!Notice)]
    BY <1>1, <1>2 DEF Typed
  <1> QED BY <1>1, <1>3, <1>4 DEF Typed, mvars, avars, IsBag

LEMMA TypedJob ==
  ASSUME Typed, NEW t \in Threads, NEW r \in Jobs, job' = [job EXCEPT ![t] = r],
         UNCHANGED <<ivars, mappings, hits, announced, origin>>, mcall' \in [Deliverers -> MCalls],
         IsBag(copies', Copied), IsBag(detections', Triggers), IsBag(techniques', Techniques)
  PROVE  Typed'
  <1>1. job' \in [Threads -> Jobs]
    BY DEF Typed
  <1> QED BY <1>1 DEF Typed, ivars

LEMMA TypedCall ==
  ASSUME Typed, mcall' \in [Deliverers -> MCalls], UNCHANGED <<ivars, avars, origin, job>>,
         mappings' \in Seq(Techniques), hits' \in [M!Hits -> Nat], announced' \in [M!Hits -> Nat]
  PROVE  Typed'
  BY DEF Typed, ivars, avars, IsBag

LEMMA IdleIsJob == Idle \in Jobs /\ Idle.found = <<>> /\ Idle.pc = "idle"
  BY DEF Idle, Jobs

-----------------------------------------------------------------------------
(***************************************************************************)
(* Every step keeps the invariant.                                         *)
(***************************************************************************)
(* A thread that is not in the MITRE engine, before or after.              *)
LEMMA MappingElsewhere ==
  ASSUME Inv, NEW t \in Threads, job[t].pc # "mitre", Others(t), UNCHANGED mcall
  PROVE  Mappings'
  <1>1. Mappings
    BY DEF Inv
  <1>2. t \in Deliverers => mcall'[t] = M!Calm
    BY <1>1 DEF Mappings, Mapping, At
  <1>3. OthersCall(t)
    BY DEF OthersCall
  <1> QED BY <1>1, <1>2, <1>3, MappingOut

LEMMA InvDeliver ==
  ASSUME Inv, NEW t \in Deliverers, NEW d \in Triggers, NEW i \in Ids, Deliver(t, d, i)
  PROVE  Inv'
  <1>1. t \in Threads /\ job[t].pc = "idle" /\ UNCHANGED mcall
    BY ThreadsApart DEF Deliver, At, mvars
  <1>2. Others(t) /\ Incid'
    BY IncidDeliver
  <1>3. Mappings'
    BY <1>1, <1>2, MappingElsewhere
  <1> QED BY <1>2, <1>3, TypedDeliver, CopyingDeliver, BalancedDeliver DEF Inv

LEMMA InvMove ==
  ASSUME Inv, NEW t \in Analysts, NEW i \in Ids, NEW to \in I!Statuses, Move(t, i, to)
  PROVE  Inv'
  <1>1. t \in Threads /\ job[t].pc = "idle" /\ UNCHANGED <<mcall, origin>> /\ Typed
    BY ThreadsApart DEF Move, At, mvars, Inv
  <1>2. Others(t)
    <2>1. PICK r : job' = [job EXCEPT ![t] = r]
      BY DEF Move
    <2> QED BY <1>1, <2>1, JobStep
  <1>3. Mappings'
    BY <1>1, <1>2, MappingElsewhere
  <1>4. Incid'
    BY IncidMove
  <1> QED BY <1>3, <1>4, TypedMove, CopyingMove, BalancedMove DEF Inv

LEMMA InvInIncidents ==
  ASSUME Inv, NEW t \in Threads, InIncidents(t)
  PROVE  Inv'
  <1>0. /\ Typed /\ Incid /\ Copying /\ Mappings /\ Balanced
        /\ UNCHANGED <<mvars, avars, origin, job>>
    BY DEF Inv, InIncidents
  <1>1. UNCHANGED <<copies, detections, techniques, mappings, hits, announced, mcall, origin, job>>
    BY <1>0 DEF mvars, avars
  <1>2. Mappings' /\ Balanced'
    BY <1>0, <1>1, MappingSame, BalancedSame
  <1>3. CASE I!CreatePush(t)
    <2>1. Incid' /\ \A i \in Ids : status[i] # None => status'[i] = status[i]
      BY <1>0, <1>1, <1>3, IncidPush
    <2>2. \A i \in Ids : I!AuditedOf(i) \subseteq (I!AuditedOf(i))'
      BY <1>3 DEF I!CreatePush, I!AuditedOf
    <2>3. Copying'
      BY <1>0, <1>1, <2>1, <2>2, CopyingKept
    <2> QED BY <1>0, <1>2, <1>3, <2>1, <2>3, TypedPush DEF Inv
  <1>4. CASE I!TransitionRecord(t)
    <2>1. Incid' /\ \A i \in Ids : I!AuditedOf(i) \subseteq (I!AuditedOf(i))'
      BY <1>0, <1>1, <1>4, IncidRecord
    <2>2. status' = status
      BY <1>4 DEF I!TransitionRecord
    <2>3. Copying'
      BY <1>0, <1>1, <2>1, <2>2, CopyingKept
    <2> QED BY <1>0, <1>2, <1>4, <2>1, <2>3, TypedRecord DEF Inv
  <1>5. CASE I!Emit(t)
    <2>1. Incid'
      BY <1>0, <1>1, <1>5, IncidEmit
    <2>2. status' = status /\ \A i \in Ids : I!AuditedOf(i) \subseteq (I!AuditedOf(i))'
      BY <1>5 DEF I!Emit, I!AuditedOf
    <2>3. Copying'
      BY <1>0, <1>1, <2>2, CopyingKept
    <2> QED BY <1>0, <1>2, <1>5, <2>1, <2>3, TypedEmit DEF Inv
  <1> QED BY <1>3, <1>4, <1>5 DEF InIncidents

LEMMA InvRecordIncident ==
  ASSUME Inv, NEW t \in Threads, RecordIncident(t)
  PROVE  Inv'
  <1>0. Typed /\ Incid /\ Copying
    BY DEF Inv
  <1>1. job[t].pc = "incidents" /\ call[t].pc = "idle" /\ IsBag(copies', Copied)
    BY <1>0, RecordIncidentAdds
  <1>2. PICK r : Later(t, r) /\ job' = [job EXCEPT ![t] = r] /\ r \in Jobs
    BY <1>0, RecordIncidentLater
  <1>3. UNCHANGED <<ivars, mvars, origin, detections, techniques>>
    BY DEF RecordIncident, A!RecordIncident
  <1>4. UNCHANGED <<mappings, hits, announced, mcall>>
    BY <1>3 DEF mvars
  <1>5. Typed'
    <2>1. IsBag(detections', Triggers) /\ IsBag(techniques', Techniques) /\ mcall' \in [Deliverers -> MCalls]
      BY <1>0, <1>3, <1>4 DEF Typed, IsBag
    <2> QED BY <1>0, <1>1, <1>2, <1>3, <1>4, <2>1, TypedJob
  <1>6. Incid'
    BY <1>0, <1>1, <1>2, <1>3, IncidJob
  <1>7. Copying'
    BY <1>0, CopyingRecordIncident
  <1>8. Mappings'
    BY <1>0, <1>1, <1>2, <1>3, <1>4, JobStep, MappingElsewhere
  <1> QED BY <1>5, <1>6, <1>7, <1>8, BalancedRecordIncident DEF Inv

LEMMA InvRecordDetection ==
  ASSUME Inv, NEW t \in Deliverers, RecordDetection(t)
  PROVE  Inv'
  <1>0. Typed /\ Incid /\ Copying /\ t \in Threads
    BY ThreadsApart DEF Inv
  <1>1. /\ job[t].pc = "detection" /\ job[t].id \in Ids /\ call[t].pc = "idle"
        /\ IsBag(detections', Triggers) /\ DOMAIN detections' = DOMAIN detections \cup {DetectionOf(t)}
        /\ UNCHANGED <<ivars, mvars, origin, copies, techniques>>
    BY <1>0, RecordDetectionAdds
  <1>2. PICK r : Later(t, r) /\ job' = [job EXCEPT ![t] = r] /\ r \in Jobs
    BY <1>0, RecordDetectionAdds
  <1>3. UNCHANGED <<mappings, hits, announced, mcall>>
    BY <1>1 DEF mvars
  <1>4. Typed'
    <2>1. IsBag(copies', Copied) /\ IsBag(techniques', Techniques) /\ mcall' \in [Deliverers -> MCalls]
      BY <1>0, <1>1, <1>3 DEF Typed, IsBag
    <2> QED BY <1>0, <1>1, <1>2, <1>3, <2>1, TypedJob
  <1>5. Incid'
    BY <1>0, <1>1, <1>2, IncidJob
  <1>6. Copying'
    BY <1>0, <1>1, <1>2, CopyingJob
  <1>7. Mappings'
    BY <1>0, <1>1, <1>2, <1>3, JobStep, MappingElsewhere
  <1> QED BY <1>4, <1>5, <1>6, <1>7, BalancedRecordDetection DEF Inv

LEMMA InvRecordTechnique ==
  ASSUME Inv, NEW t \in Deliverers, RecordTechnique(t)
  PROVE  Inv'
  <1>0. Typed /\ Incid /\ Copying /\ t \in Threads
    BY ThreadsApart DEF Inv
  <1>1. /\ job[t].pc = "techniques" /\ call[t].pc = "idle" /\ IsBag(techniques', Techniques)
        /\ UNCHANGED <<ivars, mvars, origin, copies, detections>>
    BY <1>0, RecordTechniqueAdds
  <1>2. PICK r : Later(t, r) /\ job' = [job EXCEPT ![t] = r] /\ r \in Jobs
    BY <1>0, RecordTechniqueAdds
  <1>3. UNCHANGED <<mappings, hits, announced, mcall>>
    BY <1>1 DEF mvars
  <1>4. Typed'
    <2>1. IsBag(copies', Copied) /\ IsBag(detections', Triggers) /\ mcall' \in [Deliverers -> MCalls]
      BY <1>0, <1>1, <1>3 DEF Typed, IsBag
    <2> QED BY <1>0, <1>1, <1>2, <1>3, <2>1, TypedJob
  <1>5. Incid'
    BY <1>0, <1>1, <1>2, IncidJob
  <1>6. Copying'
    BY <1>0, <1>1, <1>2, CopyingJob
  <1>7. Mappings'
    BY <1>0, <1>1, <1>2, <1>3, JobStep, MappingElsewhere
  <1> QED BY <1>4, <1>5, <1>6, <1>7, BalancedRecordTechnique DEF Inv

(* A thread goes home.                                                     *)
LEMMA InvIdle ==
  ASSUME Inv, NEW t \in Threads, KeepToOneself(t) \/ (t \in Deliverers /\ Finish(t))
  PROVE  Inv'
  <1>0. Typed /\ Incid /\ Copying
    BY DEF Inv
  <1>1. job' = [job EXCEPT ![t] = Idle] /\ UNCHANGED <<ivars, mvars, avars, origin>>
    BY DEF KeepToOneself, Finish
  <1>2. /\ job[t].pc # "mitre" /\ job[t].found = <<>> /\ call[t].pc = "idle"
        /\ t \in Analysts \/ job[t].pc = "techniques"
    <2>1. Agrees(t)
      BY <1>0 DEF Incid
    <2> QED BY <2>1, ThreadsApart DEF Agrees, KeepToOneself, Finish, Returned, At
  <1>3. UNCHANGED <<copies, detections, techniques, mappings, hits, announced, mcall>>
    BY <1>1 DEF mvars, avars
  <1>4. Later(t, Idle)
    BY DEF Later
  <1>5. Typed'
    <2>1. /\ IsBag(copies', Copied) /\ IsBag(detections', Triggers) /\ IsBag(techniques', Techniques)
          /\ mcall' \in [Deliverers -> MCalls]
      BY <1>0, <1>3 DEF Typed, IsBag
    <2> QED BY <1>0, <1>1, <1>3, <2>1, IdleIsJob, TypedJob
  <1>6. Incid'
    BY <1>0, <1>1, <1>2, <1>4, IncidJob
  <1>7. Copying'
    BY <1>0, <1>1, <1>2, <1>3, <1>4, CopyingJob
  <1>8. Mappings'
    BY <1>0, <1>1, <1>2, <1>3, JobStep, MappingElsewhere
  <1>9. Balanced'
    BY <1>1, <1>2, IdleIsJob, BalancedIdle
  <1> QED BY <1>5, <1>6, <1>7, <1>8, <1>9 DEF Inv

(* In the MITRE engine.                                                    *)
LEMMA InvCall ==
  ASSUME Inv, NEW t \in Deliverers, Mapping(t)', OthersCall(t), Balanced', Typed',
         UNCHANGED <<ivars, avars, origin, job>>
  PROVE  Inv'
  <1>0. /\ Typed /\ Incid /\ Copying /\ Mappings
        /\ UNCHANGED <<status, timeline, copies, detections, origin, job>>
    BY DEF Inv, ivars, avars
  <1>1. Incid'
    BY <1>0, IncidSame
  <1>2. Copying'
    BY <1>0, CopyingKept DEF I!AuditedOf
  <1>3. Mappings'
    BY <1>0, MappingCall
  <1> QED BY <1>1, <1>2, <1>3 DEF Inv

LEMMA InvCallMitre ==
  ASSUME Inv, NEW t \in Deliverers, CallMitre(t)
  PROVE  Inv'
  <1>1. /\ UNCHANGED <<ivars, avars, origin, job, mappings, hits, announced>> /\ Typed
    BY DEF CallMitre, M!Trigger, Inv
  <1>2. Mapping(t)' /\ OthersCall(t) /\ mcall' \in [Deliverers -> MCalls]
    BY MappingCallMitre
  <1>3. Typed'
    <2>1. mappings' \in Seq(Techniques) /\ hits' \in [M!Hits -> Nat] /\ announced' \in [M!Hits -> Nat]
      BY <1>1 DEF Typed
    <2> QED BY <1>1, <1>2, <2>1, TypedCall
  <1>4. Balanced'
    BY BalancedCallMitre
  <1> QED BY <1>1, <1>2, <1>3, <1>4, InvCall

LEMMA InvInMitre ==
  ASSUME Inv, NEW t \in Deliverers, InMitre(t)
  PROVE  Inv'
  <1>0. Typed /\ UNCHANGED <<ivars, avars, origin, job>>
    BY DEF Inv, InMitre
  <1>1. CASE M!Skip(t)
    <2>1. Mapping(t)' /\ OthersCall(t) /\ mcall' \in [Deliverers -> MCalls]
      BY <1>0, <1>1, MappingSkip
    <2>2. Typed'
      <3>1. mappings' \in Seq(Techniques) /\ hits' \in [M!Hits -> Nat] /\ announced' \in [M!Hits -> Nat]
        BY <1>0, <1>1 DEF Typed, M!Skip
      <3> QED BY <1>0, <2>1, <3>1, TypedCall
    <2>3. Balanced'
      BY <1>0, <1>1, BalancedSkip
    <2> QED BY <1>0, <2>1, <2>2, <2>3, InvCall
  <1>2. CASE M!Hit(t)
    <2>1. /\ Mapping(t)' /\ OthersCall(t) /\ mcall' \in [Deliverers -> MCalls]
          /\ hits' = [hits EXCEPT ![M!Claim(t)] = @ + 1] /\ M!Claim(t) \in M!Hits
      BY <1>0, <1>2, MappingHit
    <2>2. Typed'
      <3>1. mappings' \in Seq(Techniques) /\ announced' \in [M!Hits -> Nat]
        BY <1>0, <1>2 DEF Typed, M!Hit
      <3>2. hits' \in [M!Hits -> Nat]
        BY <1>0, <2>1 DEF Typed
      <3> QED BY <1>0, <2>1, <3>1, <3>2, TypedCall
    <2>3. Balanced'
      BY <1>0, <1>2, BalancedHit
    <2> QED BY <1>0, <2>1, <2>2, <2>3, InvCall
  <1>3. CASE M!Announce(t)
    <2>1. /\ Mapping(t)' /\ OthersCall(t) /\ mcall' \in [Deliverers -> MCalls]
          /\ announced' = [announced EXCEPT ![M!Claim(t)] = @ + 1] /\ M!Claim(t) \in M!Hits
      BY <1>0, <1>3, MappingAnnounce
    <2>2. Typed'
      <3>1. mappings' \in Seq(Techniques) /\ hits' \in [M!Hits -> Nat]
        BY <1>0, <1>3 DEF Typed, M!Announce
      <3>2. announced' \in [M!Hits -> Nat]
        BY <1>0, <2>1 DEF Typed
      <3> QED BY <1>0, <2>1, <3>1, <3>2, TypedCall
    <2>3. Balanced'
      BY <1>0, <1>3, <2>2, BalancedAnnounce
    <2> QED BY <1>0, <2>1, <2>2, <2>3, InvCall
  <1> QED BY <1>1, <1>2, <1>3 DEF InMitre, M!Work

LEMMA InvTake ==
  ASSUME Inv, NEW t \in Deliverers, TakeTechniques(t)
  PROVE  Inv'
  <1>0. Typed /\ Incid /\ Copying /\ Mappings /\ t \in Threads
    BY ThreadsApart DEF Inv
  <1>1. /\ job[t].pc = "mitre" /\ call[t].pc = "idle" /\ mcall'[t] = M!Calm /\ OthersCall(t)
        /\ mcall' \in [Deliverers -> MCalls]
        /\ UNCHANGED <<ivars, avars, origin, mappings, hits, announced>>
    BY TakeTechniquesDoes
  <1>2. PICK r : Later(t, r) /\ job' = [job EXCEPT ![t] = r] /\ r \in Jobs
    BY TakeTechniquesDoes
  <1>3. UNCHANGED <<copies, detections, techniques>>
    BY <1>1 DEF avars
  <1>4. Typed'
    <2>1. IsBag(copies', Copied) /\ IsBag(detections', Triggers) /\ IsBag(techniques', Techniques)
      BY <1>0, <1>3 DEF Typed, IsBag
    <2> QED BY <1>0, <1>1, <1>2, <2>1, TypedJob
  <1>5. Incid'
    BY <1>0, <1>1, <1>2, IncidJob
  <1>6. Copying'
    BY <1>0, <1>1, <1>2, <1>3, CopyingJob
  <1>7. Mappings'
    BY <1>0, <1>1, <1>2, JobStep, MappingOut
  <1> QED BY <1>4, <1>5, <1>6, <1>7, BalancedTake DEF Inv

LEMMA InvMapDetection ==
  ASSUME Inv, NEW q \in Techniques, MapDetection(q)
  PROVE  Inv'
  <1>0. /\ Typed /\ Incid /\ Copying /\ Mappings /\ Balanced
        /\ UNCHANGED <<ivars, avars, origin, job, hits, announced, mcall>>
        /\ mappings' = Append(mappings, q)
    BY DEF Inv, MapDetection, M!MapDetection
  <1>1. UNCHANGED <<status, timeline, copies, detections, techniques>>
    BY <1>0 DEF ivars, avars
  <1>2. Typed'
    <2>1. /\ mappings' \in Seq(Techniques) /\ hits' \in [M!Hits -> Nat] /\ announced' \in [M!Hits -> Nat]
          /\ mcall' \in [Deliverers -> MCalls]
      BY <1>0 DEF Typed
    <2> QED BY <1>0, <2>1, TypedCall
  <1>3. Incid'
    BY <1>0, IncidSame
  <1>4. Copying'
    BY <1>0, <1>1, CopyingKept DEF I!AuditedOf
  <1>5. Mappings' /\ Balanced'
    BY <1>0, <1>1, MappingSame, BalancedSame
  <1> QED BY <1>2, <1>3, <1>4, <1>5 DEF Inv

LEMMA InvStutter ==
  ASSUME Inv, UNCHANGED vars
  PROVE  Inv'
  <1>0. /\ Typed /\ Incid /\ Copying /\ Mappings /\ Balanced
        /\ UNCHANGED <<ivars, avars, mvars, origin, job>>
    BY DEF Inv, vars
  <1>1. UNCHANGED <<status, timeline, copies, detections, techniques, mappings, hits, announced, mcall>>
    BY <1>0 DEF ivars, avars, mvars
  <1>2. Typed'
    <2>1. /\ mappings' \in Seq(Techniques) /\ hits' \in [M!Hits -> Nat] /\ announced' \in [M!Hits -> Nat]
          /\ mcall' \in [Deliverers -> MCalls]
      BY <1>0, <1>1 DEF Typed
    <2> QED BY <1>0, <2>1, TypedCall
  <1>3. Incid'
    BY <1>0, IncidSame
  <1>4. Copying'
    BY <1>0, <1>1, CopyingKept DEF I!AuditedOf
  <1>5. Mappings' /\ Balanced'
    BY <1>0, <1>1, MappingSame, BalancedSame
  <1> QED BY <1>2, <1>3, <1>4, <1>5 DEF Inv

LEMMA InvNext == Inv /\ [Next]_vars => Inv'
  <1> SUFFICES ASSUME Inv, [Next]_vars PROVE Inv'
    OBVIOUS
  <1>1. CASE UNCHANGED vars
    BY <1>1, InvStutter
  <1>2. ASSUME NEW t \in Deliverers, NEW d \in Triggers, NEW i \in Ids, Deliver(t, d, i) PROVE Inv'
    BY <1>2, InvDeliver
  <1>3. ASSUME NEW t \in Deliverers,
               \/ RecordDetection(t) \/ RecordTechnique(t) \/ Finish(t)
               \/ CallMitre(t) \/ InMitre(t) \/ TakeTechniques(t)
        PROVE  Inv'
    BY <1>3, ThreadsApart, InvRecordDetection, InvRecordTechnique, InvIdle, InvCallMitre, InvInMitre, InvTake
  <1>4. ASSUME NEW t \in Analysts, NEW i \in Ids, NEW to \in I!Statuses, Move(t, i, to) PROVE Inv'
    BY <1>4, InvMove
  <1>5. ASSUME NEW t \in Analysts, KeepToOneself(t) PROVE Inv'
    BY <1>5, ThreadsApart, InvIdle
  <1>6. ASSUME NEW t \in Threads, InIncidents(t) \/ RecordIncident(t) PROVE Inv'
    BY <1>6, InvInIncidents, InvRecordIncident
  <1>7. ASSUME NEW q \in Techniques, MapDetection(q) PROVE Inv'
    BY <1>7, InvMapDetection
  <1> QED BY <1>1, <1>2, <1>3, <1>4, <1>5, <1>6, <1>7 DEF Next

-----------------------------------------------------------------------------
(***************************************************************************)
(* At first the books are empty.                                           *)
(***************************************************************************)
LEMMA InitTyped == Init => Typed /\ Incid
  <1> SUFFICES ASSUME Init PROVE Typed /\ Incid
    OBVIOUS
  <1>1. /\ status = [i \in Ids |-> None] /\ resolvedAt = [i \in Ids |-> None]
        /\ timeline = [i \in Ids |-> <<>>] /\ artifacts = [i \in Ids |-> 0]
        /\ events = [i \in Ids |-> <<>>] /\ call = [t \in Threads |-> I!Idle]
        /\ origin = [i \in Ids |-> None] /\ job = [t \in Threads |-> Idle]
        /\ mappings = <<>> /\ hits = [p \in M!Hits |-> 0] /\ announced = [p \in M!Hits |-> 0]
        /\ mcall = [t \in Deliverers |-> M!Calm]
    BY DEF Init, I!Init, M!Init
  <1>2. I!Idle \in Calls /\ Idle \in Jobs /\ M!Calm \in MCalls
    BY DEF I!Idle, Calls, I!PCs, Idle, Jobs, M!Calm, MCalls
  <1>3. IsBag(copies, Copied) /\ IsBag(detections, Triggers) /\ IsBag(techniques, Techniques)
    BY DEF Init, A!Init, A!EmptyBag, A!SetToBag, IsBag
  <1>4. Typed
    BY <1>1, <1>2, <1>3 DEF Typed
  <1>5. \A t \in Threads : call[t].pc = "idle" /\ call[t] = I!Idle /\ job[t].pc = "idle" /\ job[t] = Idle
    BY <1>1 DEF I!Idle, Idle
  <1>6. \A i \in Ids : I!AuditedOf(i) = {} /\ status[i] = None /\ origin[i] = None
    BY <1>1 DEF I!AuditedOf
  <1>7. \A t \in Threads : Agrees(t)
    BY <1>5 DEF Agrees, At, Idle
  <1>8. Apart
    BY <1>5 DEF Apart, At
  <1>9. \A i \in Ids : Ages(i)
    BY <1>6 DEF Ages
  <1> QED BY <1>4, <1>7, <1>8, <1>9 DEF Incid

LEMMA InitBalanced == Init => Balanced
  <1> SUFFICES ASSUME Init PROVE Balanced
    OBVIOUS
  <1>1. /\ origin = [i \in Ids |-> None] /\ job = [t \in Threads |-> Idle]
        /\ hits = [p \in M!Hits |-> 0] /\ announced = [p \in M!Hits |-> 0]
        /\ mcall = [t \in Deliverers |-> M!Calm]
        /\ DOMAIN copies = {} /\ DOMAIN detections = {} /\ DOMAIN techniques = {}
    BY DEF Init, M!Init, A!Init, A!EmptyBag, A!SetToBag
  <1>2. \A pc, d : pc # "idle" => Busy(pc, d) = {}
    BY <1>1, ThreadsApart DEF Busy, At, Idle
  <1>3. Cardinality({}) = 0
    BY FS_EmptySet
  <1>4. ASSUME NEW d \in Triggers PROVE Made(d) /\ Seen(d) /\ Mapped(d)
    <2>1. Busy("incidents", d) = {} /\ Busy("detection", d) = {} /\ Busy("mitre", d) = {}
      BY <1>2
    <2>2. Recorded(d) = {} /\ CreatedFor(d) = {} /\ Times(d) = 0
      BY <1>1, NoneApart DEF Recorded, CreatedFor, Times
    <2>3. Sum(announced, {d} \X Techniques) = 0
      <3>1. {d} \X Techniques \subseteq M!Hits
        BY HitsFinite
      <3> QED BY <1>1, <3>1, HitsFinite, FS_Subset, SumZero
    <2>4. Sum(Found, {}) = 0
      BY SumEmpty
    <2>5. PICK k : k = Cardinality(Claims(d)) /\ k \in Nat
      BY ClaimsFinite
    <2>6. 0 = (0 - 0) * k + 0
      BY <2>5
    <2>7. Made(d) /\ Seen(d)
      BY <1>3, <2>1, <2>2 DEF Made, Seen
    <2>8. Mapped(d)
      BY <1>3, <2>1, <2>2, <2>3, <2>4, <2>5, <2>6 DEF Mapped
    <2> QED BY <2>7, <2>8
  <1>5. ASSUME NEW p \in M!Hits PROVE Spoken(p)
    <2>1. Emitting(p) = {}
      BY <1>1, CalmFields DEF Emitting
    <2> QED BY <1>1, <1>3, <2>1 DEF Spoken
  <1>6. Told
    <2>1. Sum(techniques, DOMAIN techniques) = 0
      BY <1>1, SumEmpty
    <2>2. Sum(Held, Deliverers) = 0
      <3>1. Typed
        BY InitTyped
      <3>2. \A u \in Deliverers : job[u].found = <<>> /\ mcall[u].found = <<>>
        BY <1>1, CalmFields, ThreadsApart DEF Idle
      <3>3. ASSUME NEW u \in Deliverers PROVE Held[u] = 0
        <4>1. Held[u] = Len(job[u].found) + Len(mcall[u].found)
          BY <3>1, HeldCounts
        <4>2. Len(job[u].found) = 0 /\ Len(mcall[u].found) = 0
          BY <3>2
        <4> QED BY <4>1, <4>2
      <3> QED BY <3>3, Finitely, SumZero
    <2>3. Sum(announced, M!Hits) = 0
      BY <1>1, HitsFinite, SumZero
    <2> QED BY <2>1, <2>2, <2>3 DEF Told
  <1> QED BY <1>4, <1>5, <1>6 DEF Balanced

LEMMA InitInv == Init => Inv
  <1> SUFFICES ASSUME Init PROVE Inv
    OBVIOUS
  <1>1. /\ origin = [i \in Ids |-> None] /\ job = [t \in Threads |-> Idle]
        /\ mcall = [t \in Deliverers |-> M!Calm] /\ DOMAIN copies = {} /\ DOMAIN detections = {}
    BY DEF Init, M!Init, A!Init, A!EmptyBag, A!SetToBag
  <1>2. Copying
    BY <1>1, ThreadsApart DEF Copying, At, Idle
  <1>3. Mappings
    BY <1>1, ThreadsApart, CalmFields DEF Mappings, Mapping
  <1> QED BY <1>2, <1>3, InitTyped, InitBalanced DEF Inv

(* The invariant: the threads' calls and jobs agree, copies are made once, *)
(* and the books balance, step by step.                                    *)
THEOREM InvAlways == Spec => []Inv
  BY InitInv, InvNext, PTL DEF Spec

-----------------------------------------------------------------------------
(***************************************************************************)
(* What the summaries show.                                                *)
(***************************************************************************)
LEMMA SumsAgree ==
  /\ \A f, S : SumFunctionOnSet(f, S) = Sum(f, S) /\ A!SumFunctionOnSet(f, S) = Sum(f, S)
  /\ \A f : SumFunction(f) = Sum(f, DOMAIN f) /\ A!SumFunction(f) = Sum(f, DOMAIN f)
  BY DEF Sum, SumFunction, A!SumFunction, A!SumFunctionOnSet, SumFunctionOnSet,
         A!FoldFunctionOnSet, FoldFunctionOnSet, A!MapThenFoldSet, MapThenFoldSet

LEMMA CopiedFinite == IsFiniteSet(Copied)
  <1> DEFINE P == Ids \X (I!Statuses \X Triggers)
             g == [p \in P |-> A!Copy(p[1], p[2][1], p[2][2])]
  <1>1. IsFiniteSet(Ids) /\ IsFiniteSet(Triggers)
    BY Finitely DEF Triggers
  <1>2. IsFiniteSet(I!Statuses)
    <2>1. IsFiniteSet({}) BY FS_EmptySet
    <2>2. IsFiniteSet({} \cup {"Open"}) BY <2>1, FS_AddElement
    <2>3. IsFiniteSet(({} \cup {"Open"}) \cup {"Investigating"}) BY <2>2, FS_AddElement
    <2>4. IsFiniteSet((({} \cup {"Open"}) \cup {"Investigating"}) \cup {"Contained"}) BY <2>3, FS_AddElement
    <2>5. IsFiniteSet(((({} \cup {"Open"}) \cup {"Investigating"}) \cup {"Contained"}) \cup {"Resolved"})
      BY <2>4, FS_AddElement
    <2>6. IsFiniteSet((((({} \cup {"Open"}) \cup {"Investigating"}) \cup {"Contained"}) \cup {"Resolved"})
                        \cup {"Closed"})
      BY <2>5, FS_AddElement
    <2>7. I!Statuses = (((({} \cup {"Open"}) \cup {"Investigating"}) \cup {"Contained"}) \cup {"Resolved"})
                         \cup {"Closed"}
      BY DEF I!Statuses
    <2> QED BY <2>6, <2>7
  <1>3. IsFiniteSet(I!Statuses \X Triggers)
    BY <1>1, <1>2, FS_Product
  <1>4. IsFiniteSet(P)
    BY <1>1, <1>3, FS_Product
  <1>5. g \in [P -> Copied]
    BY DEF A!Copy, Copied
  <1>6. ASSUME NEW c \in Copied PROVE \E p \in P : g[p] = c
    <2> DEFINE p == <<c.id, <<c.status, c.detection>>>>
    <2>1. p \in P
      BY DEF Copied
    <2>2. g[p] = A!Copy(c.id, c.status, c.detection)
      BY <2>1
    <2>3. A!Copy(c.id, c.status, c.detection) = c
      BY DEF A!Copy, Copied
    <2> QED BY <2>1, <2>2, <2>3
  <1>7. g \in Surjection(P, Copied)
    BY <1>5, <1>6 DEF Surjection
  <1> QED BY <1>4, <1>7, FS_Surjection

LEMMA BagsCount ==
  ASSUME Typed
  PROVE  /\ Counts(copies, DOMAIN copies) /\ Counts(detections, DOMAIN detections)
         /\ Counts(techniques, DOMAIN techniques)
  BY CopiedFinite, HitsFinite, Finitely, FS_Subset DEF Typed, IsBag, Counts, Triggers

LEMMA Quotient ==
  ASSUME NEW a \in Nat, NEW b \in Nat, b # 0, a <= b
  PROVE  (100 * a) \div b <= 100
  OBVIOUS

LEMMA CoverageAtMost == Typed => M!Coverage <= 100
  <1> SUFFICES ASSUME Typed PROVE M!Coverage <= 100
    OBVIOUS
  <1> DEFINE S == {mappings[n] : n \in 1..Len(mappings)}
  <1>1. S \in SUBSET Techniques
    BY DEF Typed
  <1>2. Techniques # {} /\ IsFiniteSet(Techniques)
    BY EngineAssumptions, HitsFinite DEF M!Assumption
  <1>3. /\ Cardinality(S) \in Nat /\ Cardinality(Techniques) \in Nat
        /\ Cardinality(S) <= Cardinality(Techniques) /\ Cardinality(Techniques) # 0
    BY <1>1, <1>2, FS_Subset, FS_CardinalityType, FS_EmptySet
  <1>4. M!Coverage = (100 * Cardinality(S)) \div Cardinality(Techniques)
    BY DEF M!Coverage, M!Cardinality, Cardinality
  <1> HIDE DEF S
  <1>5. (100 * Cardinality(S)) \div Cardinality(Techniques) <= 100
    BY <1>3, Quotient
  <1> QED BY <1>4, <1>5

(* The tenant's detections are those it has copies for.                    *)
LEMMA DetectionsOfTenant ==
  ASSUME Typed, Copying, NEW tn
  PROVE  A!TotalDetections(tn) =
           SumFunctionOnSet(detections, {d \in DOMAIN detections : TenantOf[d] = tn})
  <1> DEFINE X == {d \in DOMAIN detections : \E c \in A!TenantCopies(tn) : c.detection = d}
             Y == {d \in DOMAIN detections : TenantOf[d] = tn}
  <1>1. ASSUME NEW d \in DOMAIN detections, TenantOf[d] = tn PROVE d \in X
    <2>1. PICK i \in Ids : A!Copy(i, "Open", d) \in DOMAIN copies
      BY DEF Copying
    <2>2. A!Copy(i, "Open", d).detection = d
      BY CopyFields
    <2>3. A!Copy(i, "Open", d) \in A!TenantCopies(tn)
      BY <1>1, <2>1, <2>2 DEF A!TenantCopies
    <2> QED BY <2>2, <2>3
  <1>2. ASSUME NEW d \in DOMAIN detections, NEW c \in A!TenantCopies(tn), c.detection = d
        PROVE  TenantOf[d] = tn
    BY <1>2 DEF A!TenantCopies
  <1>3. X = Y
    BY <1>1, <1>2
  <1>4. A!TotalDetections(tn) = A!SumFunctionOnSet(detections, X)
    BY DEF A!TotalDetections
  <1> HIDE DEF X, Y
  <1>5. A!TotalDetections(tn) = SumFunctionOnSet(detections, Y)
    BY <1>3, <1>4, SumsAgree
  <1> QED BY <1>5 DEF Y

(* In the middle of a call, the techniques found so far are the ones that  *)
(* were announced.                                                         *)
LEMMA WithinAddsUp ==
  ASSUME Inv, NEW d \in Triggers
  PROVE  LET started == Times(d) - Cardinality({t \in Busy("mitre", d) : mcall[t].trigger = None})
             within  == {t \in Busy("mitre", d) : mcall[t].trigger # None}
         IN  SumFunctionOnSet(announced, {d} \X Techniques)
               = (started - Cardinality(within)) * Cardinality(Claims(d)) + SumFunctionOnSet(Found, within)
  <1> DEFINE B == Busy("mitre", d)
             Z == {t \in B : mcall[t].trigger = None}
             W == {t \in B : mcall[t].trigger # None}
  <1>0. Typed /\ Mappings /\ Balanced
    BY DEF Inv
  <1>1. B \in SUBSET Deliverers /\ IsFiniteSet(B)
    BY Finitely, FS_Subset DEF Busy
  <1>2. \A t \in Z : mcall[t] = M!Calm
    BY <1>0, <1>1 DEF Mappings, Mapping
  <1>3. /\ IsFiniteSet(Z) /\ IsFiniteSet(W) /\ Z \cup W = B /\ Z \cap W = {}
        /\ W \in SUBSET B /\ Z = B \ W
    BY <1>1, FS_Subset
  <1>4. Cardinality(B) = Cardinality(Z) + Cardinality(W) /\ Cardinality(Z) \in Nat /\ Cardinality(W) \in Nat
    <2> HIDE DEF Z, W, B
    <2>1. Cardinality(Z \cup W) = Cardinality(Z) + Cardinality(W) - Cardinality(Z \cap W)
      BY <1>3, FS_Union
    <2>2. Cardinality({}) = 0 /\ Cardinality(Z) \in Nat /\ Cardinality(W) \in Nat
      BY <1>3, FS_EmptySet, FS_CardinalityType
    <2>3. Cardinality(Z \cup W) = Cardinality(B) /\ Cardinality(Z \cap W) = 0
      BY <1>3, <2>2, Zenon
    <2> QED BY <2>1, <2>2, <2>3
  <1>5. Sum(Found, B) = Sum(Found, W)
    <2>1. Counts(Found, B)
      BY <1>0, <1>1, FoundCounts
    <2>2. ASSUME NEW t \in B \ W PROVE Found[t] = 0
      <3>1. mcall[t].found = <<>> /\ t \in Deliverers
        BY <1>1, <1>2, CalmFields
      <3>2. Found[t] = Len(mcall[t].found)
        BY <3>1 DEF Found
      <3> QED BY <3>1, <3>2
    <2> HIDE DEF B, W
    <2> QED BY <1>3, <2>1, <2>2, SumSkip
  <1>6. Sum(announced, {d} \X Techniques) = (Times(d) - Cardinality(B)) * Cardinality(Claims(d)) + Sum(Found, B)
    BY <1>0 DEF Balanced, Mapped
  <1>7. Times(d) \in Nat
    BY <1>0 DEF Typed, IsBag, Times
  <1> HIDE DEF Z, W, B
  <1>8. Times(d) - Cardinality(B) = (Times(d) - Cardinality(Z)) - Cardinality(W)
    BY <1>4, <1>7
  <1>9. Sum(announced, {d} \X Techniques)
          = ((Times(d) - Cardinality(Z)) - Cardinality(W)) * Cardinality(Claims(d)) + Sum(Found, W)
    BY <1>5, <1>6, <1>8
  <1>10. SumFunctionOnSet(announced, {d} \X Techniques)
          = ((Times(d) - Cardinality(Z)) - Cardinality(W)) * Cardinality(Claims(d)) + SumFunctionOnSet(Found, W)
    BY <1>9, SumsAgree
  <1> QED BY <1>10 DEF Z, W, B

LEMMA InvSummary == Inv => SummaryAddsUp
  <1> SUFFICES ASSUME Inv PROVE SummaryAddsUp
    OBVIOUS
  <1>0. Typed /\ Copying /\ Balanced
    BY DEF Inv
  <1>1. TypeOK
    BY <1>0, TypedIsTypeOK
  <1>2. ASSUME NEW d \in Triggers
        PROVE  LET recorded == Cardinality({i \in Ids : A!Copy(i, "Open", d) \in DOMAIN copies})
               IN  /\ recorded + Cardinality(Busy("incidents", d)) = Cardinality(CreatedFor(d))
                   /\ Times(d) + Cardinality(Busy("detection", d)) = recorded
    BY <1>0 DEF Balanced, Made, Seen, Recorded
  <1>3. \A p \in DOMAIN hits :
          hits[p] = announced[p] + Cardinality({t \in Deliverers : mcall[t].emit /\ p = M!Claim(t)})
    BY <1>0 DEF Typed, Balanced, Spoken, Emitting
  <1>4. A!TechniquesDetected + SumFunction([t \in Deliverers |-> Len(job[t].found) + Found[t]])
          = SumFunction(announced)
    <2>1. DOMAIN announced = M!Hits /\ DOMAIN Held = Deliverers
      BY <1>0 DEF Typed, Held
    <2>2. A!TechniquesDetected = Sum(techniques, DOMAIN techniques)
      BY SumsAgree DEF A!TechniquesDetected
    <2>3. SumFunction(Held) = Sum(Held, Deliverers) /\ SumFunction(announced) = Sum(announced, M!Hits)
      BY <2>1, SumsAgree
    <2>4. A!TechniquesDetected + SumFunction(Held) = SumFunction(announced)
      BY <1>0, <2>2, <2>3 DEF Balanced, Told
    <2> QED BY <2>4 DEF Held
  <1>5. \A tn \in Tenants :
          A!TotalDetections(tn) =
            SumFunctionOnSet(detections, {d \in DOMAIN detections : TenantOf[d] = tn})
    BY <1>0, DetectionsOfTenant
  <1>6. M!Coverage <= 100
    BY <1>0, CoverageAtMost
  <1> QED BY <1>1, <1>2, <1>3, <1>4, <1>5, <1>6, WithinAddsUp DEF SummaryAddsUp

(* Copies are counted one by one.                                          *)
LEMMA NumberIs ==
  ASSUME Typed, Copying, NEW S \in SUBSET DOMAIN copies
  PROVE  IsFiniteSet(S) /\ A!Number(S) = Cardinality(S)
  <1>1. IsFiniteSet(S)
    BY BagsCount, FS_Subset DEF Counts
  <1>2. \A c \in S : copies[c] = 1
    BY DEF Copying
  <1>3. Sum(copies, S) = Cardinality(S)
    BY <1>1, <1>2, SumOfOnes
  <1>4. A!Number(S) = Sum(copies, S)
    BY SumsAgree DEF A!Number
  <1> QED BY <1>1, <1>3, <1>4

LEMMA InvHonest == Inv => CopiesHonest
  <1> SUFFICES ASSUME Inv PROVE CopiesHonest
    OBVIOUS
  <1>0. Typed /\ Copying
    BY DEF Inv
  <1>1. \A c \in DOMAIN copies : copies[c] = 1 /\ c.status \in I!AuditedOf(c.id) /\ c.detection = origin[c.id]
    BY <1>0 DEF Copying
  <1>2. ASSUME NEW tn \in Tenants
        PROVE  LET of == {i \in Ids : \E c \in A!TenantCopies(tn) : c.id = i}
               IN  Cardinality(of) <= A!TotalIncidents(tn)
    <2> DEFINE of == {i \in Ids : \E c \in A!TenantCopies(tn) : c.id = i}
               S == A!TenantCopies(tn)
               f == [c \in S |-> c.id]
    <2>1. S \in SUBSET DOMAIN copies
      BY DEF A!TenantCopies
    <2>2. IsFiniteSet(S) /\ A!TotalIncidents(tn) = Cardinality(S)
      BY <1>0, <2>1, NumberIs DEF A!TotalIncidents
    <2>3. \A c \in S : c.id \in Ids
      BY <1>0, <2>1, CopyIs
    <2>4. f \in Surjection(S, of)
      <3>1. f \in [S -> of]
        BY <2>3
      <3>2. \A i \in of : \E c \in S : f[c] = i
        OBVIOUS
      <3> QED BY <3>1, <3>2 DEF Surjection
    <2> HIDE DEF f, S
    <2>5. Cardinality(of) <= Cardinality(S)
      BY <2>2, <2>4, FS_Surjection
    <2> QED BY <2>2, <2>5
  <1>3. ASSUME NEW tn \in Tenants
        PROVE  LET open == {i \in Ids : /\ status[i] \in {"Open", "Investigating"}
                                        /\ origin[i] # None /\ TenantOf[origin[i]] = tn
                                        /\ ~\E t \in Deliverers : At(t, "incidents") /\ job[t].id = i}
               IN  Cardinality(open) <= A!OpenIncidents(tn)
    <2> DEFINE open == {i \in Ids : /\ status[i] \in {"Open", "Investigating"}
                                    /\ origin[i] # None /\ TenantOf[origin[i]] = tn
                                    /\ ~\E t \in Deliverers : At(t, "incidents") /\ job[t].id = i}
               S == {c \in A!TenantCopies(tn) : c.status \in {"Open", "Investigating"}}
               f == [i \in open |-> A!Copy(i, "Open", origin[i])]
    <2>1. S \in SUBSET DOMAIN copies
      BY DEF A!TenantCopies
    <2>2. IsFiniteSet(S) /\ A!OpenIncidents(tn) = Cardinality(S)
      BY <1>0, <2>1, NumberIs DEF A!OpenIncidents
    <2>3. ASSUME NEW i \in open PROVE f[i] \in S /\ f[i].id = i
      <3>1. A!Copy(i, "Open", origin[i]) \in DOMAIN copies
        BY <1>0 DEF Copying
      <3>2. f[i] = A!Copy(i, "Open", origin[i])
        OBVIOUS
      <3>3. f[i].id = i /\ f[i].status = "Open" /\ f[i].detection = origin[i]
        BY <3>2, CopyFields
      <3>4. TenantOf[origin[i]] = tn
        OBVIOUS
      <3> HIDE DEF f, open
      <3> QED BY <3>1, <3>2, <3>3, <3>4 DEF A!TenantCopies
    <2>4. f \in Injection(open, S)
      <3>1. f \in [open -> S]
        <4> HIDE DEF open, S
        <4> QED BY <2>3
      <3>2. \A i, j \in open : f[i] = f[j] => i = j
        <4> HIDE DEF open, f, S
        <4> QED BY <2>3
      <3> HIDE DEF open, f, S
      <3> QED BY <3>1, <3>2 DEF Injection, IsInjective
    <2> HIDE DEF f, S
    <2>5. Cardinality(open) <= Cardinality(S)
      BY <2>2, <2>4, FS_Injection
    <2> QED BY <2>2, <2>5
  <1> QED BY <1>1, <1>2, <1>3 DEF CopiesHonest

-----------------------------------------------------------------------------
(***************************************************************************)
(* Nothing that is recorded is taken back.                                 *)
(***************************************************************************)
Within(B, D) == DOMAIN B \subseteq DOMAIN D /\ \A x \in DOMAIN B : B[x] <= D[x]

LEMMA WithinSame == \A B, S : IsBag(B, S) => Within(B, B)
  BY DEF IsBag, Within

LEMMA WithinAdd ==
  ASSUME NEW B, NEW S, IsBag(B, S), NEW c \in S
  PROVE  Within(B, B (+) SetToBag({c}))
  <1> DEFINE D == B (+) SetToBag({c})
  <1>1. /\ IsBag(D, S) /\ DOMAIN D = DOMAIN B \cup {c}
        /\ \A x \in DOMAIN B : D[x] = B[x] + (IF x = c THEN 1 ELSE 0)
        /\ c \notin DOMAIN B => D[c] = 1
    BY BagAdd
  <1> HIDE DEF D
  <1>2. Within(B, D)
    BY <1>1 DEF Within, IsBag
  <1> QED BY <1>2 DEF D

LEMMA BooksGrow ==
  ASSUME Inv, Next
  PROVE  Within(copies, copies') /\ Within(detections, detections') /\ Within(techniques, techniques')
  <1>0. Typed /\ Incid /\ Copying
    BY DEF Inv
  <1>1. ASSUME UNCHANGED avars
        PROVE  Within(copies, copies') /\ Within(detections, detections') /\ Within(techniques, techniques')
    BY <1>0, <1>1, WithinSame DEF Typed, avars
  <1>2. ASSUME NEW t \in Threads, RecordIncident(t)
        PROVE  Within(copies, copies') /\ Within(detections, detections') /\ Within(techniques, techniques')
    <2>1. UNCHANGED <<detections, techniques>>
      BY <1>2 DEF RecordIncident, A!RecordIncident
    <2>2. Within(copies, copies')
      <3>1. DOMAIN copies \subseteq DOMAIN copies' /\ \A c \in DOMAIN copies : copies'[c] = copies[c]
        BY <1>0, <1>2, RecordIncidentAdds
      <3>2. \A c \in DOMAIN copies : copies[c] \in Nat
        BY <1>0 DEF Typed, IsBag
      <3> QED BY <3>1, <3>2 DEF Within
    <2> QED BY <1>0, <2>1, <2>2, WithinSame DEF Typed
  <1>3. ASSUME NEW t \in Deliverers, RecordDetection(t)
        PROVE  Within(copies, copies') /\ Within(detections, detections') /\ Within(techniques, techniques')
    <2>1. UNCHANGED <<copies, techniques>> /\ detections' = detections (+) SetToBag({DetectionOf(t)})
      BY <1>3 DEF RecordDetection, A!RecordDetection, A!(+), (+), A!SetToBag, SetToBag
    <2>2. DetectionOf(t) \in Triggers
      BY <1>0, <1>3, RecordDetectionAdds
    <2>3. Within(detections, detections')
      BY <1>0, <2>1, <2>2, WithinAdd DEF Typed
    <2> QED BY <1>0, <2>1, <2>3, WithinSame DEF Typed
  <1>4. ASSUME NEW t \in Deliverers, RecordTechnique(t)
        PROVE  Within(copies, copies') /\ Within(detections, detections') /\ Within(techniques, techniques')
    <2> DEFINE q == Head(job[t].found)
    <2>1. q \in Techniques
      BY <1>0, <1>4, ThreadsApart DEF RecordTechnique, Typed, Jobs
    <2>2. UNCHANGED <<copies, detections>> /\ techniques' = techniques (+) SetToBag({q})
      BY <1>4 DEF RecordTechnique, A!RecordTechnique, A!(+), (+), A!SetToBag, SetToBag
    <2>3. Within(techniques, techniques')
      BY <1>0, <2>1, <2>2, WithinAdd DEF Typed
    <2> QED BY <1>0, <2>2, <2>3, WithinSame DEF Typed
  <1>5. \/ UNCHANGED avars
        \/ \E t \in Threads : RecordIncident(t)
        \/ \E t \in Deliverers : RecordDetection(t) \/ RecordTechnique(t)
    BY DEF Next, Deliver, Finish, CallMitre, InMitre, TakeTechniques, Move, KeepToOneself,
           InIncidents, MapDetection
  <1> QED BY <1>1, <1>2, <1>3, <1>4, <1>5

(* Nor do the sums over them fall.                                         *)
LEMMA SumGrows ==
  ASSUME NEW B, NEW D, Counts(B, DOMAIN B), Counts(D, DOMAIN D), Within(B, D),
         NEW S \in SUBSET DOMAIN B, NEW T \in SUBSET DOMAIN D, S \subseteq T
  PROVE  Sum(B, S) \in Nat /\ Sum(D, T) \in Nat /\ Sum(B, S) <= Sum(D, T)
  <1>1. Counts(B, S) /\ Counts(D, T)
    BY FS_Subset DEF Counts
  <1>2. \A x \in S : B[x] <= D[x]
    BY DEF Within
  <1> QED BY <1>1, <1>2, SumNat, SumMonotone

LEMMA Capped ==
  ASSUME NEW o \in Nat, NEW k \in Nat, NEW d \in Nat, NEW q \in Nat,
         NEW p \in Nat, NEW l \in Nat, NEW e \in Nat, NEW r \in Nat,
         o <= p, k <= l, d <= e, q <= r, NEW x, NEW y,
         x = LET score == 2 * o + 5 * k + d + 3 * q IN IF score > 100 THEN 100 ELSE score,
         y = LET score == 2 * p + 5 * l + e + 3 * r IN IF score > 100 THEN 100 ELSE score
  PROVE  y >= x
  OBVIOUS

LEMMA BagsCountNext ==
  ASSUME Typed'
  PROVE  /\ Counts(copies', DOMAIN copies') /\ Counts(detections', DOMAIN detections')
         /\ Counts(techniques', DOMAIN techniques')
  BY CopiedFinite, HitsFinite, Finitely, FS_Subset DEF Typed, IsBag, Counts, Triggers

LEMMA ScoreGrows ==
  ASSUME Typed, Typed',
         Within(copies, copies'), Within(detections, detections'), Within(techniques, techniques'),
         NEW tn
  PROVE  A!ThreatScore(tn)' >= A!ThreatScore(tn)
  <1> DEFINE C == A!TenantCopies(tn)
             O == {c \in C : c.status \in {"Open", "Investigating"}}
             K == {c \in C : c.detection \in Critical}
             D == {d \in DOMAIN detections : \E c \in C : c.detection = d}
  <1>1. /\ Counts(copies, DOMAIN copies) /\ Counts(detections, DOMAIN detections)
        /\ Counts(techniques, DOMAIN techniques)
    BY BagsCount
  <1>2. /\ Counts(copies', DOMAIN copies') /\ Counts(detections', DOMAIN detections')
        /\ Counts(techniques', DOMAIN techniques')
    BY BagsCountNext
  <1>3. C \subseteq DOMAIN copies /\ C' \subseteq DOMAIN copies' /\ C \subseteq C'
    BY DEF A!TenantCopies, Within
  <1>4. /\ O \in SUBSET DOMAIN copies /\ O' \in SUBSET DOMAIN copies' /\ O \subseteq O'
        /\ K \in SUBSET DOMAIN copies /\ K' \in SUBSET DOMAIN copies' /\ K \subseteq K'
        /\ D \in SUBSET DOMAIN detections /\ D' \in SUBSET DOMAIN detections' /\ D \subseteq D'
    BY <1>3 DEF Within
  <1>5. /\ A!OpenIncidents(tn) = Sum(copies, O) /\ A!OpenIncidents(tn)' = Sum(copies', O')
        /\ A!CriticalIncidents(tn) = Sum(copies, K) /\ A!CriticalIncidents(tn)' = Sum(copies', K')
        /\ A!TotalDetections(tn) = Sum(detections, D) /\ A!TotalDetections(tn)' = Sum(detections', D')
        /\ A!TechniquesDetected = Sum(techniques, DOMAIN techniques)
        /\ A!TechniquesDetected' = Sum(techniques', DOMAIN techniques')
    BY SumsAgree DEF A!OpenIncidents, A!CriticalIncidents, A!TotalDetections, A!TechniquesDetected, A!Number
  <1> HIDE DEF C, O, K, D
  <1>6. Sum(copies, O) \in Nat /\ Sum(copies', O') \in Nat /\ Sum(copies, O) <= Sum(copies', O')
    BY <1>1, <1>2, <1>4, SumGrows
  <1>7. Sum(copies, K) \in Nat /\ Sum(copies', K') \in Nat /\ Sum(copies, K) <= Sum(copies', K')
    BY <1>1, <1>2, <1>4, SumGrows
  <1>8. Sum(detections, D) \in Nat /\ Sum(detections', D') \in Nat /\ Sum(detections, D) <= Sum(detections', D')
    BY <1>1, <1>2, <1>4, SumGrows
  <1>9. /\ Sum(techniques, DOMAIN techniques) \in Nat /\ Sum(techniques', DOMAIN techniques') \in Nat
        /\ Sum(techniques, DOMAIN techniques) <= Sum(techniques', DOMAIN techniques')
    BY <1>1, <1>2, SumGrows DEF Within
  <1>10. A!ThreatScore(tn) =
           LET score == 2 * Sum(copies, O) + 5 * Sum(copies, K) + Sum(detections, D)
                          + 3 * Sum(techniques, DOMAIN techniques)
           IN  IF score > 100 THEN 100 ELSE score
    BY <1>5 DEF A!ThreatScore
  <1>11. A!ThreatScore(tn)' =
           LET score == 2 * Sum(copies', O') + 5 * Sum(copies', K') + Sum(detections', D')
                          + 3 * Sum(techniques', DOMAIN techniques')
           IN  IF score > 100 THEN 100 ELSE score
    BY <1>5 DEF A!ThreatScore
  <1> QED BY <1>6, <1>7, <1>8, <1>9, <1>10, <1>11, Capped

-----------------------------------------------------------------------------
(***************************************************************************)
(* The theorems.                                                           *)
(***************************************************************************)
(* The state of the engines and of their callers keeps its type.           *)
THEOREM TypeCorrect == Spec => []TypeOK
  <1>1. Inv => TypeOK
    BY TypedIsTypeOK DEF Inv
  <1> QED BY <1>1, InvAlways, PTL

(* SummaryAddsUp, for every number of threads, incidents, triggers and     *)
(* techniques: whatever the callers are in the middle of, the incident     *)
(* manager, the MITRE engine and the analytics account for one another.    *)
THEOREM BooksBalance == Spec => []SummaryAddsUp
  BY InvAlways, InvSummary, PTL

(* CopiesHonest: no copy shows a status its incident has not been given,   *)
(* and no open incident is missing from the totals of its tenant.          *)
THEOREM CopiesTrue == Spec => []CopiesHonest
  BY InvAlways, InvHonest, PTL

(* ScoreNeverFalls: recording only adds.                                   *)
THEOREM ScoreRises == Spec => ScoreNeverFalls
  <1>1. Inv /\ Inv' /\ [Next]_vars => [\A tn \in Tenants : A!ThreatScore(tn)' >= A!ThreatScore(tn)]_vars
    <2> SUFFICES ASSUME Inv, Inv', Next, NEW tn \in Tenants PROVE A!ThreatScore(tn)' >= A!ThreatScore(tn)
      OBVIOUS
    <2>1. Typed /\ Typed'
      BY DEF Inv
    <2> QED BY <2>1, BooksGrow, ScoreGrows
  <1> QED BY <1>1, InvAlways, PTL DEF Spec, ScoreNeverFalls
=============================================================================
