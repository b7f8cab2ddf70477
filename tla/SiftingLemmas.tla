--------------------------- MODULE SiftingLemmas ---------------------------
(***************************************************************************)
(* Facts about sifting a sequence and about counting in finite sets, which *)
(* the proofs about the engines use.                                       *)
(***************************************************************************)
EXTENDS Sifting, Integers, FiniteSetTheorems, TLAPS

(* A non-empty set of natural numbers has a least element.                 *)
LEMMA Least ==
  ASSUME NEW S \in SUBSET Nat, S # {}
  PROVE  \E m \in S : \A k \in S : m <= k
  <1> DEFINE T == {0..m : m \in S}
             R == StrictSubsetOrdering(Nat)
  <1>1. T \subseteq FiniteSubsetsOf(Nat) /\ T # {}
    <2>1. ASSUME NEW m \in S PROVE 0..m \in FiniteSubsetsOf(Nat)
      <3>1. IsFiniteSet(0..m)
        BY FS_Interval
      <3> QED BY <3>1 DEF FiniteSubsetsOf
    <2> QED BY <2>1
  <1>2. IsWellFoundedOn(R, FiniteSubsetsOf(Nat))
    BY FS_StrictSubsetOrderingWellFounded
  <1>3. PICK X \in T : \A Y \in T : <<Y, X>> \notin R
    BY <1>1, <1>2, WFMin
  <1>4. PICK m \in S : X = 0..m
    BY <1>3
  <1>5. ASSUME NEW k \in S, ~(m <= k) PROVE FALSE
    <2>1. 0..k \subseteq 0..m /\ 0..k # 0..m
      BY <1>5
    <2>2. <<0..k, 0..m>> \in R
      BY <2>1 DEF StrictSubsetOrdering
    <2> QED BY <1>3, <1>4, <2>2
  <1> QED BY <1>5

(* Sets that differ in one element at most differ by one at most.          *)
LEMMA OneOff ==
  ASSUME NEW S, NEW T, NEW x, IsFiniteSet(S), S \ {x} = T \ {x}
  PROVE  /\ IsFiniteSet(T)
         /\ Cardinality(S) \in Nat /\ Cardinality(T) \in Nat
         /\ Cardinality(T) + (IF x \in S THEN 1 ELSE 0) = Cardinality(S) + (IF x \in T THEN 1 ELSE 0)
  <1> DEFINE U == S \ {x}
  <1>1. /\ IsFiniteSet(U)
        /\ Cardinality(U) = IF x \in S THEN Cardinality(S) - 1 ELSE Cardinality(S)
    BY FS_RemoveElement
  <1>2. /\ IsFiniteSet(U \cup {x})
        /\ Cardinality(U \cup {x}) = Cardinality(U) + 1
    BY <1>1, FS_AddElement
  <1>3. T = U \/ T = U \cup {x}
    OBVIOUS
  <1>4. IsFiniteSet(T)
    BY <1>1, <1>2, <1>3
  <1>5. Cardinality(S) \in Nat /\ Cardinality(T) \in Nat /\ Cardinality(U) \in Nat
    BY <1>1, <1>4, FS_CardinalityType
  <1>6. CASE x \in T
    <2>1. T = U \cup {x}
      BY <1>6
    <2> QED BY <1>1, <1>2, <1>4, <1>5, <1>6, <2>1
  <1>7. CASE x \notin T
    <2>1. T = U
      BY <1>7
    <2> QED BY <1>1, <1>4, <1>5, <1>7, <2>1
  <1> QED BY <1>6, <1>7

LEMMA UpTo ==
  ASSUME NEW n \in Nat
  PROVE  IsFiniteSet(1..n) /\ Cardinality(1..n) = n
  <1>1. 1 \in Int /\ n \in Int
    OBVIOUS
  <1>2. IsFiniteSet(1..n) /\ Cardinality(1..n) = IF 1 > n THEN 0 ELSE n - 1 + 1
    BY <1>1, FS_Interval
  <1>3. (IF 1 > n THEN 0 ELSE n - 1 + 1) = n
    OBVIOUS
  <1> QED BY <1>2, <1>3

(* Taking the first element of a sequence, and putting one after another. *)
LEMMA HeadTail ==
  ASSUME NEW S, NEW s \in Seq(S), s # <<>>
  PROVE  /\ Head(s) \in S /\ Head(s) = s[1] /\ 1 \in 1..Len(s)
         /\ Tail(s) \in Seq(S) /\ Len(Tail(s)) = Len(s) - 1 /\ Len(s) \in Nat
         /\ \A n \in 1..Len(Tail(s)) : n + 1 \in 1..Len(s) /\ Tail(s)[n] = s[n + 1]
         /\ \A n \in 1..Len(s) : n # 1 => n - 1 \in 1..Len(Tail(s)) /\ Tail(s)[n - 1] = s[n]
  <1>1. Len(s) \in Nat /\ Len(s) > 0
    OBVIOUS
  <1>2. /\ Head(s) \in S /\ Head(s) = s[1]
        /\ Tail(s) \in Seq(S) /\ Len(Tail(s)) = Len(s) - 1
        /\ \A n \in 1..Len(Tail(s)) : Tail(s)[n] = s[n + 1]
    OBVIOUS
  <1> QED BY <1>1, <1>2

LEMMA ConcatElements ==
  ASSUME NEW S, NEW s \in Seq(S), NEW t \in Seq(S)
  PROVE  /\ s \o t \in Seq(S) /\ Len(s \o t) = Len(s) + Len(t)
         /\ \A n \in 1..Len(s) : n \in 1..Len(s \o t) /\ (s \o t)[n] = s[n]
         /\ \A n \in 1..Len(t) : Len(s) + n \in 1..Len(s \o t) /\ (s \o t)[Len(s) + n] = t[n]
         /\ \A n \in 1..Len(s \o t) : n \in 1..Len(s) \/ n - Len(s) \in 1..Len(t)
  OBVIOUS

(* The positions of a sequence at which it has one of the elements V.      *)
Places(s, V) == {n \in 1..Len(s) : s[n] \in V}

LEMMA PlacesFinite ==
  ASSUME NEW S, NEW s \in Seq(S), NEW V
  PROVE  IsFiniteSet(Places(s, V)) /\ Cardinality(Places(s, V)) \in Nat
  <1>1. Len(s) \in Nat /\ IsFiniteSet(1..Len(s))
    BY FS_Interval
  <1>2. IsFiniteSet(Places(s, V))
    BY <1>1, FS_Subset DEF Places
  <1> QED BY <1>2, FS_CardinalityType

(* One more element is one more place, if it is one of them.               *)
LEMMA PlacesAppend ==
  ASSUME NEW S, NEW s \in Seq(S), NEW x \in S, NEW V
  PROVE  Cardinality(Places(Append(s, x), V))
           = Cardinality(Places(s, V)) + (IF x \in V THEN 1 ELSE 0)
  <1> DEFINE n == Len(s) + 1
             P == Places(s, V)
             Q == Places(Append(s, x), V)
  <1>1. /\ Len(s) \in Nat /\ Len(Append(s, x)) = n /\ Append(s, x)[n] = x
        /\ \A k \in 1..Len(s) : Append(s, x)[k] = s[k]
    OBVIOUS
  <1>2. P \ {n} = Q \ {n} /\ n \notin P /\ (n \in Q <=> x \in V)
    BY <1>1 DEF Places
  <1> HIDE DEF P, Q, n
  <1>3. IsFiniteSet(P)
    BY PlacesFinite DEF P
  <1>4. Cardinality(Q) \in Nat /\ Cardinality(P) \in Nat
        /\ Cardinality(Q) + (IF n \in P THEN 1 ELSE 0) = Cardinality(P) + (IF n \in Q THEN 1 ELSE 0)
    BY <1>2, <1>3, OneOff
  <1>5. Cardinality(Q) = Cardinality(P) + (IF x \in V THEN 1 ELSE 0)
    BY <1>2, <1>4
  <1> QED BY <1>5 DEF P, Q

(* The places in two sequences after one another are those in either.      *)
LEMMA PlacesConcat ==
  ASSUME NEW S, NEW s \in Seq(S), NEW t \in Seq(S), NEW V
  PROVE  Cardinality(Places(s \o t, V)) = Cardinality(Places(s, V)) + Cardinality(Places(t, V))
  <1> DEFINE n == Len(s)
             P == Places(s, V)
             Q == Places(t, V)
             R == {k \in Places(s \o t, V) : k > n}
             f == [k \in Q |-> n + k]
  <1>1. /\ s \o t \in Seq(S) /\ n \in Nat /\ Len(t) \in Nat /\ Len(s \o t) = n + Len(t)
        /\ \A k \in 1..n : (s \o t)[k] = s[k]
        /\ \A k \in 1..Len(t) : (s \o t)[n + k] = t[k]
    OBVIOUS
  <1>2. Places(s \o t, V) = P \cup R /\ P \cap R = {}
    BY <1>1 DEF Places
  <1>3. \A k \in Q : k \in Nat /\ n + k \in R
    BY <1>1 DEF Places
  <1>4. ASSUME NEW k \in R PROVE k - n \in Q /\ n + (k - n) = k
    <2>1. k \in 1..(n + Len(t)) /\ k > n /\ (s \o t)[k] \in V
      BY <1>1 DEF Places
    <2>2. k - n \in 1..Len(t) /\ n + (k - n) = k
      BY <1>1, <2>1
    <2>3. t[k - n] = (s \o t)[k]
      BY <1>1, <2>2
    <2> QED BY <2>1, <2>2, <2>3 DEF Places
  <1>5. /\ IsFiniteSet(P) /\ Cardinality(P) \in Nat
        /\ IsFiniteSet(Q) /\ Cardinality(Q) \in Nat
    BY PlacesFinite
  <1> HIDE DEF P, Q, R, n
  <1>6. n \in Nat
    BY <1>1
  <1>7. f \in Injection(Q, R)
    BY <1>3, <1>6 DEF Injection, IsInjective
  <1>8. f \in Surjection(Q, R)
    BY <1>4, <1>7 DEF Injection, Surjection
  <1>9. IsFiniteSet(R) /\ Cardinality(R) = Cardinality(Q)
    BY <1>5, <1>7, <1>8, FS_Surjection
  <1>10. Cardinality(P \cup R) = Cardinality(P) + Cardinality(R) - Cardinality(P \cap R)
    BY <1>5, <1>9, FS_Union
  <1>11. Cardinality(P \cap R) = 0
    BY <1>2, FS_EmptySet
  <1>12. Cardinality(P \cup R) = Cardinality(P) + Cardinality(Q)
    BY <1>5, <1>9, <1>10, <1>11
  <1> QED BY <1>2, <1>12 DEF P, Q

(* One element taken from the front is one place less, if it is of these.  *)
LEMMA PlacesTail ==
  ASSUME NEW S, NEW s \in Seq(S), s # <<>>, NEW V
  PROVE  Cardinality(Places(Tail(s), V)) + (IF Head(s) \in V THEN 1 ELSE 0)
           = Cardinality(Places(s, V))
  <1> DEFINE P == Places(s, V)
             Q == Places(Tail(s), V)
             f == [k \in Q |-> k + 1]
  <1>1. /\ Tail(s) \in Seq(S) /\ Len(Tail(s)) = Len(s) - 1 /\ Len(s) \in Nat
        /\ \A k \in 1..Len(Tail(s)) : Tail(s)[k] = s[k + 1] /\ k + 1 \in 1..Len(s) /\ k + 1 # 1
        /\ Head(s) = s[1] /\ 1 \in 1..Len(s)
    OBVIOUS
  <1>2. \A k \in Q : k + 1 \in P \ {1}
    BY <1>1 DEF Places
  <1>3. /\ \A k \in Q : k \in Int
        /\ \A k \in P \ {1} : k \in Int /\ k - 1 \in Q
    BY <1>1 DEF Places
  <1>4. /\ IsFiniteSet(P) /\ Cardinality(P) \in Nat
        /\ IsFiniteSet(Q) /\ Cardinality(Q) \in Nat
    BY <1>1, PlacesFinite
  <1>5. 1 \in P <=> Head(s) \in V
    BY <1>1 DEF Places
  <1> HIDE DEF P, Q
  <1>6. f \in Bijection(Q, P \ {1})
    <2>1. f \in Injection(Q, P \ {1})
      BY <1>2, <1>3 DEF Injection, IsInjective
    <2>2. \A k \in P \ {1} : \E j \in Q : f[j] = k
      <3> TAKE k \in P \ {1}
      <3>1. k - 1 \in Q /\ (k - 1) + 1 = k
        BY <1>3
      <3> QED BY <3>1
    <2> QED BY <2>1, <2>2 DEF Bijection, Surjection, Injection
  <1>7. /\ IsFiniteSet(P \ {1})
        /\ Cardinality(P \ {1}) = IF 1 \in P THEN Cardinality(P) - 1 ELSE Cardinality(P)
    BY <1>4, FS_RemoveElement
  <1>8. Cardinality(Q) = Cardinality(P \ {1})
    <2>1. ExistsBijection(Q, P \ {1})
      BY <1>6 DEF ExistsBijection
    <2> QED BY <1>4, <2>1, FS_Bijection
  <1>9. Cardinality(Q) + (IF 1 \in P THEN 1 ELSE 0) = Cardinality(P)
    BY <1>4, <1>7, <1>8
  <1> QED BY <1>5, <1>9 DEF P, Q

-----------------------------------------------------------------------------
(***************************************************************************)
(* Sifting.                                                                *)
(***************************************************************************)
LEMMA RankStep ==
  ASSUME NEW I, NEW n \in Nat
  PROVE  /\ Rank(I, n) \in Nat /\ IsFiniteSet(I \cap 1..n)
         /\ Rank(I, n + 1) = Rank(I, n) + (IF n + 1 \in I THEN 1 ELSE 0)
  <1>1. IsFiniteSet(I \cap 1..n) /\ Cardinality(I \cap 1..n) \in Nat
    <2>1. IsFiniteSet(1..n)
      BY FS_Interval
    <2> QED BY <2>1, FS_Intersection, FS_CardinalityType
  <1>2. CASE n + 1 \in I
    <2>1. I \cap 1..(n + 1) = (I \cap 1..n) \cup {n + 1} /\ n + 1 \notin I \cap 1..n
      BY <1>2
    <2> QED BY <1>1, <1>2, <2>1, FS_AddElement DEF Rank
  <1>3. CASE n + 1 \notin I
    <2>1. I \cap 1..(n + 1) = I \cap 1..n
      BY <1>3
    <2> QED BY <1>1, <1>3, <2>1 DEF Rank
  <1> QED BY <1>1, <1>2, <1>3 DEF Rank

LEMMA RankNat == \A I : \A n \in Nat : Rank(I, n) \in Nat
  BY RankStep

LEMMA RankZero == \A I : Rank(I, 0) = 0
  BY FS_EmptySet DEF Rank

(* The rank grows.                                                         *)
LEMMA RankLess ==
  ASSUME NEW I, NEW m \in Nat, NEW n \in Nat, m < n, n \in I
  PROVE  Rank(I, m) < Rank(I, n)
  <1>1. IsFiniteSet(I \cap 1..n) /\ Rank(I, m) \in Nat /\ Rank(I, n) \in Nat
    BY RankStep
  <1>2. I \cap 1..m \subseteq I \cap 1..n /\ I \cap 1..m # I \cap 1..n
    OBVIOUS
  <1>3. Cardinality(I \cap 1..m) <= Cardinality(I \cap 1..n)
        /\ Cardinality(I \cap 1..m) # Cardinality(I \cap 1..n)
    BY <1>1, <1>2, FS_Subset
  <1> QED BY <1>1, <1>3 DEF Rank

(* The index of a rank.                                                    *)
LEMMA RankAttained ==
  ASSUME NEW I, NEW n \in Nat, NEW k \in 1..Rank(I, n)
  PROVE  /\ \E i \in I \cap 1..n : Rank(I, i) = k
         /\ \A i, j \in I \cap 1..n : Rank(I, i) = Rank(I, j) => i = j
  <1> DEFINE S == {i \in Nat : Rank(I, i) >= k}
  <1>1. PICK m \in S : \A i \in S : m <= i
    <2>1. n \in S
      BY RankStep
    <2> HIDE DEF S
    <2>2. S \subseteq Nat
      BY DEF S
    <2> QED BY <2>1, <2>2, Least
  <1>2. Rank(I, 0) = 0 /\ k \in Nat /\ k >= 1 /\ Rank(I, m) >= k /\ m <= n
    BY <1>1, RankZero, RankStep
  <1>3. m # 0
    BY <1>2
  <1>4. m - 1 \in Nat /\ m - 1 \notin S
    BY <1>1, <1>3
  <1>5. Rank(I, m - 1) < k /\ Rank(I, m - 1) \in Nat
    <2>1. ~(Rank(I, m - 1) >= k)
      BY <1>4
    <2>2. Rank(I, m - 1) \in Nat
      BY <1>4, RankNat
    <2> QED BY <1>2, <2>1, <2>2
  <1>6. Rank(I, m) = Rank(I, m - 1) + (IF m \in I THEN 1 ELSE 0)
    <2>1. Rank(I, (m - 1) + 1) = Rank(I, m - 1) + (IF (m - 1) + 1 \in I THEN 1 ELSE 0)
      BY <1>4, RankStep
    <2>2. (m - 1) + 1 = m
      BY <1>4
    <2> QED BY <2>1, <2>2
  <1>7. m \in I \cap 1..n /\ Rank(I, m) = k
    BY <1>2, <1>3, <1>5, <1>6
  <1>8. ASSUME NEW i \in I \cap 1..n, NEW j \in I \cap 1..n, Rank(I, i) = Rank(I, j)
        PROVE  i = j
    <2>1. i \in Nat /\ j \in Nat /\ Rank(I, i) \in Nat
      <3>1. i \in Nat /\ j \in Nat
        OBVIOUS
      <3> QED BY <3>1, RankNat
    <2>2. ~(i < j) /\ ~(j < i)
      BY <1>8, <2>1, RankLess
    <2> QED BY <2>1, <2>2
  <1> QED BY <1>7, <1>8

(* The index of the k-th element that is left.                             *)
IndexOf(I, n, k) == CHOOSE i \in I \cap 1..n : Rank(I, i) = k

LEMMA SiftChoice ==
  ASSUME NEW S, NEW s \in Seq(S), NEW I
  PROVE  /\ Rank(I, Len(s)) \in Nat
         /\ \A k \in 1..Rank(I, Len(s)) :
              IndexOf(I, Len(s), k) \in I \cap 1..Len(s) /\ Rank(I, IndexOf(I, Len(s), k)) = k
         /\ Sift(s, I) = [k \in 1..Rank(I, Len(s)) |-> s[IndexOf(I, Len(s), k)]]
         /\ Sift(s, I) \in Seq(S) /\ Len(Sift(s, I)) = Rank(I, Len(s))
  <1> DEFINE n == Len(s)
  <1>1. n \in Nat /\ Rank(I, n) \in Nat
    <2>1. n \in Nat
      OBVIOUS
    <2> QED BY <2>1, RankNat
  <1>2. ASSUME NEW k \in 1..Rank(I, n)
        PROVE  IndexOf(I, n, k) \in I \cap 1..n /\ Rank(I, IndexOf(I, n, k)) = k
    <2>1. \E i \in I \cap 1..n : Rank(I, i) = k
      BY <1>1, RankAttained
    <2> QED BY <2>1 DEF IndexOf
  <1>3. Sift(s, I) = [k \in 1..Rank(I, n) |-> s[IndexOf(I, n, k)]]
    BY DEF Sift, IndexOf
  <1>4. \A k \in 1..Rank(I, n) : s[IndexOf(I, n, k)] \in S
    BY <1>2
  <1>5. Sift(s, I) \in Seq(S) /\ Len(Sift(s, I)) = Rank(I, n)
    BY <1>1, <1>3, <1>4
  <1> QED BY <1>1, <1>2, <1>3, <1>5

(* Every index that is kept is that of some element that is left.          *)
LEMMA IndexOfRank ==
  ASSUME NEW I, NEW n \in Nat, NEW i \in I \cap 1..n
  PROVE  Rank(I, i) \in 1..Rank(I, n) /\ IndexOf(I, n, Rank(I, i)) = i
  <1>1. i \in Nat /\ i - 1 \in Nat
    OBVIOUS
  <1>2. Rank(I, i - 1) \in Nat /\ Rank(I, i) \in Nat /\ Rank(I, n) \in Nat
    BY <1>1, RankNat
  <1>3. Rank(I, i - 1) < Rank(I, i)
    BY <1>1, RankLess
  <1>4. Rank(I, i) <= Rank(I, n)
    <2>1. IsFiniteSet(I \cap 1..n) /\ I \cap 1..i \in SUBSET (I \cap 1..n)
      BY <1>1, RankStep
    <2> QED BY <2>1, FS_Subset DEF Rank
  <1>5. Rank(I, i) \in 1..Rank(I, n)
    BY <1>2, <1>3, <1>4
  <1>6. \A j \in I \cap 1..n : Rank(I, j) = Rank(I, i) => j = i
    BY <1>5, RankAttained
  <1> QED BY <1>5, <1>6 DEF IndexOf

(* What is sifted is what is at the indices, all of it and nothing else.   *)
LEMMA SiftProperties ==
  ASSUME NEW S, NEW s \in Seq(S), NEW I
  PROVE  /\ Sift(s, I) \in Seq(S)
         /\ \A k \in 1..Len(Sift(s, I)) : \E i \in I \cap 1..Len(s) : Sift(s, I)[k] = s[i]
         /\ \A i \in I \cap 1..Len(s) : \E k \in 1..Len(Sift(s, I)) : Sift(s, I)[k] = s[i]
  <1> DEFINE n == Len(s)
             At(k) == IndexOf(I, n, k)
  <1>1. n \in Nat /\ Rank(I, n) \in Nat
    BY SiftChoice
  <1>2. \A k \in 1..Rank(I, n) : At(k) \in I \cap 1..n
    BY SiftChoice
  <1>3. Sift(s, I) = [k \in 1..Rank(I, n) |-> s[At(k)]]
    BY SiftChoice
  <1>4. Sift(s, I) \in Seq(S) /\ Len(Sift(s, I)) = Rank(I, n)
    BY SiftChoice
  <1>5. \A i \in I \cap 1..n : Rank(I, i) \in 1..Rank(I, n) /\ At(Rank(I, i)) = i
    BY <1>1, IndexOfRank
  <1> HIDE DEF At
  <1> QED BY <1>2, <1>3, <1>4, <1>5

(* Elements that differ where they are sifted from differ still.           *)
LEMMA SiftInjective ==
  ASSUME NEW S, NEW s \in Seq(S), NEW I,
         \A i, j \in I \cap 1..Len(s) : s[i] = s[j] => i = j
  PROVE  \A k, l \in 1..Len(Sift(s, I)) : Sift(s, I)[k] = Sift(s, I)[l] => k = l
  <1>1. /\ Len(Sift(s, I)) = Rank(I, Len(s))
        /\ \A k \in 1..Rank(I, Len(s)) :
             /\ IndexOf(I, Len(s), k) \in I \cap 1..Len(s)
             /\ Rank(I, IndexOf(I, Len(s), k)) = k
             /\ Sift(s, I)[k] = s[IndexOf(I, Len(s), k)]
    BY SiftChoice
  <1> QED BY <1>1

(* As many elements of a kind are left as there were at the indices.       *)
LEMMA SiftCount ==
  ASSUME NEW S, NEW s \in Seq(S), NEW I, NEW V
  PROVE  /\ IsFiniteSet(I \cap Places(s, V))
         /\ Cardinality(Places(Sift(s, I), V)) = Cardinality(I \cap Places(s, V))
  <1> DEFINE n == Len(s)
             At(k) == IndexOf(I, n, k)
             P == Places(Sift(s, I), V)
             Q == I \cap Places(s, V)
             f == [k \in P |-> At(k)]
  <1>1. n \in Nat /\ Rank(I, n) \in Nat
    BY SiftChoice
  <1>2. \A k \in 1..Rank(I, n) : At(k) \in I \cap 1..n /\ Rank(I, At(k)) = k
    BY SiftChoice
  <1>3. Sift(s, I) = [k \in 1..Rank(I, n) |-> s[At(k)]] /\ Len(Sift(s, I)) = Rank(I, n)
    BY SiftChoice
  <1>4. \A i \in I \cap 1..n : Rank(I, i) \in 1..Rank(I, n) /\ At(Rank(I, i)) = i
    BY <1>1, IndexOfRank
  <1> HIDE DEF At
  <1>5. P = {k \in 1..Rank(I, n) : s[At(k)] \in V}
    BY <1>3 DEF Places
  <1>6. Q = {i \in I \cap 1..n : s[i] \in V}
    BY DEF Places
  <1>7. IsFiniteSet(Places(s, V))
    BY PlacesFinite
  <1>8. IsFiniteSet(Q)
    BY <1>7, FS_Intersection
  <1> HIDE DEF P, Q
  <1>9. f \in Injection(P, Q)
    BY <1>2, <1>5, <1>6 DEF Injection, IsInjective
  <1>10. f \in Surjection(P, Q)
    <2>1. f \in [P -> Q]
      BY <1>9 DEF Injection
    <2>2. ASSUME NEW i \in Q PROVE \E k \in P : f[k] = i
      <3>1. Rank(I, i) \in P /\ At(Rank(I, i)) = i
        BY <1>4, <1>5, <1>6
      <3> QED BY <3>1
    <2> QED BY <2>1, <2>2 DEF Surjection
  <1>11. Cardinality(P) = Cardinality(Q)
    BY <1>8, <1>9, <1>10, FS_Injection
  <1> QED BY <1>8, <1>11 DEF P, Q

(* No more elements are left than there were, of any kind.                 *)
LEMMA SiftCounts ==
  ASSUME NEW S, NEW s \in Seq(S), NEW I
  PROVE  /\ Len(Sift(s, I)) <= Len(s)
         /\ \A V : Cardinality(Places(Sift(s, I), V)) <= Cardinality(Places(s, V))
  <1>1. Len(s) \in Nat /\ Len(Sift(s, I)) = Rank(I, Len(s))
    BY SiftChoice
  <1>2. IsFiniteSet(1..Len(s)) /\ Cardinality(1..Len(s)) = Len(s)
    BY <1>1, UpTo
  <1>3. I \cap 1..Len(s) \in SUBSET (1..Len(s))
    OBVIOUS
  <1>4. Rank(I, Len(s)) <= Len(s)
    BY <1>2, <1>3, FS_Subset DEF Rank
  <1>5. ASSUME NEW V
        PROVE  Cardinality(Places(Sift(s, I), V)) <= Cardinality(Places(s, V))
    <2>1. Cardinality(Places(Sift(s, I), V)) = Cardinality(I \cap Places(s, V))
      BY SiftCount
    <2>2. IsFiniteSet(Places(s, V)) /\ I \cap Places(s, V) \in SUBSET Places(s, V)
      BY PlacesFinite
    <2>3. Cardinality(I \cap Places(s, V)) <= Cardinality(Places(s, V))
      BY <2>2, FS_Subset
    <2> QED BY <2>1, <2>3
  <1> QED BY <1>1, <1>4, <1>5

(* A finite set of n elements or more has a subset of just n.              *)
LEMMA SubsetOfSize ==
  ASSUME NEW T, IsFiniteSet(T), NEW n \in Nat, Cardinality(T) >= n
  PROVE  \E W \in SUBSET T : Cardinality(W) = n
  <1> DEFINE S == {k \in Nat : k >= n /\ \E W \in SUBSET T : Cardinality(W) = k}
  <1>1. Cardinality(T) \in S
    BY FS_CardinalityType
  <1>2. PICK m \in S : \A k \in S : m <= k
    <2> S \in SUBSET Nat /\ S # {}
      BY <1>1
    <2> HIDE DEF S
    <2> QED BY Least
  <1>3. PICK W \in SUBSET T : Cardinality(W) = m
    OBVIOUS
  <1>4. CASE m > n
    <2>1. IsFiniteSet(W) /\ W # {}
      BY <1>3, <1>4, FS_Subset, FS_EmptySet
    <2>2. PICK x : x \in W
      BY <2>1
    <2>3. Cardinality(W \ {x}) = m - 1
      BY <1>3, <2>1, <2>2, FS_RemoveElement
    <2>4. m - 1 \in S
      BY <1>4, <2>3
    <2> QED BY <1>2, <2>4
  <1>5. CASE m = n
    BY <1>3, <1>5
  <1> QED BY <1>4, <1>5

(* The elements of s that are in V, in their order: one more element is    *)
(* added at the end, if it is one of them.                                 *)
Picked(s, V) == Sift(s, Places(s, V))

LEMMA PickedEmpty == \A V : Picked(<<>>, V) = <<>>
  <1>1. ASSUME NEW V
        PROVE  Picked(<<>>, V) \in Seq({}) /\ Len(Picked(<<>>, V)) = 0
    <2> DEFINE s == <<>>
               I == Places(s, V)
    <2>1. s \in Seq({}) /\ Len(s) = 0
      OBVIOUS
    <2> HIDE DEF s, I
    <2>2. Sift(s, I) \in Seq({}) /\ Len(Sift(s, I)) = Rank(I, Len(s))
      BY <2>1, SiftChoice
    <2>3. Rank(I, Len(s)) = 0
      BY <2>1, RankZero
    <2> QED BY <2>2, <2>3 DEF Picked, I, s
  <1>2. ASSUME NEW t \in Seq({}), Len(t) = 0
        PROVE  t = <<>>
    BY <1>2
  <1> QED BY <1>1, <1>2

LEMMA PickedAppend ==
  ASSUME NEW S, NEW s \in Seq(S), NEW x \in S, NEW V
  PROVE  /\ Picked(s, V) \in Seq(S)
         /\ Picked(Append(s, x), V) = IF x \in V THEN Append(Picked(s, V), x) ELSE Picked(s, V)
  <1> DEFINE n == Len(s)
             t == Append(s, x)
             I == Places(s, V)
             J == Places(t, V)
  <1>1. /\ t \in Seq(S) /\ n \in Nat /\ Len(t) = n + 1 /\ t[n + 1] = x
        /\ \A k \in 1..n : t[k] = s[k] /\ k \in 1..(n + 1) /\ k # n + 1
        /\ \A k \in 1..(n + 1) : k # n + 1 => k \in 1..n
        /\ n + 1 \in 1..(n + 1)
    OBVIOUS
  <1>2. /\ I \subseteq 1..n /\ J \subseteq 1..(n + 1)
        /\ \A k \in 1..n : k \in I <=> k \in J
        /\ n + 1 \in J <=> x \in V
    BY <1>1 DEF Places
  <1>3. \A m \in 0..n : J \cap 1..m = I \cap 1..m
    BY <1>1, <1>2
  <1> DEFINE c == Rank(I, n)
  <1>4. c \in Nat /\ (\A m \in 0..n : Rank(J, m) = Rank(I, m))
        /\ Rank(J, n + 1) = c + (IF x \in V THEN 1 ELSE 0)
    <2>1. \A m \in 0..n : Rank(J, m) = Rank(I, m)
      BY <1>3 DEF Rank
    <2>2. Rank(J, n + 1) = Rank(J, n) + (IF n + 1 \in J THEN 1 ELSE 0) /\ Rank(J, n) \in Nat
      BY <1>1, RankStep
    <2>3. n \in 0..n
      BY <1>1
    <2> QED BY <1>2, <2>1, <2>2, <2>3
  <1>5. /\ Picked(s, V) = [k \in 1..c |-> s[IndexOf(I, n, k)]]
        /\ Picked(s, V) \in Seq(S) /\ Len(Picked(s, V)) = c
        /\ \A k \in 1..c : IndexOf(I, n, k) \in I \cap 1..n /\ Rank(I, IndexOf(I, n, k)) = k
    BY SiftChoice DEF Picked
  <1>6. /\ Picked(t, V) = [k \in 1..Rank(J, n + 1) |-> t[IndexOf(J, n + 1, k)]]
        /\ Picked(t, V) \in Seq(S) /\ Len(Picked(t, V)) = Rank(J, n + 1)
        /\ \A k \in 1..Rank(J, n + 1) :
             IndexOf(J, n + 1, k) \in J \cap 1..(n + 1) /\ Rank(J, IndexOf(J, n + 1, k)) = k
    <2>1. t \in Seq(S) /\ Len(t) = n + 1
      BY <1>1
    <2> HIDE DEF t, n, J
    <2>2. /\ Sift(t, J) = [k \in 1..Rank(J, Len(t)) |-> t[IndexOf(J, Len(t), k)]]
          /\ Sift(t, J) \in Seq(S) /\ Len(Sift(t, J)) = Rank(J, Len(t))
          /\ \A k \in 1..Rank(J, Len(t)) :
               IndexOf(J, Len(t), k) \in J \cap 1..Len(t) /\ Rank(J, IndexOf(J, Len(t), k)) = k
      BY <2>1, SiftChoice
    <2>3. Picked(t, V) = Sift(t, J)
      BY DEF Picked, J
    <2> QED BY <2>1, <2>2, <2>3
  <1> HIDE DEF I, J, n, c, t
  (* The index of an element that was there already is the same.           *)
  <1>7. ASSUME NEW k \in 1..c
        PROVE  /\ IndexOf(J, n + 1, k) = IndexOf(I, n, k) /\ IndexOf(I, n, k) \in 1..n
               /\ k \in 1..Rank(J, n + 1)
    <2> DEFINE i == IndexOf(I, n, k)
               j == IndexOf(J, n + 1, k)
    <2>1. k \in 1..Rank(J, n + 1)
      BY <1>4
    <2>2. i \in I \cap 1..n /\ Rank(I, i) = k
      BY <1>5
    <2>3. j \in J \cap 1..(n + 1) /\ Rank(J, j) = k
      BY <1>6, <2>1
    <2> HIDE DEF i, j
    <2>4. i \in J \cap 1..(n + 1) /\ i \in 0..n /\ i \in 1..n
      BY <1>1, <1>2, <2>2
    <2>5. Rank(J, i) = k
      BY <1>4, <2>2, <2>4
    <2>6. i = j
      <3>1. n + 1 \in Nat
        BY <1>1
      <3>2. \A a, b \in J \cap 1..(n + 1) : Rank(J, a) = Rank(J, b) => a = b
        BY <2>1, <3>1, RankAttained
      <3> QED BY <2>3, <2>4, <2>5, <3>2
    <2> QED BY <2>1, <2>4, <2>6 DEF i, j
  <1>8. CASE x \notin V
    <2>1. Rank(J, n + 1) = c
      BY <1>4, <1>8
    <2>2. \A k \in 1..c : t[IndexOf(J, n + 1, k)] = s[IndexOf(I, n, k)]
      BY <1>1, <1>7
    <2>3. Picked(t, V) = Picked(s, V)
      BY <1>5, <1>6, <2>1, <2>2
    <2> QED BY <1>5, <1>8, <2>3 DEF t
  <1>9. CASE x \in V
    <2> DEFINE u == Picked(s, V)
               v == Picked(t, V)
    <2>1. Rank(J, n + 1) = c + 1
      BY <1>4, <1>9
    <2>2. \A k \in 1..c : v[k] = u[k]
      <3>1. \A k \in 1..c : t[IndexOf(J, n + 1, k)] = s[IndexOf(I, n, k)]
        BY <1>1, <1>7
      <3> QED BY <1>5, <1>6, <1>7, <3>1
    <2>3. v[c + 1] = x
      <3>1. c + 1 \in 1..Rank(J, n + 1)
        BY <1>4, <2>1
      <3> DEFINE j == IndexOf(J, n + 1, c + 1)
      <3>2. j \in J \cap 1..(n + 1) /\ Rank(J, j) = c + 1 /\ v[c + 1] = t[j]
        BY <1>6, <3>1
      <3> HIDE DEF j
      <3>3. ASSUME j # n + 1 PROVE FALSE
        <4>1. j \in I /\ j \in 1..n /\ j \in 0..n /\ j \in Nat
          BY <1>1, <1>2, <3>2, <3>3
        <4>2. Rank(I, j) = c + 1
          BY <1>4, <3>2, <4>1
        <4>3. Rank(I, j) <= c
          <5>1. CASE j = n
            BY <1>4, <4>2, <5>1 DEF c
          <5>2. CASE j # n
            <6>1. Rank(I, j) = Cardinality(I \cap 1..j) /\ c = Cardinality(I \cap 1..n)
              BY DEF Rank, c
            <6>2. I \cap 1..j \subseteq I \cap 1..n
              BY <1>1, <4>1
            <6>3. IsFiniteSet(I \cap 1..n)
              BY <1>1, RankStep
            <6> QED BY <6>1, <6>2, <6>3, FS_Subset
          <5> QED BY <5>1, <5>2
        <4> QED BY <1>4, <4>2, <4>3
      <3> QED BY <1>1, <3>2, <3>3
    <2>4. u \in Seq(S) /\ v \in Seq(S) /\ Len(u) = c /\ Len(v) = c + 1
      BY <1>5, <1>6, <2>1
    <2> HIDE DEF u, v
    <2>5. v = Append(u, x)
      <3>1. Append(u, x) \in Seq(S) /\ Len(Append(u, x)) = c + 1
            /\ Append(u, x)[c + 1] = x /\ \A k \in 1..c : Append(u, x)[k] = u[k]
        BY <2>4
      <3> DEFINE y == Append(u, x)
      <3>2. \A k \in 1..(c + 1) : v[k] = y[k]
        BY <1>4, <2>2, <2>3, <3>1
      <3> HIDE DEF y
      <3>3. y \in Seq(S) /\ Len(y) = Len(v)
        BY <2>4, <3>1 DEF y
      <3>4. v = y
        BY <2>4, <3>2, <3>3
      <3> QED BY <3>4 DEF y
    <2> QED BY <1>5, <1>9, <2>5 DEF u, v, t
  <1> QED BY <1>8, <1>9

(* What is picked is what is there and in V.                               *)
OneOf(s, e) == \E k \in 1..Len(s) : s[k] = e

LEMMA PickedElements ==
  ASSUME NEW S, NEW s \in Seq(S), NEW V
  PROVE  /\ \A e : OneOf(Picked(s, V), e) <=> OneOf(s, e) /\ e \in V
         /\ Len(Picked(s, V)) = Cardinality(Places(s, V))
  <1>1. Places(s, V) \cap 1..Len(s) = Places(s, V)
    BY DEF Places
  <1>2. Len(Picked(s, V)) = Rank(Places(s, V), Len(s))
    BY SiftChoice DEF Picked
  <1>3. Len(Picked(s, V)) = Cardinality(Places(s, V))
    BY <1>1, <1>2 DEF Rank
  <1> DEFINE I == Places(s, V)
  <1>4. \A i : i \in I \cap 1..Len(s) <=> i \in 1..Len(s) /\ s[i] \in V
    BY DEF Places
  <1> HIDE DEF I
  <1>5. /\ \A k \in 1..Len(Sift(s, I)) : \E i \in I \cap 1..Len(s) : Sift(s, I)[k] = s[i]
        /\ \A i \in I \cap 1..Len(s) : \E k \in 1..Len(Sift(s, I)) : Sift(s, I)[k] = s[i]
    BY SiftProperties
  <1>6. Picked(s, V) = Sift(s, I)
    BY DEF Picked, I
  <1>7. \A e : OneOf(Picked(s, V), e) => OneOf(s, e) /\ e \in V
    BY <1>4, <1>5, <1>6 DEF OneOf
  <1>8. \A e : OneOf(s, e) /\ e \in V => OneOf(Picked(s, V), e)
    BY <1>4, <1>5, <1>6 DEF OneOf
  <1> QED BY <1>3, <1>7, <1>8
============================================================================
