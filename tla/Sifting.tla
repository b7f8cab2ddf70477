------------------------------ MODULE Sifting ------------------------------
(***************************************************************************)
(* What Iterator::filter and Vec::retain make of a sequence.  It is what   *)
(* SelectSeq does, without its recursion over the sequence.                *)
(***************************************************************************)
EXTENDS Naturals, Sequences, FiniteSets

(* How many of the indices I there are up to n.                            *)
Rank(I, n) == Cardinality(I \cap 1..n)

(* The elements of s at the indices I, in their order: the k-th of them is *)
(* the one at the index of rank k.                                         *)
Sift(s, I) ==
  [k \in 1..Rank(I, Len(s)) |-> s[CHOOSE i \in I \cap 1..Len(s) : Rank(I, i) = k]]
============================================================================
