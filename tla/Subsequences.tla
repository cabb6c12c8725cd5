----------------------------- MODULE Subsequences -----------------------------
(***************************************************************************)
(* Filtering and sorting, as arrays are filtered and rows are selected and *)
(* ordered in this code.  SelectSeq and SortSeq say the same, but take     *)
(* operators, about which nothing can be proved.                           *)
(***************************************************************************)
EXTENDS Integers, Sequences, FiniteSets

\* The number of i among the indices.
Place(I, i) == Cardinality({j \in I : j <= i})

\* The elements of s at the indices.
Kept(s, I) == [n \in 1..Cardinality(I) |-> s[CHOOSE i \in I : Place(I, i) = n]]

\* The elements of a set in an order: upto[x] are x and those before it.
Listed(upto) ==
    [n \in 1..Cardinality(DOMAIN upto) |-> CHOOSE x \in DOMAIN upto : Cardinality(upto[x]) = n]
=============================================================================
