----------------------------- MODULE Selections -----------------------------
(***************************************************************************)
(* Some of a sequence, in its order: what a loop keeps that passes over    *)
(* the rest.                                                               *)
(***************************************************************************)
EXTENDS Naturals, FiniteSets

\* The place of index i among the indices I.
Rank(I, i) == Cardinality({j \in I : j <= i})

\* The elements of s at the indices I, in their order.
At(s, I) == [k \in 1..Cardinality(I) |-> s[CHOOSE i \in I : Rank(I, i) = k]]
=============================================================================
