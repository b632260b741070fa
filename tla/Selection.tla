----------------------------- MODULE Selection -----------------------------
(***************************************************************************)
(* The members of a sequence at some of its places, in their order.  This  *)
(* is what SelectSeq gives for the places at which a test holds; it is     *)
(* written with sets so that it can be reasoned about.                     *)
(***************************************************************************)
EXTENDS Naturals, Sequences, FiniteSets

Rank(I, i) == Cardinality({j \in I : j <= i})

\* The members of a finite set of numbers, the smallest first.
InOrder(I) == [k \in 1..Cardinality(I) |-> CHOOSE i \in I : Rank(I, i) = k]

\* The members of s at the places I.  J is I: TLC evaluates a bound variable once, an
\* argument wherever it stands.
Selected(s, I) ==
    CHOOSE r \in {[k \in 1..Cardinality(J) |-> s[InOrder(J)[k]]] : J \in {I}} : TRUE

\* What g makes of those members of s that are in its domain.
Chosen(s, g) ==
    Selected([i \in 1..Len(s) |-> g[s[i]]], {i \in 1..Len(s) : s[i] \in DOMAIN g})
=============================================================================
