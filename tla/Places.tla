------------------------------- MODULE Places -------------------------------
(***************************************************************************)
(* Places in a text, and the text that is left when others are dropped: a  *)
(* substitution by nothing of clean.py and normalize.py.                   *)
(***************************************************************************)
EXTENDS Naturals, FiniteSets

\* Which one of the places i is.
Rank(places, i) == Cardinality({k \in places : k <= i})
Nth(places, n) == CHOOSE i \in places : Rank(places, i) = n

\* What stands at some places of a text, in its order.
Sub(text, places) == [n \in 1..Cardinality(places) |-> text[Nth(places, n)]]
=============================================================================
