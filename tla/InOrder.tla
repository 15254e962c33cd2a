------------------------------ MODULE InOrder ------------------------------
(***************************************************************************)
(* The numbers of a finite set as an increasing sequence.                  *)
(***************************************************************************)
EXTENDS Naturals, FiniteSets

\* How many numbers of S go up to n.
Rank(S, n) == Cardinality({m \in S : m <= n})

InOrder(S) == [k \in 1 .. Cardinality(S) |-> CHOOSE n \in S : Rank(S, n) = k]
=============================================================================
