----------------------------- MODULE MCReasoner -----------------------------
(* Small instances of Reasoner for TLC.                                    *)
EXTENDS Reasoner, TLC

Symmetry == Permutations(Requests)
=============================================================================
