--------------------------- MODULE MCHttpExchange ---------------------------
(* Small instances of HttpExchange for TLC.                                *)
EXTENDS HttpExchange, TLC

Symmetry == Permutations(Exchanges) \cup Permutations(Keys)
=============================================================================
