--------------------------- MODULE MCExpertAdapter ---------------------------
(* Small instances of ExpertAdapter for TLC.                               *)
EXTENDS ExpertAdapter, TLC

\* Ingest calls are interchangeable, and so are the calls of the admin listener.
Symmetry == Permutations(Requests \ Admin) \cup Permutations(Admin)
=============================================================================
