----------------------------- MODULE MCRecorder -----------------------------
(* Small instances of Recorder for TLC.                                    *)
EXTENDS RecorderRefinement, TLC

\* Clients, events and frames are interchangeable.
Symmetry == Permutations(Clients) \cup Permutations(Events) \cup Permutations(Frames)
=============================================================================
