------------------------- MODULE RecorderRefinement -------------------------
(***************************************************************************)
(* RecorderActor implements CaptureLog: the log is the sequence of the     *)
(* events whose rows of events.jsonl are complete.                         *)
(***************************************************************************)
EXTENDS Recorder, InOrder

\* The numbers of the complete rows, and their events in the order of the file.
CompleteRows(rows) == {k \in DOMAIN rows : rows[k].whole}

LogOf(rows) ==
  LET complete == CompleteRows(rows) IN
    [n \in 1 .. Cardinality(complete) |-> rows[InOrder(complete)[n]].item]

Corpus == INSTANCE CaptureLog WITH log <- LogOf(jsonl)

\* Every step of the recorder, faults included, is a step of the log or leaves it alone:
\* appends stay in the order of the calls, nothing is written twice, a row that a failed
\* write left in the buffer may still be committed by close(), and a caller is
\* acknowledged only after the commit.
ImplementsCaptureLog == Corpus!Spec
=============================================================================
