-------------------------- MODULE MCHistoryImport --------------------------
EXTENDS HistoryImport, TLC

CONSTANTS t1, t2, t3, d1, d2

Row(kind, id, says, timed) == [kind |-> kind, id |-> id, says |-> says, timed |-> timed]

\* Messages that are repeated without an id, with and without a timestamp, a tool's output,
\* and a message that is revised, with a line separator or without.  What cannot be parsed
\* comes from texts that are cut short.
MCRows ==
  {Row("user", None, t1, TRUE), Row("assistant", None, t1, TRUE),
   Row("assistant", None, t1, FALSE), Row("output", d1, t2, TRUE),
   Row("assistant", d2, t1, TRUE), Row("assistant", d2, t3, TRUE)}

Symmetry == Permutations(Importers)
=============================================================================
