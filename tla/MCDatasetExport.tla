--------------------------- MODULE MCDatasetExport ---------------------------
EXTENDS DatasetExport

\* A window of two candidates and pages of one example: full pages, sparse windows and both
\* ends of a window occur with four assertions.
MCOptions ==
  {[superseded |-> FALSE, max |-> 0, missing |-> FALSE],
   [superseded |-> TRUE, max |-> 2, missing |-> TRUE]}
=============================================================================
