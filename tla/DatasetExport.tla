--------------------------- MODULE DatasetExport ---------------------------
(***************************************************************************)
(* "llm-log expert export-dataset" (llm_log/expert_cli.py): the outcomes   *)
(* of the knowledge base are read page by page                             *)
(* (expert/outcome-dataset-pagination.lisp), then joined with the rows of  *)
(* the corpus.  Meanwhile the proxy records events and outcomes and        *)
(* supersedes some: an export is no snapshot.                              *)
(***************************************************************************)
EXTENDS Naturals, Sequences, FiniteSets, SequencesExt, InOrder

CONSTANTS
  Assertions, \* assertions of the chosen outcome, in the order of their index keys
  Requests,  \* what an assertion may be about and the corpus may hold
  Foreign,   \* requests whose rows are in another corpus
  Task,      \* an assertion about a task
  Absent,
  Window,    \* candidates of a page (256)
  PageSize,  \* examples of a page (--page-size, at most 64)
  Options,   \* of the export, see OptionType
  MaxChanges \* bound on the changes of the knowledge base while the export runs

OptionType == [superseded : BOOLEAN,   \* --include-superseded
               max : Nat,              \* --max-examples
               missing : BOOLEAN]      \* --allow-missing-captures

ASSUME DatasetExportAssumption ==
  /\ Assertions \subseteq Nat \ {0} /\ IsFiniteSet(Assertions)
  /\ Foreign \subseteq Requests /\ Task \notin Requests
  /\ Absent \notin Requests \cup {Task} /\ Absent \notin Nat
  /\ Window \in Nat \ {0} /\ PageSize \in Nat \ {0}
  /\ Options \subseteq OptionType /\ MaxChanges \in Nat

VARIABLES
  about,    \* per stored assertion, its request or Task
  replaced, \* stored assertions that another one supersedes
  fits,     \* stored assertions that the filters on usage and classification accept
  rows,     \* the rows of events.jsonl
  partial,  \* a row is being written
  pc,       \* where the export is
  opts,     \* its options
  cursor,   \* where the next page begins; 0: at the start
  seen,     \* the cursors so far
  examples, \* the examples so far
  hashed,   \* how many rows the hash of the source covers
  captures, \* the requests whose rows were found
  changes,  \* how often the knowledge base has changed since it began
  due       \* history: assertions that the export must not miss

kbVars     == <<about, replaced, fits>>
corpusVars == <<rows, partial>>
exportVars == <<pc, opts, cursor, seen, examples, hashed, captures>>
dataVars == <<kbVars, corpusVars, exportVars, changes, due>>

Stored == {a \in Assertions : about[a] # Absent}

ExportTypeOK ==
  /\ about \in [Assertions -> Requests \cup {Task, Absent}]
  /\ replaced \subseteq Stored /\ fits \subseteq Stored
  /\ rows \in Seq(Requests) /\ partial \in Requests \cup {Absent}
  /\ pc \in {"off", "page", "stuck", "hash", "rows", "check", "done", "failed"}
  /\ opts \in Options \cup {Absent}
  /\ cursor \in Assertions \cup {0} /\ seen \subseteq Assertions
  /\ examples \in Seq(Assertions)
  /\ hashed \in Nat /\ captures \subseteq Requests
  /\ changes \in 0 .. MaxChanges /\ due \subseteq Assertions

ExportInit ==
  /\ about = [a \in Assertions |-> Absent] /\ replaced = {} /\ fits = {}
  /\ rows = <<>> /\ partial = Absent
  /\ pc = "off" /\ opts = Absent /\ cursor = 0 /\ seen = {}
  /\ examples = <<>> /\ hashed = 0 /\ captures = {}
  /\ changes = 0 /\ due = {}

-----------------------------------------------------------------------------
(* The proxy and its expert.                                               *)

BeginRow(r) ==
  /\ partial = Absent /\ r \notin ToSet(rows) \cup Foreign
  /\ partial' = r
  /\ UNCHANGED <<kbVars, rows, exportVars, changes, due>>

EndRow ==
  /\ partial # Absent
  /\ rows' = Append(rows, partial) /\ partial' = Absent
  /\ UNCHANGED <<kbVars, exportVars, changes, due>>

Change ==
  /\ pc # "off" => changes < MaxChanges
  /\ changes' = IF pc = "off" THEN 0 ELSE changes + 1

\* Mutant of Record: the event is ingested before its row is written.
RecordEarly(a, q, old, ok) ==
  /\ a \notin Stored
  /\ old = 0 \/ (old \in Stored \ replaced /\ about[old] = q)
  /\ about' = [about EXCEPT ![a] = q]
  /\ replaced' = replaced \cup ({old} \ {0})
  /\ fits' = IF ok THEN fits \cup {a} ELSE fits
  /\ Change
  /\ due' = IF pc = "page" /\ ~opts.superseded /\ old > cursor THEN due \ {old} ELSE due
  /\ UNCHANGED <<corpusVars, exportVars>>

\* An outcome is recorded, of a request that was captured before (DocumentsGrounded of
\* ExpertIngest), and supersedes an earlier one of the same scope, or none (NoForks of
\* KnowledgeBase).  Who supersedes what the export has not reached takes it off the list.
Record(a, q, old, ok) ==
  /\ a \notin Stored
  /\ q \in ToSet(rows) \cup Foreign \cup {Task}
  /\ old = 0 \/ (old \in Stored \ replaced /\ about[old] = q)
  /\ about' = [about EXCEPT ![a] = q]
  /\ replaced' = replaced \cup ({old} \ {0})
  /\ fits' = IF ok THEN fits \cup {a} ELSE fits
  /\ Change
  /\ due' = IF pc = "page" /\ ~opts.superseded /\ old > cursor THEN due \ {old} ELSE due
  /\ UNCHANGED <<corpusVars, exportVars>>

\* Usage or classifications of its request are stored later.
Fit(a) ==
  /\ a \in Stored \ fits
  /\ fits' = fits \cup {a}
  /\ Change
  /\ UNCHANGED <<about, replaced, corpusVars, exportVars, due>>

-----------------------------------------------------------------------------
(* query-outcome-dataset.                                                  *)

FirstOf(S, n) == {a \in S : Cardinality({b \in S : b < a}) < n}
Largest(S)    == CHOOSE a \in S : \A b \in S : b <= a

\* Mutant of Candidates: the cursor takes up one of the places.
CandidatesTight == FirstOf({a \in Stored : a >= cursor}, Window + 1) \ {cursor}

\* Mutant of Candidates: the cursor is a candidate again.
CandidatesAgain == FirstOf({a \in Stored : a >= cursor}, Window + 2)

\* The range of the index begins with the cursor, which is removed; one more than a window
\* tells whether more follow.
Candidates == FirstOf({a \in Stored : a >= cursor}, Window + 2) \ {cursor}

\* %outcome-dataset-candidate-p and the joined filters.
Accepted ==
  {a \in FirstOf(Candidates, Window) : a \in fits /\ (opts.superseded \/ a \notin replaced)}

\* Mutant of NextCursor: a full page goes on after its candidates.
NextCursorFar ==
  IF Cardinality(Accepted) > PageSize \/ Cardinality(Candidates) > Window
    THEN Largest(FirstOf(Candidates, Window)) ELSE 0

\* After the last match if the page could not hold all, or after the last candidate if there
\* are more; 0: the page is the last.
NextCursor ==
  IF Cardinality(Accepted) > PageSize THEN Largest(FirstOf(Accepted, PageSize))
  ELSE IF Cardinality(Candidates) > Window THEN Largest(FirstOf(Candidates, Window))
  ELSE 0

-----------------------------------------------------------------------------
(* _export_dataset.                                                        *)

BeginExport(o) ==
  /\ pc = "off"
  /\ pc' = "page" /\ opts' = o
  /\ due' = {a \in fits : o.superseded \/ a \notin replaced}
  /\ UNCHANGED <<kbVars, corpusVars, cursor, seen, examples, hashed, captures, changes>>

\* One page of _all_dataset_examples.
Page ==
  /\ pc = "page"
  /\ LET all == examples \o InOrder(FirstOf(Accepted, PageSize)) IN
       IF opts.max > 0 /\ Len(all) >= opts.max
         THEN /\ examples' = SubSeq(all, 1, opts.max)
              /\ pc' = "hash" /\ UNCHANGED <<cursor, seen>>
         ELSE /\ examples' = all
              /\ \/ NextCursor = 0 /\ pc' = "hash" /\ UNCHANGED <<cursor, seen>>
                 \/ /\ NextCursor # 0
                    /\ pc' = IF NextCursor \in seen THEN "stuck" ELSE "page"
                    /\ cursor' = NextCursor /\ seen' = seen \cup {NextCursor}
  /\ UNCHANGED <<kbVars, corpusVars, opts, hashed, captures, changes, due>>

Wanted == {about[a] : a \in ToSet(examples)} \ {Task}

\* _capture_map: the hash of the source first, then the rows, unless none are wanted.  A
\* row that is being written cannot be parsed.
Hash ==
  /\ pc = "hash"
  /\ hashed' = Len(rows)
  /\ pc' = IF Wanted = {} THEN "check" ELSE "rows"
  /\ UNCHANGED <<kbVars, corpusVars, opts, cursor, seen, examples, captures, changes, due>>

ReadRows ==
  /\ pc = "rows"
  /\ \/ partial = Absent /\ captures' = Wanted \cap ToSet(rows) /\ pc' = "check"
     \/ partial # Absent /\ pc' = "failed" /\ UNCHANGED captures
  /\ UNCHANGED <<kbVars, corpusVars, opts, cursor, seen, examples, hashed, changes, due>>

\* A request without its capture ends the export unless it is allowed.  The examples are
\* written, then the manifest with the hashes of source and output.
Write ==
  /\ pc = "check"
  /\ pc' = IF Wanted \subseteq captures \/ opts.missing THEN "done" ELSE "failed"
  /\ UNCHANGED <<kbVars, corpusVars, opts, cursor, seen, examples, hashed, captures, changes,
                 due>>

ExportNext ==
  \/ (\E r \in Requests : BeginRow(r)) \/ EndRow
  \/ \E a \in Assertions, q \in Requests \cup {Task}, old \in Assertions \cup {0}, ok \in BOOLEAN :
       Record(a, q, old, ok)
  \/ \E a \in Assertions : Fit(a)
  \/ \E o \in Options : BeginExport(o)
  \/ Page \/ Hash \/ ReadRows \/ Write

ExportSpec == ExportInit /\ [][ExportNext]_dataVars

-----------------------------------------------------------------------------
(* Properties.                                                             *)

\* Every assertion that was there and matched when the export began, and matched until the
\* export came to it, is in the dataset, although others were added, and taken away, on both
\* sides of the cursor: the export is never silently cut off.
ExportComplete ==
  (pc \notin {"off", "page", "failed"} /\ opts.max = 0) => due \subseteq ToSet(examples)

\* No assertion is exported twice and pages go forward, so the export ends once the
\* knowledge base no longer grows and never stops with a cursor that did not advance.
PagesAdvance ==
  /\ \A i, j \in DOMAIN examples : i < j => examples[i] < examples[j]
  /\ pc = "page" => /\ \A i \in DOMAIN examples : examples[i] <= cursor
                    /\ \A c \in seen : c <= cursor
  /\ pc # "stuck"

\* The state keeps its types and the pages advance through an index that grows meanwhile.
PagesSafe == ExportTypeOK /\ PagesAdvance

\* Every row that the dataset quotes is among those that the hash in its manifest covers,
\* although the corpus is hashed and read in two passes and grows between them.
ManifestCovers ==
  pc = "done" => captures \subseteq ToSet(SubSeq(rows, 1, hashed))
=============================================================================
