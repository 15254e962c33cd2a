--------------------------- MODULE HistoryImport ---------------------------
(***************************************************************************)
(* llm_log/history.py: an exported session of OpenCode or Codex is turned  *)
(* into events and appended to the corpus by a process of its own, which   *)
(* holds an advisory lock meanwhile.  The session goes on, so it is        *)
(* exported and imported again and again; imports fail, are killed, and    *)
(* overlap.  No proxy writes to the corpus at the same time (the docstring *)
(* of import_history asks for that).                                       *)
(***************************************************************************)
EXTENDS Naturals, Sequences, FiniteSets, SequencesExt, InOrder

CONSTANTS
  Importers, \* operators, with one import at a time each
  Formats,   \* "codex", "opencode"
  Rows,      \* what the session may add, see RowType
  Ids,       \* ids of messages and tool calls
  Texts,     \* what they say, ids and timestamps aside
  Splitting, \* texts with a character that splitlines() splits at and JSON does not escape
  None,
  Bad,       \* a record that cannot be parsed
  Torn,      \* a row of the corpus that was cut short
  Faults,    \* "write": appending a row fails; "crash": an importer is killed
  MaxRows,   \* bound on the records of the session
  MaxRuns    \* bound on the imports

\* output: the output of a tool call; tool calls are like user messages.
Roles   == {"user", "assistant", "output"}
RowType == [kind : Roles, id : Ids \cup {None}, says : Texts, timed : BOOLEAN]
Events  == [id : [kind : Roles, id : Ids \cup {None}, nth : Nat, says : Texts \cup {None}],
            request : Seq([role : Roles, content : Texts]),
            response : [role : Roles, content : Texts]]

ASSUME HistoryImportAssumption ==
  /\ Formats \subseteq {"codex", "opencode"} /\ Rows \subseteq RowType \cup {Bad}
  /\ Bad \notin RowType /\ None \notin Ids \cup Texts /\ Splitting \subseteq Texts
  /\ Faults \subseteq {"write", "crash"} /\ MaxRows \in Nat /\ MaxRuns \in Nat
  /\ None \notin Importers /\ None \notin Events /\ Torn \notin Events

VARIABLES
  format,  \* of the session
  session, \* its records so far
  revised, \* history: a record was replaced after it had been exported
  corpus,  \* rows of events.jsonl
  lock,    \* the importer that has .history-import.lock, or None
  run,     \* per importer, the state of its import
  overlap, \* history: an importer took the lock before one that failed had closed its files
  runs

vars == <<format, session, revised, corpus, lock, run, overlap, runs>>

-----------------------------------------------------------------------------
(* normalize_history.                                                      *)

Parsed(row) == row # Bad
Message(row) == [role |-> row.kind, content |-> row.says]

\* OpenCode: an assistant message without a timestamp is a failure and in no context.
\* Codex: every message is in the context of the later ones.
InContext(row) == Parsed(row) /\ (format = "codex" \/ row.kind # "assistant" \/ row.timed)

\* Rows that become events once their timestamp is good; OpenCode has tools in its messages.
Answers(row) == Parsed(row) /\ row.kind \in {"assistant", "output"}

Context(s, n) ==
  LET before == InOrder({k \in 1 .. n - 1 : InContext(s[k])}) IN
    [k \in DOMAIN before |-> Message(s[before[k]])]

Same(a, b) == Answers(a) /\ Answers(b) /\ a.id = None /\ b.id = None /\ Message(a) = Message(b)

\* Mutant of Identity: equal messages without an id are not told apart.
IdentityOfContent(s, n) ==
  [kind |-> s[n].kind, id |-> s[n].id, nth |-> 0,
   says |-> IF s[n].id = None THEN s[n].says ELSE None]

\* What the UUID of an event is made of: the id; else the record, and for Codex, where equal
\* ones occur, how often it has occurred, whether or not it became an event.
Identity(s, n) ==
  [kind |-> s[n].kind, id |-> s[n].id,
   says |-> IF s[n].id = None THEN s[n].says ELSE None,
   nth  |-> IF s[n].id = None /\ format = "codex"
              THEN Cardinality({k \in 1 .. n : Same(s[k], s[n])}) ELSE 0]

Event(s, n) == [id |-> Identity(s, n), request |-> Context(s, n), response |-> Message(s[n])]

Batch(s) ==
  LET chosen == InOrder({n \in DOMAIN s : Answers(s[n]) /\ s[n].timed}) IN
    [k \in DOMAIN chosen |-> Event(s, chosen[k])]

BatchFailures(s) ==
  IF \E n \in DOMAIN s : ~Parsed(s[n]) \/ (Answers(s[n]) /\ ~s[n].timed)
    THEN {"invalid_record"} ELSE {}

\* A text that is read while it is written: Codex has a line cut short, OpenCode no document.
CutText(s) == IF format = "codex" THEN [s EXCEPT ![Len(s)] = Bad] ELSE <<Bad>>

Failures == {"invalid_record", "import_in_progress", "invalid_existing_corpus",
             "identity_conflict", "persistence_failed"}

TypeOK ==
  /\ format \in Formats /\ session \in Seq(RowType \cup {Bad}) /\ revised \in BOOLEAN
  /\ corpus \in Seq(Events \cup {Torn})
  /\ lock \in Importers \cup {None}
  /\ \A i \in Importers :
       /\ run[i].pc \in {"off", "opened", "import", "close", "done"}
       /\ run[i].text \in Seq(RowType \cup {Bad})
       /\ run[i].next \in Nat \ {0}
       /\ run[i].existing \subseteq Events
       /\ run[i].failures \subseteq Failures
       /\ run[i].rest \in Events \cup {None}
       /\ run[i].pc = "import" <=> lock = i
  /\ overlap \in BOOLEAN /\ runs \in 0 .. MaxRuns

Off == [pc |-> "off", text |-> <<>>, next |-> 1, existing |-> {}, failures |-> {}, rest |-> None]

Init ==
  /\ format \in Formats /\ session = <<>> /\ revised = FALSE
  /\ corpus = <<>> /\ lock = None
  /\ run = [i \in Importers |-> Off]
  /\ overlap = FALSE /\ runs = 0

-----------------------------------------------------------------------------
(* The session.                                                            *)

\* Ids are used once, and records without one differ, by their timestamps, in OpenCode.
Fresh(row) ==
  row # Bad => \A n \in DOMAIN session :
    session[n] # Bad => IF row.id = None THEN format = "opencode" => session[n] # row
                                         ELSE session[n].id # row.id

Grow(row) ==
  /\ Len(session) < MaxRows /\ Fresh(row)
  /\ format = "opencode" /\ row # Bad => row.kind # "output"
  /\ session' = Append(session, row)
  /\ UNCHANGED <<format, revised, corpus, lock, run, overlap, runs>>

\* OpenCode goes on writing the message that was exported last.
Revise(row) ==
  /\ format = "opencode" /\ session # <<>> /\ row # Bad /\ row # Last(session)
  /\ Last(session) # Bad /\ Last(session).id # None
  /\ row.id = Last(session).id /\ row.kind = Last(session).kind
  /\ session' = [session EXCEPT ![Len(session)] = row]
  /\ revised' = TRUE
  /\ UNCHANGED <<format, corpus, lock, run, overlap, runs>>

-----------------------------------------------------------------------------
(* import_history.                                                         *)

\* main: the text is read, and normalised, before the lock is taken.
Begin(i, text) ==
  /\ run[i].pc \in {"off", "done"} /\ runs < MaxRuns /\ session # <<>>
  /\ text \in {session, CutText(session)}
  /\ run' = [run EXCEPT ![i] = [Off EXCEPT !.pc = "opened", !.text = text,
                                           !.failures = BatchFailures(text)]]
  /\ runs' = runs + 1
  /\ UNCHANGED <<format, session, revised, corpus, lock, overlap>>

Says(e) == {e.response.content} \cup {e.request[k].content : k \in DOMAIN e.request}

\* Mutant of Readable: a row that cannot be parsed is passed over.
ReadableAnyway(row) == TRUE

Readable(row) == row # Torn /\ Says(row) \cap Splitting = {}

\* Mutant of Busy: the lock is not asked for.
BusyNever == FALSE

Busy == lock # None

Fails(r, code) == [r EXCEPT !.pc = "close", !.failures = @ \cup {code}]

\* flock without waiting, then the rows there are.
Lock(i) ==
  /\ run[i].pc = "opened"
  /\ \/ /\ Busy
        /\ run' = [run EXCEPT ![i] = Fails(@, "import_in_progress")]
        /\ UNCHANGED <<lock, overlap>>
     \/ /\ ~Busy /\ \E k \in DOMAIN corpus : ~Readable(corpus[k])
        /\ run' = [run EXCEPT ![i] = Fails(@, "invalid_existing_corpus")]
        /\ UNCHANGED <<lock, overlap>>
     \/ /\ ~Busy /\ \A k \in DOMAIN corpus : Readable(corpus[k])
        /\ lock' = i
        /\ run' = [run EXCEPT ![i].pc = "import", ![i].existing = ToSet(corpus) \ {Torn}]
        /\ overlap' = (overlap \/ \E j \in Importers : run[j].rest # None)
  /\ UNCHANGED <<format, session, revised, corpus, runs>>

\* Mutant of Conflicts: the content of an event that is there is not compared.
ConflictsNever(prior, e) == FALSE

Conflicts(prior, e) == prior.request # e.request \/ prior.response # e.response

\* What an append that did not finish leaves in the file: nothing or a prefix.
PartWritten(s) == {s, Append(s, Torn)}

\* One event of the batch, or the end of it.  When an append fails, what it had not written
\* stays in the buffer of the file, unless it was the Prolog fact that failed.
Import(i) ==
  LET r     == run[i]
      batch == Batch(r.text)
      e     == batch[r.next]
      prior == {p \in r.existing : p.id = e.id} IN
    /\ r.pc = "import"
    /\ \/ /\ r.next > Len(batch)
          /\ run' = [run EXCEPT ![i].pc = "close"] /\ lock' = None /\ UNCHANGED corpus
       \/ /\ r.next <= Len(batch) /\ prior # {}
          /\ run' = [run EXCEPT
               ![i].next = @ + 1,
               ![i].failures = IF \E p \in prior : Conflicts(p, e)
                                 THEN @ \cup {"identity_conflict"} ELSE @]
          /\ UNCHANGED <<lock, corpus>>
       \/ /\ r.next <= Len(batch) /\ prior = {}
          /\ \/ /\ corpus' = Append(corpus, e) /\ UNCHANGED lock
                /\ run' = [run EXCEPT ![i].next = @ + 1, ![i].existing = @ \cup {e}]
             \/ /\ "write" \in Faults /\ lock' = None
                /\ \/ /\ corpus' \in PartWritten(corpus)
                      /\ run' = [run EXCEPT ![i] = [Fails(@, "persistence_failed")
                                                      EXCEPT !.rest = e]]
                   \/ /\ corpus' = Append(corpus, e)
                      /\ run' = [run EXCEPT ![i] = Fails(@, "persistence_failed")]
    /\ UNCHANGED <<format, session, revised, overlap, runs>>

\* recorder.close(), after the lock has been given up: what is left in the buffer is
\* written, or part of it, or nothing.
Close(i) ==
  LET rest == run[i].rest
      torn == corpus # <<>> /\ Last(corpus) = Torn IN
    /\ run[i].pc = "close"
    /\ run' = [run EXCEPT ![i] = [Off EXCEPT !.pc = "done", !.text = run[i].text,
                                              !.failures = run[i].failures]]
    /\ \/ rest # None /\ torn /\ corpus' = [corpus EXCEPT ![Len(corpus)] = rest]
       \/ rest # None /\ ~torn /\ corpus' \in {Append(corpus, rest), Append(corpus, Torn)}
       \/ UNCHANGED corpus
    /\ UNCHANGED <<format, session, revised, lock, overlap, runs>>

\* The process is killed: the lock is gone, and so is what was in its buffer.
Crash(i) ==
  /\ "crash" \in Faults /\ run[i].pc \in {"opened", "import", "close"}
  /\ run' = [run EXCEPT ![i] = Off]
  /\ lock' = IF lock = i THEN None ELSE lock
  /\ corpus' \in IF run[i].pc = "import" THEN PartWritten(corpus) ELSE {corpus}
  /\ UNCHANGED <<format, session, revised, overlap, runs>>

Next ==
  \/ \E row \in Rows : Grow(row) \/ Revise(row)
  \/ \E i \in Importers : \/ Begin(i, session) \/ Begin(i, CutText(session))
                          \/ Lock(i) \/ Import(i) \/ Close(i) \/ Crash(i)

Spec == Init /\ [][Next]_vars

-----------------------------------------------------------------------------
(* Properties.                                                             *)

\* An event is in the corpus once, however often it is imported, from however different
\* exports, after failures and kills, and by importers that overlap.  The exception the code
\* has: the lock is given up before the files are closed, so a row that stayed in a buffer
\* may follow a second importer's.
EachOnce ==
  ~overlap => \A j, k \in DOMAIN corpus :
                (j # k /\ corpus[j] # Torn /\ corpus[k] # Torn) => corpus[j].id # corpus[k].id

\* The state keeps its types, the lock among it, and no event is doubled.
CorpusSafe == TypeOK /\ EachOnce

\* An import that reports no failure leaves every event of its text in the corpus as the
\* text has it: nothing that differs is taken for the same.
CleanMeansComplete ==
  \A i \in Importers :
    (run[i].pc = "done" /\ run[i].failures = {} /\ ~overlap) =>
      ToSet(Batch(run[i].text)) \subseteq ToSet(corpus)

\* While a session only grows, no export of it conflicts with an earlier one, be it older,
\* cut short or with records that failed: identities and contexts do not depend on what follows.
GrowthNeverConflicts ==
  ~revised => \A i \in Importers : "identity_conflict" \notin run[i].failures

\* No importer continues the line of a row that was cut short.
NothingAfterTorn ==
  ~overlap => \A k \in DOMAIN corpus : corpus[k] = Torn => k = Len(corpus)

=============================================================================
