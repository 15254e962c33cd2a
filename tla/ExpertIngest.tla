---------------------------- MODULE ExpertIngest ----------------------------
(***************************************************************************)
(* How captured events reach the knowledge base of the expert: the ingest  *)
(* task that the proxy starts for every event it has recorded              *)
(* (llm_log/proxy.py), and "llm-log expert backfill", which reads the      *)
(* corpus and posts its events to the admin listener of the same proxy     *)
(* (llm_log/expert_cli.py, expert_admin.py, expert_capture.py).  Both go   *)
(* through the one expert child of the proxy; ExpertAdapter shows that its *)
(* exchanges are serialised, so here an exchange is one step.  Several     *)
(* backfills may run; they share the checkpoint and its temporary file.    *)
(***************************************************************************)
EXTENDS Naturals, Sequences, FiniteSets, SequencesExt

CONSTANTS
  Events,     \* what the proxy captures, each once
  Captures,   \* what the events may hold: functions from Events to shapes
  Messages,   \* texts of user messages
  Runners,    \* operators that run the backfill, one run at a time each
  Options,    \* the options they may give it, see OptionType
  None, Torn, \* no value; a row or file that cannot be parsed
  Live, Gone, \* owners of a task: the proxy; a backfill that no longer waits
  Faults,     \* what may go wrong, see FaultKinds
  MaxStarts,  \* bound on the starts of the proxy
  MaxRuns     \* bound on the runs of the backfill

FaultKinds == {"refuse",    \* the service answers with an error
               "ambiguous", \* timeout, broken pipe, end of file or a malformed reply
               "kill",      \* the proxy is killed
               "stop",      \* a backfill is killed
               "slow"}      \* the client of the backfill gives up waiting

\* lines: the JSON values of the request body, one for a request of the HTTP API, one a frame
\* for a WebSocket: no text frame with an object in it, an object without user text, or its
\* user message.  text: the body is stored as text, not as base64.  old: before --since.
Lines      == Seq(Messages \cup {"other", "empty"})
ShapeType  == [lines : Lines, text : BOOLEAN, usage : BOOLEAN,
               mined : {"none", "some", "toomany"}, old : BOOLEAN]
OptionType == [since : BOOLEAN, limit : Nat, dry : BOOLEAN, continue : BOOLEAN,
               transport : BOOLEAN, file : BOOLEAN, fromStart : BOOLEAN]

ASSUME ExpertIngestAssumption ==
  /\ Captures \subseteq [Events -> ShapeType] /\ Options \subseteq OptionType /\ Faults \subseteq FaultKinds
  /\ MaxStarts \in Nat /\ MaxRuns \in Nat
  /\ None \notin Messages /\ Live \notin Runners /\ Gone \notin Runners /\ Live # Gone

VARIABLES
  shape,    \* what each event holds
  corpus,   \* the rows of events.jsonl
  writing,  \* the event whose row is being written
  cut,      \* the last row was cut short by a crash and has no newline
  recorded, \* history: events whose record() has returned
  proxy,    \* down, up, stopping (ingest tasks end), closed (the listener ends)
  plane,    \* the expert child can be asked
  tasks,    \* sequences of exchanges under way in the proxy
  docs,     \* what the knowledge base holds
  run,      \* per operator, the state of the backfill
  file,     \* the checkpoint file
  tmp,      \* its temporary file
  starts, runs

proxyVars == <<proxy, plane, starts>>
rowVars   == <<shape, corpus, writing, cut, recorded>>
fileVars  == <<file, tmp>>
vars == <<rowVars, proxyVars, tasks, docs, run, fileVars, runs>>

Steps == {"observe", "usage", "mined", "classify", "transport"}
Modes == [since : BOOLEAN, transport : BOOLEAN]
Files == [line : Nat, mode : Modes] \cup {None, Torn}
Doc   == [event : Events, step : Steps, says : Messages \cup {None}]
Task  == [owner : Runners \cup {Live, Gone}, event : Events, left : Seq(Steps)]

TypeOK ==
  /\ shape \in Captures
  /\ corpus \in Seq(Events \cup {Torn})
  /\ writing \in Events \cup {None} /\ cut \in BOOLEAN /\ recorded \subseteq Events
  /\ proxy \in {"down", "up", "stopping", "closed"} /\ plane \in BOOLEAN
  /\ tasks \subseteq Task /\ docs \subseteq Doc
  /\ \A b \in Runners :
       /\ run[b].pc \in {"off", "read", "wait", "truncate", "write", "replace",
                         "passed", "failed"}
       /\ run[b].opts \in Options \cup {None}
       /\ run[b].pos \in Nat /\ run[b].selected \in Nat /\ run[b].failed \in BOOLEAN
  /\ file \in Files /\ tmp \in Files
  /\ starts \in 0 .. MaxStarts /\ runs \in 0 .. MaxRuns

Off == [pc |-> "off", opts |-> None, pos |-> 0, selected |-> 0, failed |-> FALSE]

Init ==
  /\ shape \in Captures
  /\ corpus = <<>> /\ writing = None /\ cut = FALSE /\ recorded = {}
  /\ proxy = "down" /\ plane = FALSE /\ starts = 0
  /\ tasks = {} /\ docs = {}
  /\ run = [b \in Runners |-> Off]
  /\ file = None /\ tmp = None /\ runs = 0

-----------------------------------------------------------------------------
(* What is asked of the expert for an event.                               *)

\* The places of the lines that are one of the kinds.
Places(lines, kinds) == {i \in DOMAIN lines : lines[i] \in kinds}

\* The first of them, or none.
FirstLine(lines, kinds) ==
  LET found == Places(lines, kinds) IN
    IF found = {} THEN None ELSE lines[CHOOSE i \in found : \A j \in found : i <= j]

\* Mutant of ReplayMessage: the last user message of the frames.
LastMessage(e) ==
  LET found == Places(shape[e].lines, Messages) IN
    IF found = {} THEN None ELSE shape[e].lines[Max(found)]

\* extract_user_message, after decode_captured_body: the first user message there is.
ReplayMessage(e) == FirstLine(shape[e].lines, Messages)

\* _extract_user_message of the proxy: bodies stored as text only, and no line after the
\* first that holds an object.
LiveMessage(e) ==
  LET line == FirstLine(shape[e].lines, Messages \cup {"empty"}) IN
    IF ~shape[e].text \/ line = "empty" THEN None ELSE line

If(condition, step) == IF condition THEN <<step>> ELSE <<>>

\* _expert_ingest.  Mining raises when it finds too much, and the rest is not asked.
LiveSteps(e) ==
  <<"observe">> \o If(shape[e].usage, "usage") \o If(shape[e].mined = "some", "mined")
    \o If(shape[e].mined # "toomany" /\ LiveMessage(e) # None, "classify")

\* replay_capture_event.
ReplaySteps(e, transport) ==
  <<"observe">> \o If(ReplayMessage(e) # None, "classify") \o If(shape[e].usage, "usage")
    \o If(transport, "transport")

DocOf(t) ==
  LET step == Head(t.left) IN
    [event |-> t.event, step |-> step,
     says |-> IF step # "classify" THEN None
              ELSE IF t.owner = Live THEN LiveMessage(t.event) ELSE ReplayMessage(t.event)]

Has(e, step) == \E d \in docs : d.event = e /\ d.step = step

\* What the exchange stores: a classification projects the request, too.
Effect(t) ==
  {DocOf(t)} \cup IF Head(t.left) = "classify"
                   THEN {[event |-> t.event, step |-> "observe", says |-> None]} ELSE {}

\* A document is created, found as it is, or not changed; usage needs the request.
Accepts(d) ==
  /\ \A o \in docs : o.event = d.event /\ o.step = d.step => o = d
  /\ d.step = "usage" => Has(d.event, "observe")

-----------------------------------------------------------------------------
(* The backfill.                                                           *)

ModeOf(o) == [since |-> o.since, transport |-> o.transport]

\* Mutant of Checkpoint: the options under which it was written are not compared.
CheckpointOfAny(o) ==
  IF ~o.file \/ o.fromStart \/ file = None THEN 0
  ELSE IF file = Torn THEN None ELSE file.line

\* _read_checkpoint: the line to go on after; None when the run is refused.
Checkpoint(o) ==
  IF ~o.file \/ o.fromStart \/ file = None THEN 0
  ELSE IF file = Torn \/ file.mode # ModeOf(o) THEN None ELSE file.line

Begin(b, o) ==
  /\ run[b].pc \in {"off", "passed", "failed"} /\ runs < MaxRuns
  /\ Checkpoint(o) # None
  /\ run' = [run EXCEPT ![b] = [Off EXCEPT !.pc = "read", !.opts = o, !.pos = Checkpoint(o)]]
  /\ runs' = runs + 1
  /\ UNCHANGED <<rowVars, proxyVars, tasks, docs, fileVars>>

\* Mutant of Failed: a later success moves the checkpoint over the failure.
FailedOnce(r) ==
  IF r.opts.continue THEN [r EXCEPT !.pc = "read", !.pos = @ + 1] ELSE [r EXCEPT !.pc = "failed"]

\* The event at the next line was not replayed: the run ends, or goes on and leaves the
\* checkpoint alone from now on.
Failed(r) ==
  IF r.opts.continue THEN [r EXCEPT !.pc = "read", !.pos = @ + 1, !.failed = TRUE]
                     ELSE [r EXCEPT !.pc = "failed", !.failed = TRUE]

Replayed(r) ==
  [r EXCEPT !.pos = @ + 1, !.pc = IF r.opts.file /\ ~r.failed THEN "truncate" ELSE "read"]

\* The end of the loop: no more rows, or --limit.
Ended(r) == [r EXCEPT !.pc = IF r.failed THEN "failed" ELSE "passed"]

\* _iter_jsonl: a row that cannot be parsed ends the run, --continue-on-error or not.
Readable(n) == corpus[n] # Torn

\* --since, by _event_timestamp.
Chosen(since, e) == ~(since /\ shape[e].old)

\* The body of the loop over _iter_jsonl, up to the post.
NextLine(b) ==
  LET r == run[b]
      n == r.pos + 1
      o == r.opts IN
    /\ r.pc = "read"
    /\ \/ /\ n > Len(corpus)
          /\ run' = [run EXCEPT ![b] = Ended(r)] /\ UNCHANGED tasks
       \/ /\ n <= Len(corpus) /\ ~Readable(n)
          /\ run' = [run EXCEPT ![b].pc = "failed"] /\ UNCHANGED tasks
       \/ /\ n <= Len(corpus) /\ Readable(n)
          /\ LET e == corpus[n]
                 chosen == [r EXCEPT !.selected = @ + 1] IN
               \/ /\ ~Chosen(o.since, e)
                  /\ run' = [run EXCEPT ![b].pos = n] /\ UNCHANGED tasks
               \/ /\ Chosen(o.since, e) /\ o.limit > 0 /\ r.selected >= o.limit
                  /\ run' = [run EXCEPT ![b] = Ended(r)] /\ UNCHANGED tasks
               \/ /\ Chosen(o.since, e) /\ (o.limit = 0 \/ r.selected < o.limit)
                  /\ \/ /\ o.dry
                        /\ run' = [run EXCEPT ![b] = [chosen EXCEPT !.pos = n]]
                        /\ UNCHANGED tasks
                     \/ /\ ~o.dry /\ proxy = "down"
                        /\ run' = [run EXCEPT ![b] = Failed(chosen)] /\ UNCHANGED tasks
                     \/ /\ ~o.dry /\ proxy # "down"
                        /\ run' = [run EXCEPT ![b] = [chosen EXCEPT !.pc = "wait"]]
                        /\ tasks' = tasks \cup
                             {[owner |-> b, event |-> e, left |-> ReplaySteps(e, o.transport)]}
    /\ UNCHANGED <<rowVars, proxyVars, docs, fileVars, runs>>

\* _write_checkpoint: write the temporary file, which truncates it first, and rename it.
\* Another run may have renamed it already.
WriteCheckpoint(b) ==
  LET r == run[b] IN
    /\ \/ /\ r.pc = "truncate" /\ tmp' = Torn /\ UNCHANGED file
          /\ run' = [run EXCEPT ![b].pc = "write"]
       \/ /\ r.pc = "write" /\ UNCHANGED file
          /\ tmp' = [line |-> r.pos, mode |-> ModeOf(r.opts)]
          /\ run' = [run EXCEPT ![b].pc = "replace"]
       \/ /\ r.pc = "replace" /\ tmp # None
          /\ file' = tmp /\ tmp' = None
          /\ run' = [run EXCEPT ![b].pc = "read"]
       \/ /\ r.pc = "replace" /\ tmp = None
          /\ run' = [run EXCEPT ![b] = Failed([r EXCEPT !.pos = @ - 1])]
          /\ UNCHANGED fileVars
    /\ UNCHANGED <<rowVars, proxyVars, tasks, docs, runs>>

\* The handler of the listener goes on when the client has gone.
Abandoned(b) == {IF t.owner = b THEN [t EXCEPT !.owner = Gone] ELSE t : t \in tasks}

GiveUp(b) ==
  /\ "slow" \in Faults /\ run[b].pc = "wait"
  /\ run' = [run EXCEPT ![b] = Failed(run[b])]
  /\ tasks' = Abandoned(b)
  /\ UNCHANGED <<rowVars, proxyVars, docs, fileVars, runs>>

Stop(b) ==
  /\ "stop" \in Faults /\ run[b].pc \notin {"off", "passed", "failed"}
  /\ run' = [run EXCEPT ![b] = Off]
  /\ tasks' = Abandoned(b)
  /\ UNCHANGED <<rowVars, proxyVars, docs, fileVars, runs>>

-----------------------------------------------------------------------------
(* The proxy.                                                              *)

Start ==
  /\ proxy = "down" /\ starts < MaxStarts
  /\ proxy' = "up" /\ starts' = starts + 1
  /\ plane' \in BOOLEAN     \* the child may fail to start
  /\ UNCHANGED <<rowVars, tasks, docs, run, fileVars, runs>>

\* The recorder writes the row of an event, perhaps in several pieces.
BeginRow(e) ==
  /\ proxy = "up" /\ writing = None /\ e \notin recorded
  /\ writing' = e
  /\ corpus' = IF cut THEN corpus ELSE Append(corpus, Torn)
  /\ UNCHANGED <<shape, cut, recorded, proxyVars, tasks, docs, run, fileVars, runs>>

\* record() returns, then _schedule_expert_ingest.
EndRow ==
  /\ writing # None
  /\ corpus' = IF cut THEN corpus ELSE [corpus EXCEPT ![Len(corpus)] = writing]
  /\ cut' = FALSE /\ writing' = None /\ recorded' = recorded \cup {writing}
  /\ tasks' = tasks \cup {[owner |-> Live, event |-> writing, left |-> LiveSteps(writing)]}
  /\ UNCHANGED <<shape, proxyVars, docs, run, fileVars, runs>>

\* Mutant of Finish: after a failed step the next one is asked.
FinishNever(t, ok) ==
  IF Tail(t.left) # <<>>
    THEN /\ tasks' = (tasks \ {t}) \cup {[t EXCEPT !.left = Tail(@)]}
         /\ UNCHANGED run
    ELSE /\ tasks' = tasks \ {t}
         /\ run' = IF t.owner \in Runners
                     THEN [run EXCEPT ![t.owner] = IF ok THEN Replayed(@) ELSE Failed(@)]
                     ELSE run

\* Go on with the next exchange, or end and answer the client.
Finish(t, ok) ==
  IF ok /\ Tail(t.left) # <<>>
    THEN /\ tasks' = (tasks \ {t}) \cup {[t EXCEPT !.left = Tail(@)]}
         /\ UNCHANGED run
    ELSE /\ tasks' = tasks \ {t}
         /\ run' = IF t.owner \in Runners
                     THEN [run EXCEPT ![t.owner] = IF ok THEN Replayed(@) ELSE Failed(@)]
                     ELSE run

\* One exchange with the expert.  An error leaves the child in use; after an ambiguous end
\* nobody knows whether the service has done it, and the child is killed for good.
Exchange(t) ==
  LET d == DocOf(t) IN
    /\ \/ /\ plane /\ Accepts(d)
          /\ docs' = docs \cup Effect(t) /\ Finish(t, TRUE)
          /\ UNCHANGED plane
       \/ /\ plane /\ (~Accepts(d) \/ "refuse" \in Faults)
          /\ Finish(t, FALSE) /\ UNCHANGED <<docs, plane>>
       \/ /\ plane /\ "ambiguous" \in Faults
          /\ docs' = docs \/ (Accepts(d) /\ docs' = docs \cup Effect(t))
          /\ plane' = FALSE
          /\ Finish(t, FALSE)
       \/ ~plane /\ Finish(t, FALSE) /\ UNCHANGED <<docs, plane>>
    /\ UNCHANGED <<rowVars, proxy, starts, fileVars, runs>>

Serve == \E t \in tasks : Exchange(t)

\* cleanup: no request is under way any more; wait for the ingest tasks, close the child,
\* then the listener ends.
BeginStop ==
  /\ proxy = "up" /\ writing = None
  /\ proxy' = "stopping"
  /\ UNCHANGED <<rowVars, plane, starts, tasks, docs, run, fileVars, runs>>

ClosePlane ==
  /\ proxy = "stopping" /\ \A t \in tasks : t.owner # Live
  /\ proxy' = "closed" /\ plane' = FALSE
  /\ UNCHANGED <<rowVars, starts, tasks, docs, run, fileVars, runs>>

EndStop ==
  /\ proxy = "closed" /\ tasks = {}
  /\ proxy' = "down"
  /\ UNCHANGED <<rowVars, plane, starts, tasks, docs, run, fileVars, runs>>

\* The proxy is killed: its tasks are gone, connections break, a row may be cut short.
Kill ==
  /\ "kill" \in Faults /\ proxy # "down"
  /\ proxy' = "down" /\ plane' = FALSE /\ tasks' = {}
  /\ writing' = None /\ cut' = (cut \/ writing # None)
  /\ run' = [b \in Runners |-> IF run[b].pc = "wait" THEN Failed(run[b]) ELSE run[b]]
  /\ UNCHANGED <<shape, corpus, recorded, docs, starts, fileVars, runs>>

Next ==
  \/ \E b \in Runners : \/ \E o \in Options : Begin(b, o)
                        \/ NextLine(b) \/ WriteCheckpoint(b) \/ GiveUp(b) \/ Stop(b)
  \/ Start \/ (\E e \in Events : BeginRow(e)) \/ EndRow \/ Serve
  \/ BeginStop \/ ClosePlane \/ EndStop \/ Kill

Spec == Init /\ [][Next]_vars

-----------------------------------------------------------------------------
(* Properties.                                                             *)

Complete(e, transport) == \A s \in ToSet(ReplaySteps(e, transport)) : Has(e, s)

\* The first n rows can be read, and all that the options choose of them is in the
\* knowledge base.
Covered(n, mode) ==
  \A i \in 1 .. n :
    /\ i <= Len(corpus) /\ Readable(i)
    /\ Chosen(mode.since, corpus[i]) => Complete(corpus[i], mode.transport)

\* A checkpoint names a prefix of the corpus of which nothing is missing, whatever failed or
\* was killed, with --continue-on-error, with other options before, and with another run
\* that shares the file: the next run cannot skip an event.
CheckpointCovers == file \notin {None, Torn} => Covered(file.line, file.mode)

\* A backfill that reports no failure has left nothing out up to the row where it ended, the
\* rows that its checkpoint let it skip included.
SuccessCovers ==
  \A b \in Runners :
    (run[b].pc = "passed" /\ ~run[b].opts.dry) => Covered(run[b].pos, ModeOf(run[b].opts))

\* The proxy's ingest and backfills of the same event, however interleaved, never ask for
\* what the store refuses: the message they find is the same, and usage follows its request.
NeverRefused == \A t \in tasks : Accepts(DocOf(t))

\* The knowledge base has no document of an event whose record() has not returned, and none
\* but of requests that it holds: a later step is not asked after one that failed.
DocumentsGrounded == \A d \in docs : d.event \in recorded /\ Has(d.event, "observe")

\* The state keeps its types and the knowledge base rests on the corpus, whatever order
\* exchanges, failures and kills come in.
StoreSafe == TypeOK /\ DocumentsGrounded

=============================================================================
