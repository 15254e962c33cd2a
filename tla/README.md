# llm-log in TLA+

TLA+ modules for the parts of llm-log whose correctness depends on the order of
things: coroutines that share a queue and a lock, child processes behind pipes, circuits
shared by concurrent exchanges, relay tasks that are cancelled, a process that dies between
two writes, several operators that replay, import and export while the proxy goes on.  TLC
checks every module on small instances; TLAPS proves every safety and action property that the
passing runs check, and that the recorder implements its abstract log, for every number of callers,
exchanges, events and faults.

1. [The system](#1-the-system)
2. [Modules and code](#2-modules-and-code)
3. [Runs](#3-runs)
4. [Bounds and abstractions](#4-bounds-and-abstractions)
5. [Fairness](#5-fairness)
6. [Proofs](#6-proofs)
7. [Where the code and its documents disagree](#7-where-the-code-and-its-documents-disagree)
8. [Not modelled, and the plan](#8-not-modelled-and-the-plan)

To check one module: `tlc -config MCRecorder.cfg MCRecorder.tla`; to check the proofs of one:
`tlapm RecorderProofs.tla`.  The proofs about a module `X` are in `XProofs`, but those about
`WebSocketRelay` and `QuotaActor` in `ProxyTaskProofs`, and those about `HistoryImport` and
`DatasetExport` in `CorpusToolsProofs`.

## 1. The system

llm-log is a capturing proxy for LLM traffic.  A Python process (aiohttp, one event loop)
forwards HTTP and WebSocket exchanges to a provider, streams the answer to the client, and
appends one event per exchange to a corpus.  A Common Lisp child process, the expert
service, mines the events; it asks a SWI-Prolog worker for the conclusions.

    client ──► proxy handler ──► provider            (per exchange, concurrent)
                  │    └── FallbackPolicy: circuits, budget ──► fallback provider
                  ├── RecorderActor: queue ──► events.jsonl, events.pl, frames.jsonl
                  └── SubprocessExpertPlane ──pipe──► expert service (Lisp)
                                                        ├── knowledge base (Tek9 store)
                                                        └── supervisor ──pipe──► worker.pl
    admin listener ──► SubprocessExpertPlane, analytics, quotas
    expert CLI ──► admin listener: backfill of the corpus, dataset export
    history CLI ──► import of foreign histories ──► RecorderActor

| component | state | operations | interacts with | hard |
|---|---|---|---|---|
| Recorder, `llm_log/recorder.py` | queue, task, sticky failure, three append-only files | record, journal_frame, flush, close; `_run` | called by the handlers and the importer; shares `_state_lock` | failed and partial writes, cancellation of callers, close and reopen, crash |
| HTTP handler, `llm_log/proxy.py` | per exchange: route, body, attempts, commit | one handler, suspended at every await | provider connections, FallbackPolicy, recorder | retry before the commit, failure before and after it, concurrency |
| Fallback policy, `llm_log/routing.py` | circuits with expiry | circuit_open, mark_exhausted, request | shared by all exchanges | bounded table, expiry, denied budget |
| WebSocket relay, `llm_log/proxy.py` | frames of both directions, two tasks | handshake, relay, drain, record, cleanup | recorder (frames and event) | cancellation at every await, either end closes |
| Expert adapter, `llm_log/expert_adapter.py` | child process, exchange lock | start, `_request`, close | ingest tasks and admin queries; the expert service | replies without ids, timeout, late answers, close without the lock |
| Prolog supervisor, `expert/prolog-supervisor.lisp` | session, sequence, worker process | request, start, stop | worker.pl | deadline, stray lines, restart |
| Expert ingest, `llm_log/proxy.py`, `llm_log/expert_capture.py` | one task per recorded event | observe, usage, mine, classify | recorder, then the adapter | stops at its first failure; a backfill asks for the same, with another extraction of the message |
| Knowledge base and service, `expert/host.lisp`, `service.lisp`, `storage.lisp` | documents and secondary indexes of a transactional store, a revision counter | observe, classify, record outcome, history queries; one request at a time | adapter, supervisor | several transactions per request, idempotent replay, supersession, index migration |
| Accounting, `expert/*accounting*.lisp`, `*breakdowns*.lisp` | none (aggregates) | task, retry, outcome, usage reports | knowledge base | double counting |
| Outcome evidence and dataset, `expert/outcome*.lisp` | evidence, immutable outcome assertions and their supersession | record, decide, history, paginated export | knowledge base, supervisor | chains of assertions, a page of a growing set |
| Backfill, `llm_log/expert_cli.py`, `expert_admin.py` | checkpoint file and its temporary file | replay of the rows of the corpus in order | corpus, admin listener, and other backfills | interruption between replay and checkpoint, failures that are passed over, other options, two runs at once |
| Dataset export, `llm_log/expert_cli.py`, `expert/outcome-dataset-pagination.lisp` | cursor, examples so far | pages, hash of the corpus, read of the corpus, write | knowledge base, corpus | both grow meanwhile, on both sides of the cursor |
| History import, `llm_log/history.py` | file lock, identities of what was imported | normalise, lock, skip or append | recorder | re-import after a failure or a crash of a session that goes on; the lock is given up before the files are closed |
| Quotas, `llm_log/quotas.py` | next due time and state per provider, bounded inbox, child of the Codex adapter | refresh with back-off | providers | one read fails or is cancelled while the other has answered; the child must end with its call |
| Analytics, `llm_log/analytics.py` | semaphore of two | read-only scans | corpus | a client leaves while its scan runs |
| Bootstrap capture and forwarder, `expert/transport.lisp`, `proxy/*.lisp` | capture directories | one thread per connection | providers | two captures, one directory |

What makes each modelled component correct:

- **Recorder**: what was acknowledged is on disk and stays there; the Prolog facts never run
  ahead of the JSON rows; the corpus has no holes; rows are in call order, none twice; after
  a failure nothing is granted; every call is answered.
- **HTTP handler**: one answer reaches the client, none of it from an abandoned attempt; the
  event says what was sent, and contains the body that the client got; the fallback is asked
  once at most, with the consent of the budget and for a reason.
- **Fallback policy**: at most `max_circuits` circuits; an open one is evicted only for room,
  and then the one that expires first.
- **WebSocket relay**: a frame is journaled before it is sent on, the event contains all that
  was sent on, the end of one side ends the handler, and a cancellation does not lose the event.
- **Expert adapter**: a reply is taken by the request it was computed for, an ambiguous
  session ends, no child is left behind, calls and close return.
- **Prolog supervisor**: likewise, with request ids; at most one worker runs.
- **Knowledge base**: a document never changes and refers to documents that exist; every new one
  comes with a new revision; an index knows every document, whatever interrupted its migration;
  chains of outcomes do not fork; a request that was accepted may be sent again.
- **Ingest and backfill**: the knowledge base rests on what was recorded; a checkpoint names a
  prefix of the corpus of which nothing is missing, and so does a backfill that reports success;
  the two never ask for what the store refuses.
- **Export**: what matched throughout is in the dataset, nothing twice, and the hash in the
  manifest covers every row that is quoted.
- **History import**: an event is in the corpus once; an import that reports no failure is
  complete; a session that only grows never conflicts with what was imported of it before.
- **Quotas**: a refresh publishes its own answers only; a provider that asked to be left alone is
  left alone; no child outlives its call; every refresh ends.

## 2. Modules and code

| module | code | state and actions |
|---|---|---|
| `Recorder` | `RecorderActor`, recorder.py | `pc`, `call`, `reply` are the coroutines that call it, `lockq` the waiters of `_state_lock`, `queue` and `task` the fields `_queue` and `_task`, `failure` the local of `_run`; `jsonl`, `prolog`, `frames` the rows of the files, each complete or cut short; `pending` a row whose tail is in a writer's buffer.  `Record`, `JournalFrame`, `Flush`, `Close` are the four methods up to their first suspension, `Acquire`, `Return`, `Cancel` how a suspended call goes on; `OpenFiles`, `Reject`, `WriteRecord`, `WriteFrame`, `ServeFlush`, `ServeClose` are the branches of `_run`; `Crash` is the death of the process |
| `CaptureLog` | the promise of the corpus | an append-only log of events in the order of submission, and an acknowledgement that follows the commit |
| `RecorderRefinement` | | `Recorder` implements `CaptureLog`; the log, `LogOf(jsonl)`, is the events of the complete rows of events.jsonl in the order of the file |
| `InOrder` | | the numbers of a finite set in increasing order, as the places of a file are gone through; the definitions that the runs and the proofs of three modules share |
| `HttpExchange` | the HTTP handler of `build_app`, `FallbackPolicy` | per exchange the locals of the handler; `Begin`, `Headers`, `Buffer`, `Decide`, `Stream`, `Finish`, `Fail`, `Capture`, `Cancel` are what runs between two awaits; `CircuitOpen`, `MarkExhausted`, `Granted` are the methods of the policy |
| `WebSocketRelay` | `_proxy_websocket`, `_relay_websocket` | `main` is the await of the handler, `relay` that of each direction's task; frames are counted in three places: captured, journaled, forwarded |
| `ExpertAdapter` | `SubprocessExpertPlane`, and the read loop of service.lisp | `pc` and `lockq` the calls of `_request`, `child`, `stdin`, `stdout` the process and its pipes, `closer` where close() is; `Serve` is the child |
| `Reasoner` | `prolog-worker-request` and its helpers, `worker_loop` of worker.pl | `host` is where the request is, `session`, `sequence` the slots, `worker`, `input`, `output` the processes and pipes of every session launched so far |
| `KnowledgeBase` | host.lisp, storage.lisp, outcome.lisp, and the operations of service.lisp that write | `host` is the next transaction of the start or of the request that is served, `events`, `sources`, `labels`, `evidence`, `outcomes` the documents, `revision`, `index`, `marker` what the store keeps beside them.  `Start`, `Rebuild`, `Mark`, `Open` are start-expert-host; `ProjectEvent`, `ProjectSource`, `Derive`, `StoreLabel`, `RecordOutcome` the steps of the operations, a transaction each; `Depth` orders a history |
| `ExpertIngest` | `_schedule_expert_ingest`, `_expert_ingest` and start and stop of the proxy; the admin listener's backfill route; `_backfill`, `_read_checkpoint`, `_write_checkpoint`; expert_capture.py | `corpus`, `writing`, `cut` the file and the row that is being written; `tasks` the sequences of exchanges under way, of the proxy and of each backfill; `docs` what the knowledge base holds; `run` per operator the locals of `_backfill`; `file`, `tmp` the checkpoint.  `NextLine` is the body of the loop up to the post, `Exchange` one exchange of a task, `WriteCheckpoint` the truncation, the write and the rename; `Places` and `FirstLine` how a text is searched, `LiveMessage` and `ReplayMessage` the two extractions of the user message; `Kill`, `Stop`, `GiveUp` the deaths and the client's timeout |
| `DatasetExport` | `_export_dataset`, `_all_dataset_examples`, `_capture_map`; the dataset query | `about`, `replaced`, `fits` the assertions, which are superseded, and which the filters accept; `Candidates`, `Accepted`, `NextCursor` one query, `BeginExport` the request, `Page` the loop over it; `Hash`, `ReadRows`, `Write` the rest of the export; `due` remembers what it owes |
| `HistoryImport` | history.py | `session` grows and is exported; `run` per operator the locals of `import_history`; `Batch` (the chosen rows, `InOrder`), `Identity`, `Context` are the normalisation, `Lock`, `Import`, `Close` the import, `Crash` the death of an importer |
| `QuotaActor` | `QuotaActor.refresh`, the two adapters | `stage` where refresh() is, `call` per provider its task, `child` the Codex processes by the refresh that started them, `inbox` the queue; `Put` waits for room in it; `Apply` takes the answers one after the other (`Taken`) and publishes; `CancelRefresh`, `EndCancel` the handler of the cancellation; `notBefore` and `dropped` are history |
| `RecorderProofs`, `ReasonerProofs`, `ExpertAdapterProofs`, `HttpExchangeProofs`, `ProxyTaskProofs`, `KnowledgeBaseProofs`, `ExpertIngestProofs`, `CorpusToolsProofs` | | the theorems of section 6 |

An action is the code between two suspension points.  For Python these are the awaits that
really suspend: `put()` on an unbounded queue and the acquisition of a free asyncio.Lock do
not, and the models use that.  The Lisp host is single-threaded; its suspension points are the
waits for a pipe, and, in `KnowledgeBase`, where it may be killed, the end of each transaction.
The command lines are processes of their own; a step of theirs is one system call, or one request,
that another process can see.

The modules meet where one relies on what another shows.  `ExpertIngest` takes an exchange with the
expert as one step, because `ExpertAdapter` shows that exchanges are serialised and matched;
`DatasetExport` records outcomes about captured requests only (`DocumentsGrounded` of
`ExpertIngest`) and lets nothing be superseded twice (`NoForks` of `KnowledgeBase`);
`WebSocketRelay` and `HttpExchange` take the recorder as the order of its queue, which is what
`CaptureLog` promises and `RecorderRefinement` shows of `Recorder`.

The `MC` modules add symmetry sets and, where the inputs are records, which of them a run uses.
Operators whose comment starts with *Mutant* are variants of the definition that follows with a
plausible bug in it; nothing in a specification uses them.  They document what each property is
sensitive to.

## 3. Runs

| run | checks | shows |
|---|---|---|
| `recorder` | `TypeOK`, `AckedDurable`, `PrologHasSource`, `NoHoles`, `FailStop`, `ImplementsCaptureLog` | three callers, two events and a frame, any write or open may fail, one call is cancelled, one crash with restart: 2.0 million states |
| `recorder_live` | `CallsAnswered` | every call is answered, in spite of failing writes and a crash; the exception is a flush that is queued behind a close, which waits until some later call starts a new task |
| `recorder_torn` | `AckedReadable`, violated | section 7 |
| `reasoner` | `WorkersSafe`, `CorrelatedReplies`, `AnsweredOrStuck` | three requests, three sessions, seven kinds of fault: no stray or late line is mistaken for an answer, one worker runs and none is asked after a failure |
| `adapter` | `SessionsSafe`, `MatchedReplies`, `CallsEnd` | two ingest exchanges and one admin query around a close, with every fault of the child and cancelled callers |
| `http` | `FallbackSafe`, `RecordFaithful`, `OneAnswer`, `EvictsOnlyForRoom` | two concurrent exchanges over three keys and any table of at most two earlier circuits: 4.3 million states |
| `websocket` | `JournalSafe`, `EndRecorded`, `EitherEndEndsBoth` | one WebSocket, four frames a direction, failures at every await, two cancellations |
| `knowledge` | `ChainsSafe`, `Grounded`, `IndexComplete`, `AcceptedIsStored`, `AnswersHold` | any three requests on a store that is new or of an older version, killed between any two transactions: 2.6 million states |
| `ingest` | `StoreSafe`, `CheckpointCovers`, `SuccessCovers`, `NeverRefused` | two events recorded and ingested while up to two backfills with different options share the checkpoint; refusals, ambiguous ends, kills of the proxy and of the backfills, impatient clients: 1.9 million states |
| `dataset` | `PagesSafe`, `ExportComplete`, `ManifestCovers` | any four assertions, in pages of one out of windows of two, while one is added, superseded or comes to match and rows are appended: 1.3 million states |
| `history` | `CorpusSafe`, `CleanMeansComplete`, `GrowthNeverConflicts`, `NothingAfterTorn` | three imports by two operators of any session of up to three records out of six, of either format, read whole or cut short while it grows and is revised; failing writes and kills: 2.7 million states |
| `quota` | `RefreshSafe`, `NoChildLeft`, `BackOffRespected`, `RefreshEnds` | three refreshes of two providers, one with a child process, answered, timed out or cancelled at any point of four intervals: 0.6 million states |

The configuration of a run is the `.cfg` that has the name of its MC module (`MCRecorderLive.cfg`
and `MCRecorderTorn.cfg` for the other two of `MCRecorder`).  Where a property is a conjunction,
its parts are named definitions beside it: `WorkersSafe` is `TypeOK`, `OneWorker` and
`FailedWorkerNotReused`; `SessionsSafe` is `TypeOK`, `FailedSessionNotReused` and `NoOrphans`;
`CallsEnd` is `ExchangesEnd` and `CloseEnds`; `FallbackSafe` is `TypeOK`, `FallbackAuthorised` and
`CircuitsBounded`; `RecordFaithful` is `AttemptsMatchContacts` and `CaptureFidelity`; `JournalSafe` is
`TypeOK`, `JournaledBeforeForwarded` and `EventCoversForwarded`; `EndRecorded` is `CleanEnd` and
`CancelledIsRecorded`; `ChainsSafe` is `TypeOK`, `NoForks` and `HistoryFollowsChains`; `AnswersHold` is
`RevisionTellsChanges` and `ReplayAccepted`; `StoreSafe` is `TypeOK` and `DocumentsGrounded`;
`PagesSafe` is `ExportTypeOK` and `PagesAdvance`; `CorpusSafe` is `TypeOK` and `EachOnce`; `RefreshSafe` is
`QuotaTypeOK` and `OnlyOwnAnswers`.

All runs turn the deadlock check off: the systems may stop, since the requests of a run are finite
in number and each is made once.

## 4. Bounds and abstractions

- **Events, frames, requests** are model values, each used once: an event has a fresh uuid,
  so "twice" can only come from the code, not from the input.  Two events and a frame make
  every pair of kinds of message in the queue, in both orders; a third caller allows a close
  or flush between them, and waiters for the lock.
- **`MaxCrashes` = 1** in the recorder.  A restart begins with an empty queue and the files as
  they were, so a second crash meets no new kind of state; the proofs have no such bound, as
  `MaxCrashes` is any number there.
- **`MaxCancels`** = 1 in the recorder, 2 in the relay, where the second cancellation meets the
  clean-up after the first.
- **A crash** is the death of the process.  What was written stays, what was buffered is lost.
  The code calls no fsync, so the loss of power is outside what it promises.
- **A write** of a row succeeds, fails with nothing written, or is cut short; the rest of a
  row that was cut short stays in the writer's buffer, and the flush of close() may complete it.
- **`MaxChunks` = 2, `BufferLimit` = 1** in the HTTP exchange: a body of one chunk is inspected,
  one of two is too long to be, and one that is inspected and forwarded still streams a chunk.
  A chunk carries the number of the attempt that delivered it, which is all the properties ask.
- **`MaxTime` = 1, `Cooldown` = 2**: circuits that expire at 1, 2 or 3, so a table with two
  different expiries, an expired circuit, and a marked one that is younger than both.  The table
  starts as any table that earlier exchanges can have left.
- **Bodies that map or exhaust**: `fallback_policy.request` and `exhaustion` look at JSON; the
  model chooses their answer.  So the results hold whatever these two functions return.
- **`MaxSessions` = 3**: one more than is needed for a reply of a session to meet a later one.
- **`MaxFrames` = 4**: the relay is a loop without memory but its counters; two frames would do.
- **Pipes** are unbounded sequences.  A child that does not read is the fault "hang"; that the
  child's stderr is a pipe that nobody reads (expert_adapter.py:71) is one reason for it.
- **`MaxRequests` = 3** in the knowledge base: an outcome, one that supersedes it, and a third that
  supersedes either, repeats either, or is about the other scope; with the outcome that an older
  version may have left, chains of four.  **`MaxLabels` = 2** over one label: two assertions that
  agree or contradict each other; the code's bound is 32.
- **A transaction** of the Tek9 store happens as a whole or not at all and is durable
  (`:durability :full`); a rebuild of an index is none, and may stop anywhere.
- **Documents** are told apart by what the requests say.  The rules are functions of the stored
  source: `derived` remembers what they made of it, and `RecordOutcome` identifies a decision by
  its evidence.  A new version of the rules is outside the model (section 7).
- **`MaxStarts` = 2, `MaxRuns` = 2** in the ingest: the proxy is restarted once, and a second
  backfill follows the first or overlaps it, with other options.  Two events suffice for a row that
  fails and a later one that succeeds, which is where a checkpoint could lie.  The shapes of the
  events are those on which the two extractions of a message, usage, mining and `--since` differ.
- **`Window` = 2, `PageSize` = 1, four assertions, `MaxChanges` = 1** in the export: windows that hold
  fewer candidates, just as many, and one more, with and without the cursor among them; pages that
  cannot hold what a window accepts; and a change before, at and after the cursor.
- **`MaxRows` = 3, `MaxRuns` = 3** in the import: a message, its repetition and one after it; an import
  that fails, a second that overlaps it and a third that follows.  The six kinds of record are those
  that identities and contexts tell apart; a record that cannot be parsed comes from a text that
  was cut short.
- **`MaxTime` = 4, `MaxCalls` = 3, `Retries` = {2}** in the quotas: a back-off of two intervals that
  lies before, over and after the next two refreshes.  An interval is a tick; the two limits of
  a call, within the adapter and around it, are one timeout.
- **The filters of a dataset query** are a set of accepted assertions that only grows.
- **Credentials, headers, redaction, hashes, wording** are left out.

Some properties have an exception, because the code has it:
`CallsAnswered` excepts a flush behind a close; `MatchedReplies` holds as long as no exchange was
cancelled (a cancelled one leaves its reply in the pipe); `AnsweredOrStuck` excepts a worker that
stops within a line; `EachOnce`, `CleanMeansComplete` and `NothingAfterTorn` except an importer that
took the lock before one that failed had closed its files; `GrowthNeverConflicts` speaks of
sessions in which nothing that was exported is revised; `NoChildLeft` excepts an interruption while
the adapter waits for its child to end; `ExportComplete` owes nothing to an assertion that was
superseded before the export came to it.

## 5. Fairness

- **Recorder**: weak fairness of the actor, and of each caller's resumption.  asyncio runs every
  ready callback, and its lock and queue are FIFO.  That a caller makes a call, or that a
  fault happens, is never assumed.
- **Reasoner**: weak fairness of the host's own steps, its deadline included.  The worker owes
  nothing: it may stop anywhere.
- **Adapter**: weak fairness of the calls, of their one-second timer, of close() and its timers;
  and a process that got SIGKILL dies.  The child owes nothing else.
- **WebSocket**: weak fairness of the handler.  Neither the client nor the provider owes a frame.
- **Quotas**: weak fairness of what the event loop runs (`Apply`, `EndCancel`, `Put`), of the timers,
  and of the end of a process that got SIGKILL; the write of the snapshot returns.  Providers owe
  nothing.
- **Ingest, export, import, knowledge base**: safety only; each may be stopped at any point.
- **HTTP exchange**: no liveness is claimed: a provider may stream for as long as the total
  timeout allows, and the timeout is a fault that may happen.

## 6. Proofs

Every theorem holds for all constants that meet the named assumptions of its module: the
constants are sets of their kind, the bounds are naturals, the values that stand for nothing are
no members of the sets they stand beside, and the faults are known ones.  `NoneAssumption` of
`KnowledgeBase` says that `None` is no outcome; `HttpExchange` starts from any finite table of circuits.

| module | theorem | property | what it says |
|---|---|---|---|
| `RecorderProofs` | `TypeCorrect` | `TypeOK` | |
| | `AcknowledgedIsDurable` | `AckedDurable` | an event whose record() returned stays complete in both files |
| | `PrologFollowsJson` | `PrologHasSource` | no Prolog fact without its JSON row |
| | `CorpusHasNoHoles` | `NoHoles` | a complete row has all before it, frames included |
| | `FailureIsSticky` | `FailStop` | after a failure no record is granted |
| | `RecorderImplementsLog` | `ImplementsCaptureLog` | the complete rows grow as a log, in the order of the calls, and record() returns only for an event of it |
| `ReasonerProofs` | `RepliesCorrelated` | `CorrelatedReplies` | no request takes the answer to another |
| | `WorkersAreSafe` | `WorkersSafe` | one worker; none is asked after a failure |
| `ExpertAdapterProofs` | `RepliesMatch` | `MatchedReplies` | the same without ids, if nobody is cancelled |
| | `SessionsAreSafe` | `SessionsSafe` | an ambiguous session ends and leaves no child |
| `HttpExchangeProofs` | `EventsAreFaithful` | `RecordFaithful` | the event tells what was sent and received |
| | `FallbackIsSafe` | `FallbackSafe` | the fallback is asked with a reason and consent; circuits are bounded |
| | `AnswersAreOne` | `OneAnswer` | nothing of an abandoned attempt reaches the client |
| | `EvictionsMakeRoom` | `EvictsOnlyForRoom` | only a full table forgets an open circuit, the first to expire |
| `ProxyTaskProofs` | `ForwardedIsJournaled` | `JournalSafe` | journal and event are ahead of what was sent on |
| | `SocketsEndRecorded` | `EndRecorded` | the handler ends with its event, without tasks and sockets |
| | `ChildEndsWithCall` | `NoChildLeft` | no child outlives its call |
| | `RefreshOwnsAnswers` | `RefreshSafe` | a refresh shows its own answers only, and none once it was cancelled |
| | `NobodyAskedEarly` | `BackOffRespected` | no provider is asked before the time it asked for |
| `KnowledgeBaseProofs` | `DocumentsRefer` | `Grounded` | what a document refers to is there |
| | `IndexMissesNothing` | `IndexComplete` | the index of an open store is complete |
| | `HistoriesFollowChains` | `ChainsSafe` | nothing is superseded twice, and a history goes along its chain |
| | `AcceptedStaysStored` | `AcceptedIsStored` | what was answered with ok is stored, and stays |
| | `AnswersAreReliable` | `AnswersHold` | every new document has a new revision; what was accepted may be asked again |
| `ExpertIngestProofs` | `CheckpointNamesCoveredPrefix` | `CheckpointCovers` | a checkpoint skips nothing that is missing |
| | `SuccessLeavesNothingOut` | `SuccessCovers` | nor does a run that reports success |
| | `StoreRestsOnCorpus` | `StoreSafe` | every document is of a recorded event, and of a request that is stored |
| | `StoreNeverRefuses` | `NeverRefused` | neither the proxy nor a backfill asks for what the store refuses |
| `CorpusToolsProofs` | `NoEventDoubled` | `CorpusSafe` | no event is imported twice |
| | `TornLineStaysLast` | `NothingAfterTorn` | nobody writes behind a row that was cut short |
| | `CleanImportsLoseNothing` | `CleanMeansComplete` | an import that reports no failure is complete |
| | `GrownSessionsAgree` | `GrowthNeverConflicts` | a session that only grows never conflicts with what was imported of it |
| | `PagesAreSafe` | `PagesSafe` | every page advances, and no assertion is exported twice |
| | `ExportsAreComplete` | `ExportComplete` | what matched throughout is in the dataset |
| | `ManifestsCoverTheirRows` | `ManifestCovers` | the hash covers every row that is quoted |

Hardly any of these is inductive: what a property forbids would be prepared some steps earlier, at
another place of the state.  Each proof has an invariant that says what every such place holds.

**Recorder** (`IInv`).  `AckedDurable` speaks of calls that have returned, while the damage would
be done when the actor completes a future, or when the queue holds a message whose future is not
the caller's.

- `TypeInv` is `TypeOK` and `Carried`: a message or a waiting call of record() carries an event, one
  of journal_frame() a frame, so that what is written to a file has the type of its rows.
- `Owned`: a message with a pending future belongs to a caller who waits for just that operation
  and item and has no reply yet, no two such messages have the same owner, and only a caller that
  waits for a future has a reply.  Without it a reply could reach a caller who asked something
  else, or a second message overwrite the reply of the first.
- `Waiting`: who stands in the queue of the lock waits for the lock, and stands there once.  It
  keeps `Owned` when a waiter gets the lock, and when it leaves because it was cancelled.
- `GrantedDurable`: a record whose future is done with success is complete in both files: it is
  `AckedDurable` one step earlier, and what `Return` needs.
- `BufferedHasSource`: a row that is buffered for events.pl has its row in events.jsonl, and
  that is why the flush of close() cannot complete a fact without a source.

Files only grow, and a row that is complete stays complete (`Holds` is monotone), which is one
lemma for all actions.  `FailureIsSticky` needs no more than the type and `Owned`: every branch of
the actor that answers a record with success has `Healthy` as its guard.

`NoHoles` needs the order of the queue (`OrderInv`).  `QueueInOrder`: as long as no write has failed, what
is ahead of an event in the queue is in a file or further ahead in the queue, so when the event is
written all of it is in a file; after a failure nothing is written any more but a buffered row, and
`BufferedInOrder` says the same of that.  `Fresh`: an event is handed over once, also when its
caller waits for the lock meanwhile, so that what is ahead of an event does not change after it
was put.

The refinement (`LogInv`) has to show that each row that becomes complete may be appended to the
log: nothing that was handed over later is in it (`Late`).  `Sent`: no event is handed over
twice.  `QueueLate`: as long as no write has failed, the queue is in the order of the calls and all
of it is `Late`; so the first of the queue may be committed, by the actor or by the last write before
a crash, and the others are `Late` still.  `PendingLate`: a failed write leaves at most one row in a
buffer, and as nothing is written after the failure, its event is `Late` until close() flushes the
rest.  Four lemmas about `LogOf` say what the file operations mean to the log: a complete row and
the completion of a torn one append to it (`LogAppends`, `LogCompletes`), a row that is cut short
leaves it alone (`LogParts`), and an event is in the log when its row is complete (`LogHolds`).
Every step then is a submission, a commit, an acknowledgement, or a stutter (`LogInvStep`).

**Reasoner** (`ReasonerInv`).  A request takes a line with its id, so what has to be known is whom
the line was computed for: `PipesHonest` (a line carries the id of its request), `IdsUnique`, and
`IdsInOrder`, which makes the next id a new one.  `SlotRuns` and `FailedLeftSlot` (only the worker of
the slot runs, and the session of a failed exchange has left the slot for good) give `WorkersSafe`.

**Adapter** (`AdapterInv`).  Without ids the order of the pipes decides.  `PipesInStep`: as long as
nobody was cancelled and the pipes are in use, the input pipe holds at most the request of the exchange
that reads, and the output pipe at most its reply, after what is left of an overlong one.
`OneExchange` (the lock) and `OutcomesFinal` support it; `LetGo` follows a child that was let go of
until it is dead, killed, or in the hands of close().

**HTTP exchange** (`HttpInv`).  Per exchange: `Asked` (the three sequences of providers there may be),
`Tried` (an attempt is recorded when it is over, and the first of two was an exhaustion), `Given`
(what the client has against what was captured, at each point of the handler), `Budgeted` (consent
before the fallback is asked), and `Recorded` (the event is the truth about the exchange).  For
all of them together `CircuitsOK`: the table is finite and within its bound, and no circuit
expires later than a cooldown from now.  Evicting one of several needs that a finite nonempty set of numbers
has a least one.

**WebSocket relay** (`RelayInv`).  `RelaysOwned`: a relay task lives only while the handler waits for
one of them, and a frame that waits for the recorder's lock was captured and not journaled.
`EventsCover`: one event, made when the bodies are final.  `CancelsKept`: a cancellation that was
kept makes the event no success.

**Knowledge base** (`KbInv`).  `RequestServed`: the transaction that is next belongs to the request
that is served, and what it will refer to is stored already; `IndexBuilt`: the marker of a migration
says that the index is complete, also while the service is down; `OneSuccessor`.  Documents never change,
so what refers to them stays grounded (`GroundStays`).  That every document has a new revision
(`RevisionsTell`) needs the types only.  `AcceptInv` adds what the request that is served has stored
so far (`Progress`: of what the rules made of the source, all but the assertions that are left), what
an accepted request has stored (`Fulfilled`), and that no outcome supersedes itself (`NotItself`).
Documents and answers of the rules never change (`DocsKept`), so a request stays fulfilled, and each
transaction of a replay finds what it would write (`ReplayStep`).  For the histories, `Counted` says
that the stored outcomes can be numbered along their chains: it holds because an outcome is superseded
only once it is stored, and so there are no cycles.  `DepthCounts` shows by well-founded induction
that the recursive function `Depth` is this numbering.

**Ingest and backfill** (`CoverInv`).  A checkpoint covers its prefix because the run that wrote it
did (`RunsCover`: what a run without a failure has passed is in the knowledge base), because the
temporary file does even when another run wrote it (`TmpCovers`), and because a task of a run
that has not ended has stored what it does not hold any more (`TasksOwned`).  `RowBegun` says that
the row being written is the last and cannot be read.  Rows that can be read and documents stay
(`Kept`), so what is covered stays covered.  `GroundInv` adds that an event is asked about after its
record() has returned, and its request before the rest.  For `NeverRefused`, `SaidInv` says that
every document holds the message that the replay would find, and that the proxy asks for a
classification only where it has found a message.  `MessagesAgree` is the fact about the two
extractions that this rests on: where the proxy finds a message, the replay finds the same.

**Quotas** (`ChildInv`, `AnswerInv`).  `OldChildrenGone`: the children of earlier refreshes have ended
or were interrupted, and `ReapsChildren`: only an adapter with a child waits for one.  The answers:
`RefreshesOrdered` (refreshes are numbered, and only one that is over was dropped), `CallsOwn` and
`InboxOwn` (what a call holds and what is in the inbox is of this refresh, and each provider has
one answer there once its call has ended), and `BackOffKept`: the time that a provider has asked for
is what its answer says, at each place the answer goes through.  `Apply` takes the inbox by the
recursive function `Taken`; what it computes is shown for every length by the lemma `Induction`
(below).

**History import** (`CorpusInv`, `Completeness`, `Growth`).  Between the check for what is in the
corpus and the append another importer might do the same, so `LockKnows` says that who has the lock
knows every row, and that none is cut short; `RestKept` says that a row that waits in the buffer of
an importer that failed is of an event that is not in the corpus, unless another took the lock
meanwhile, which is the exception of section 4.  `Completeness` follows an import by its place in the
batch.  `Growth` is about all imports of a session that only grows: its ids are used once
(`Distinct`), and what is in the corpus, in the hands of an importer and in the texts they have
read are events of the session as it is now (`Known`, `Faithful`), because neither an identity nor a
context looks at what follows.

**Dataset export** (`PageInv`, `ManifestInv`).  `OwedAhead`: what the export owes and has not exported
is ahead of the cursor and matches still.  A page keeps it because the window holds the first of what
is ahead (`FirstOfDown`, `FirstOfSome`, by ranks in a finite set of numbers), and the cursor is put on
the last one accepted or on the end of the window.  `RowsGround`: an assertion is about a row that
exists when it is recorded; so what was collected before the hash was taken is covered by it
(`HashCovers`).

**Induction.**  The library's induction theorems take an operator as parameter, which the installed
provers cannot instantiate.  Three proofs need induction and have it in the form of sets: a nonempty
set of numbers has a least one, since `<` is well-founded on them (`NatLessThanWellFounded`,
`WFMin`).  `Induction` in `ProxyTaskProofs` states it for a set that contains 0 and every successor, and
`LeastNumber` in `ExpertIngestProofs` and `DepthCounts` in `KnowledgeBaseProofs` use it directly.

Only model-checked: the liveness properties `CallsAnswered`, `AnsweredOrStuck`, `CallsEnd`,
`EitherEndEndsBoth` and `RefreshEnds`, as liveness under fairness is beyond the prover.

## 7. Where the code and its documents disagree

- `recorder_torn` ends in a counterexample: a row that was cut short has no newline.  The next
  process appends to the same line, and acknowledges a row that no reader of JSON lines can parse.
  README.md:29-33 calls the corpus lossless and events.jsonl the source of truth;
  test_capture.py:42 states one object a line.

Met while modelling, and not given a run of their own.  The models behave as the code does, and
the properties have an exception where one is needed (section 4).

Proxy and recorder:

- When a file of the corpus cannot be opened, the actor's task ends with an OSError that nobody
  awaits; `_task` stays set, and record() waits forever.  history.py:313 catches an `OSError` there
  to report `source_or_corpus_io_error`, which therefore never comes.
- A cancelled close of the recorder leaves a task that failed or that has ended in `_task`.
- When the fallback's connection fails before its headers, the second attempt is recorded with
  the metadata of the first one's response (proxy.py:699).
- An open circuit whose fallback is denied sends the request to the exhausted provider
  (proxy.py:632); research note 054 says that the circuit suppresses direct calls until the cooldown.
- `_extract_user_message` (proxy.py:158) promises the last user message, but of the frames of a
  WebSocket it takes the first that holds an object (proxy.py:184), and so does the backfill with
  the first that holds user text.

Expert:

- The deadline of the supervisor covers the wait for the first byte (prolog-supervisor.lisp:136);
  `read-line` has none.  A worker that stops within a line holds the request forever, against the
  docstring at line 127, "a hard deadline".
- A reply longer than the stream reader's limit (64 KiB) raises a ValueError that no handler names
  (expert_adapter.py:205); the child stays in use and the rest of the line is read by the next
  exchange.  Evidence note 012 lists malformed replies among those that invalidate the child.
- After its first ambiguous failure the adapter never starts a new child, as its docstring intends,
  so events are not ingested until the proxy is restarted; and its one second is shorter than the
  reasoner's five, so a slow conclusion costs the child.
- Research note 046 calls the outcome history newest-first.  Assertions that no supersession links
  come in the order of the index, an outcome filter takes away the predecessors that the depth is
  counted by, and the bound of 64 candidates is applied before the order.
- The indexes by scope and by superseded assertion have no migration like that of the outcomes and
  of the usage (host.lisp:115, 133): assertions from before these indexes are missed by histories
  and by the check for successors.
- The id of a classifier's assertion does not contain the version of the rules, while the document
  does: after a change of the rules' version a replay of an accepted request is a conflict.

Command lines:

- Two backfills with one checkpoint share its temporary file, so one may rename a file that the
  other has just truncated onto the checkpoint; the next run is refused until `--from-start`.
  Research note 053, line 55, calls the checkpoint atomic.  It never names what is missing, though
  (`CheckpointCovers`).
- `--continue-on-error` does not apply to a row that cannot be parsed (expert_cli.py:126).
- An assertion behind the cursor of an export that is superseded by one before it leaves neither in
  the dataset; and the dataset and its manifest are written one after the other.
- Rows are written with `ensure_ascii=False` (recorder.py:581) and read with splitlines()
  (history.py:273): a message with U+2028, U+2029 or U+0085 makes every later import fail with
  `invalid_existing_corpus`.  `NothingAfterTorn` and `CleanMeansComplete` hold with it.
- An importer whose append failed gives up its lock before the recorder is closed, so that a
  row from its buffer may follow a second importer's; the docstring at history.py:256 says that the
  lock serialises importers.
- A cancellation, or the limit around the adapter, while it waits for the Codex child it has
  asked to end skips the kill (quotas.py:265-274).
- `mining_cli` does not start the plane that note 054 says it starts.

## 8. Not modelled, and the plan

Left aside for good: redaction and the two keyword classifiers (pure functions over text, where
patterns are what matters), command-line wiring, the HTTP route of the quotas, packaging, notes,
and the forwarding runtime of Common Lisp, which shares nothing between its threads.

Left to do, the most important first:

1. The composition of `ExpertAdapter` and `Reasoner` with their two timeouts; each is modelled with
   the other's delay as a fault that may come at any point.
2. The usage index and the history of classifications in `KnowledgeBase`; the filters of the dataset
   query on the cost of a task, which may take an assertion off a page again.
3. The reservation of a capture directory by two threads (`expert/transport.lisp`), and the
   admission gate of the analytics with clients that leave.
4. Accounting as operators, checked against a reference definition over bounded inputs.

Theorems to prove next, with the modules above: that matched replies and correlated replies still
hold of the composition of adapter and reasoner; the refinement of an abstract store, a set of
documents that only grows, by `KnowledgeBase`.
