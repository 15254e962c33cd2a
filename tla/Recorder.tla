------------------------------ MODULE Recorder ------------------------------
(***************************************************************************)
(* RecorderActor of llm_log/recorder.py: coroutines of one event loop call *)
(* record(), journal_frame(), flush() and close(); a single task, _run(),  *)
(* owns the files events.jsonl, events.pl and frames.jsonl and serves the  *)
(* calls from one unbounded queue.                                         *)
(*                                                                         *)
(* Code between two suspension points of a coroutine is atomic, so an      *)
(* action is what runs from one await that really suspends to the next:    *)
(* the wait for _state_lock, the wait for the future of a message, and     *)
(* _queue.get() of the actor.  put() on an unbounded queue and the         *)
(* acquisition of a free lock never suspend.                               *)
(***************************************************************************)
EXTENDS Naturals, Sequences, SequencesExt

CONSTANTS
  Clients,     \* coroutines of the proxy or of the importer that call the recorder
  Events,      \* capture events; each is recorded at most once (fresh uuid)
  Frames,      \* WebSocket frames; each is journaled at most once
  None,        \* the payload of a flush or close message
  Faults,      \* the faults of the environment that may occur, see FaultKinds
  MaxCrashes,  \* bound on the number of process crashes
  MaxCancels   \* bound on the number of cancelled calls

FaultKinds == {"open",    \* opening one of the three files fails
               "write",   \* serialising or writing a row fails (encoding, ENOSPC, EIO)
               "cancel",  \* a task that awaits the recorder is cancelled
               "crash"}   \* the process dies; what reached the OS stays

ASSUME RecorderAssumption ==
  /\ None \notin Events \cup Frames
  /\ Events \cap Frames = {}
  /\ Faults \subseteq FaultKinds
  /\ MaxCrashes \in Nat /\ MaxCancels \in Nat

VARIABLES
  pc,         \* what each client waits for: nothing, _state_lock, its future
  call,       \* the message each client is about to put or has put
  reply,      \* the state of the future each client waits for
  lockq,      \* FIFO of the clients that wait for _state_lock
  queue,      \* _queue
  task,       \* _task: None, created, running, returned, or ended by an exception
  failure,    \* _failure is not None
  jsonl,      \* rows of events.jsonl
  prolog,     \* rows of events.pl, one per event
  frames,     \* rows of frames.jsonl
  pending,    \* the row whose tail is still in a writer's buffer after a failed write
  used,       \* events and frames already handed to the recorder
  crashes,    \* number of crashes so far
  cancels,    \* number of cancelled calls so far
  submitted,  \* history: events in the order in which they were put
  journaled,  \* history: events and frames put since the process started
  ahead,      \* history: per event, what the same process had put before it
  acked       \* history: events whose record() returned

callVars == <<pc, call, reply, lockq>>
fileVars == <<jsonl, prolog, frames, pending>>
bounds   == <<crashes, cancels>>
histVars == <<used, submitted, journaled, ahead>>
vars == <<callVars, queue, task, failure, fileVars, bounds, histVars, acked>>

-----------------------------------------------------------------------------
Ops     == {"record", "frame", "flush", "close"}
Items   == Events \cup Frames
Call    == [op : Ops, item : Items \cup {None}]
\* future: "none" for a frame, "cancelled" once its owner was cancelled
Message == [op : Ops, item : Items \cup {None}, owner : Clients,
            future : {"none", "pending", "cancelled"}]
Row(S)  == [item : S, whole : BOOLEAN]
Files   == {"jsonl", "prolog", "frames"}

TypeOK ==
  /\ pc \in [Clients -> {"idle", "lock", "future"}]
  /\ call \in [Clients -> Call]
  /\ reply \in [Clients -> {"none", "ok", "error"}]
  /\ lockq \in Seq(Clients)
  /\ queue \in Seq(Message)
  /\ task \in {"none", "created", "running", "returned", "raised"}
  /\ failure \in BOOLEAN
  /\ jsonl \in Seq(Row(Events))
  /\ prolog \in Seq(Row(Events))
  /\ frames \in Seq(Row(Frames))
  /\ pending \subseteq [file : Files, item : Items]
  /\ used \subseteq Items
  /\ crashes \in Nat /\ cancels \in Nat
  /\ submitted \in Seq(Events)
  /\ journaled \subseteq Items
  /\ ahead \in [Events -> SUBSET Items]
  /\ acked \subseteq Events

-----------------------------------------------------------------------------
Whole(i) == [item |-> i, whole |-> TRUE]
Torn(i)  == [item |-> i, whole |-> FALSE]

\* What a write of one row that did not finish leaves in the file: nothing or a prefix.
PartWritten(s, i) == {s, Append(s, Torn(i))}

\* A later flush that succeeds writes the rest of the buffered row.
Completed(s, i) == IF s # <<>> /\ s[Len(s)] = Torn(i)
                     THEN [s EXCEPT ![Len(s)] = Whole(i)]
                     ELSE Append(s, Whole(i))

Holds(s, i) == \E k \in DOMAIN s : s[k] = Whole(i)

\* close() is the only holder that suspends while it holds _state_lock.
LockHeld == \E c \in Clients : pc[c] = "future" /\ call[c].op = "close"

\* asyncio.Lock is fair: a newcomer passes only if nobody holds it and nobody waits.
LockFree == ~LockHeld /\ lockq = <<>>

Init ==
  /\ pc = [c \in Clients |-> "idle"]
  /\ call = [c \in Clients |-> [op |-> "flush", item |-> None]]
  /\ reply = [c \in Clients |-> "none"]
  /\ lockq = <<>>
  /\ queue = <<>>
  /\ task = "none"
  /\ failure = FALSE
  /\ jsonl = <<>> /\ prolog = <<>> /\ frames = <<>>
  /\ pending = {}
  /\ used = {}
  /\ crashes = 0 /\ cancels = 0
  /\ submitted = <<>>
  /\ journaled = {}
  /\ ahead = [e \in Events |-> {}]
  /\ acked = {}

-----------------------------------------------------------------------------
(* The callers.                                                            *)

\* Mutants of Put: last in, first out; a message without the field of its future.
PutLifo(c, op, item, future) ==
  queue' = <<[op |-> op, item |-> item, owner |-> c, future |-> future]>> \o queue
PutBare(c, op, item, future) ==
  queue' = Append(queue, [op |-> op, item |-> item, owner |-> c])

Put(c, op, item, future) ==
  queue' = Append(queue, [op |-> op, item |-> item, owner |-> c, future |-> future])

\* The body of start(), under _state_lock: only a missing task is replaced, whatever
\* the state of the task that _task refers to.
StartTask == task' = IF task = "none" THEN "created" ELSE task

\* record() from the moment it owns the lock: start(), put, wait for the future.
PutRecord(c, e) ==
  /\ StartTask
  /\ Put(c, "record", e, "pending")
  /\ pc' = [pc EXCEPT ![c] = "future"]
  /\ submitted' = Append(submitted, e)
  /\ ahead' = [ahead EXCEPT ![e] = journaled]
  /\ journaled' = journaled \cup {e}

\* journal_frame(): start(), put without a future, return.
PutFrame(c, f) ==
  /\ StartTask
  /\ Put(c, "frame", f, "none")
  /\ pc' = [pc EXCEPT ![c] = "idle"]
  /\ journaled' = journaled \cup {f}
  /\ UNCHANGED <<submitted, ahead>>

\* close() under the lock: nothing to do without a task, else put and wait.
PutClose(c) ==
  /\ UNCHANGED <<task, submitted, ahead, journaled>>
  /\ \/ /\ task = "none"
        /\ pc' = [pc EXCEPT ![c] = "idle"]
        /\ UNCHANGED queue
     \/ /\ task # "none"
        /\ Put(c, "close", None, "pending")
        /\ pc' = [pc EXCEPT ![c] = "future"]

\* start() raises before the put: the directory of the corpus cannot be made.
StartFails(c) ==
  /\ "open" \in Faults /\ task = "none"
  /\ pc' = [pc EXCEPT ![c] = "idle"]
  /\ UNCHANGED <<queue, task, submitted, ahead, journaled>>

UnderLock(c, op, item) ==
  \/ op = "record" /\ PutRecord(c, item)
  \/ op = "frame" /\ PutFrame(c, item)
  \/ op \in {"record", "frame"} /\ StartFails(c)
  \/ op = "close" /\ PutClose(c)

\* A call that needs the lock goes through at once or joins the waiters.
Enter(c, op, item) ==
  /\ pc[c] = "idle"
  /\ call' = [call EXCEPT ![c] = [op |-> op, item |-> item]]
  /\ \/ LockFree /\ UnderLock(c, op, item) /\ UNCHANGED lockq
     \/ /\ ~LockFree
        /\ pc' = [pc EXCEPT ![c] = "lock"]
        /\ lockq' = Append(lockq, c)
        /\ UNCHANGED <<queue, task, submitted, ahead, journaled>>
  /\ UNCHANGED <<reply, failure, fileVars, bounds, acked>>

Record(c, e)       == e \notin used /\ used' = used \cup {e} /\ Enter(c, "record", e)
JournalFrame(c, f) == f \notin used /\ used' = used \cup {f} /\ Enter(c, "frame", f)
Close(c)           == UNCHANGED used /\ Enter(c, "close", None)

\* The lock is released and its first waiter goes on.
Acquire(c) ==
  /\ ~LockHeld
  /\ lockq # <<>> /\ Head(lockq) = c
  /\ lockq' = Tail(lockq)
  /\ UnderLock(c, call[c].op, call[c].item)
  /\ UNCHANGED <<call, reply, failure, fileVars, bounds, used, acked>>

\* flush() takes no lock: it returns without a task, else it puts and waits.
Flush(c) ==
  /\ pc[c] = "idle"
  /\ task # "none"
  /\ call' = [call EXCEPT ![c] = [op |-> "flush", item |-> None]]
  /\ Put(c, "flush", None, "pending")
  /\ pc' = [pc EXCEPT ![c] = "future"]
  /\ UNCHANGED <<reply, lockq, task, failure, fileVars, bounds, histVars, acked>>

\* The future of record() or flush() is done and the caller resumes.
Return(c) ==
  /\ pc[c] = "future" /\ reply[c] # "none"
  /\ pc' = [pc EXCEPT ![c] = "idle"]
  /\ reply' = [reply EXCEPT ![c] = "none"]
  /\ acked' = IF call[c].op = "record" /\ reply[c] = "ok"
                THEN acked \cup {call[c].item} ELSE acked
  \* close(): `await task; self._task = None` run only if the future did not raise.
  /\ task' = IF call[c].op = "close" /\ reply[c] = "ok" THEN "none" ELSE task
  /\ UNCHANGED <<call, lockq, queue, failure, fileVars, bounds, histVars>>

\* The caller is cancelled: a waiter leaves the lock; an awaited future that is not
\* done is cancelled with it and its message stays in the queue.
Cancel(c) ==
  /\ "cancel" \in Faults /\ cancels < MaxCancels
  /\ cancels' = cancels + 1
  /\ \/ /\ pc[c] = "lock"
        /\ \E i \in DOMAIN lockq : lockq[i] = c /\ lockq' = RemoveAt(lockq, i)
        /\ UNCHANGED queue
     \/ /\ pc[c] = "future"
        /\ queue' = [k \in DOMAIN queue |->
                       IF queue[k].owner = c /\ queue[k].future = "pending"
                         THEN [queue[k] EXCEPT !.future = "cancelled"] ELSE queue[k]]
        /\ UNCHANGED lockq
  /\ pc' = [pc EXCEPT ![c] = "idle"]
  /\ reply' = [reply EXCEPT ![c] = "none"]
  /\ UNCHANGED <<call, task, failure, fileVars, crashes, histVars, acked>>

-----------------------------------------------------------------------------
(* The actor task.                                                         *)

\* The `with` of _run(): an OSError ends the task; _task still refers to it.
OpenFiles ==
  /\ task = "created"
  /\ \/ task' = "running"
     \/ "open" \in Faults /\ task' = "raised"
  /\ UNCHANGED <<callVars, queue, failure, fileVars, bounds, histVars, acked>>

Serving(op) == task = "running" /\ queue # <<>> /\ Head(queue).op = op

\* Complete the future of m, unless it has none or its owner was cancelled.
Answer(m, r) ==
  reply' = IF m.future = "pending" THEN [reply EXCEPT ![m.owner] = r] ELSE reply

Dequeue == queue' = Tail(queue) /\ UNCHANGED <<pc, call, lockq, bounds, histVars, acked>>

\* Mutants of Reject: the failure is taken for success, or nobody is told.
RejectAsSuccess ==
  /\ failure
  /\ \E op \in Ops \ {"close"} : Serving(op)
  /\ Answer(Head(queue), "ok")
  /\ Dequeue
  /\ UNCHANGED <<task, failure, fileVars>>
RejectUnanswered ==
  /\ failure
  /\ \E op \in Ops \ {"close"} : Serving(op)
  /\ Dequeue
  /\ UNCHANGED <<reply, task, failure, fileVars>>

\* After the first failure every message but close is answered with that failure.
Reject ==
  /\ failure
  /\ \E op \in Ops \ {"close"} : Serving(op)
  /\ Answer(Head(queue), "error")
  /\ Dequeue
  /\ UNCHANGED <<task, failure, fileVars>>

\* Mutant of Healthy: the failure is not sticky.
ServingAnyway(op) == Serving(op)

Healthy(op) == Serving(op) /\ ~failure

\* Mutant of CutShort: the Prolog facts are written before the JSON row.
CutShortReversed(file, e) ==
  \/ file = "prolog" /\ prolog' \in PartWritten(prolog, e) /\ UNCHANGED jsonl
  \/ /\ file = "jsonl"
     /\ prolog' = Append(prolog, Whole(e))
     /\ jsonl' \in PartWritten(jsonl, e)

\* The two writes of a record, cut short within the one to file.
CutShort(file, e) ==
  \/ file = "jsonl" /\ jsonl' \in PartWritten(jsonl, e) /\ UNCHANGED prolog
  \/ /\ file = "prolog"
     /\ jsonl' = Append(jsonl, Whole(e))
     /\ prolog' \in PartWritten(prolog, e)

WriteRecord ==
  /\ Healthy("record")
  /\ LET e == Head(queue).item IN
       \/ /\ jsonl' = Append(jsonl, Whole(e))
          /\ prolog' = Append(prolog, Whole(e))
          /\ Answer(Head(queue), "ok")
          /\ UNCHANGED <<failure, pending>>
       \/ /\ "write" \in Faults
          /\ failure' = TRUE
          /\ Answer(Head(queue), "error")
          /\ \/ UNCHANGED <<jsonl, prolog, pending>>      \* the row has no encoding
             \/ \E file \in {"jsonl", "prolog"} :
                  CutShort(file, e) /\ pending' = {[file |-> file, item |-> e]}
  /\ Dequeue
  /\ UNCHANGED <<task, frames>>

WriteFrame ==
  /\ Healthy("frame")
  /\ LET f == Head(queue).item IN
       \/ /\ frames' = Append(frames, Whole(f))
          /\ UNCHANGED <<failure, pending>>
       \/ /\ "write" \in Faults
          /\ failure' = TRUE
          /\ \/ UNCHANGED <<frames, pending>>
             \/ /\ frames' \in PartWritten(frames, f)
                /\ pending' = {[file |-> "frames", item |-> f]}
  /\ Dequeue
  /\ UNCHANGED <<reply, task, jsonl, prolog>>

\* Every row is flushed as it is written, so without a failure nothing is buffered.
ServeFlush ==
  /\ Healthy("flush")
  /\ Answer(Head(queue), "ok")
  /\ Dequeue
  /\ UNCHANGED <<task, failure, fileVars>>

FlushPending(name, s) ==
  IF \E p \in pending : p.file = name
    THEN Completed(s, (CHOOSE p \in pending : p.file = name).item) ELSE s

\* close is served even after a failure: flush what is buffered, then end the task.
\* set_result() on a cancelled future raises, which counts as a failure of the actor
\* and keeps it in its loop.
ServeClose ==
  /\ Serving("close")
  /\ \/ /\ jsonl' = FlushPending("jsonl", jsonl)
        /\ prolog' = FlushPending("prolog", prolog)
        /\ frames' = FlushPending("frames", frames)
        /\ pending' = {}
        /\ Answer(Head(queue), "ok")
        /\ \/ Head(queue).future = "pending" /\ task' = "returned" /\ UNCHANGED failure
           \/ Head(queue).future = "cancelled" /\ failure' = TRUE /\ UNCHANGED task
     \/ /\ "write" \in Faults /\ pending # {}
        /\ failure' = TRUE
        /\ Answer(Head(queue), "error")
        /\ UNCHANGED <<task, fileVars>>
  /\ Dequeue

\* The process dies, between two steps or inside the writes of the current message.
Crash ==
  /\ "crash" \in Faults /\ crashes < MaxCrashes
  /\ crashes' = crashes + 1
  /\ \/ UNCHANGED <<jsonl, prolog, frames>>
     \/ /\ Healthy("record")
        /\ LET e == Head(queue).item IN
             \/ \E file \in {"jsonl", "prolog"} : CutShort(file, e)
             \/ jsonl' = Append(jsonl, Whole(e)) /\ prolog' = Append(prolog, Whole(e))
        /\ UNCHANGED frames
     \/ /\ Healthy("frame")
        /\ LET f == Head(queue).item IN
             frames' \in PartWritten(frames, f) \cup {Append(frames, Whole(f))}
        /\ UNCHANGED <<jsonl, prolog>>
  /\ pc' = [c \in Clients |-> "idle"]
  /\ reply' = [c \in Clients |-> "none"]
  /\ lockq' = <<>> /\ queue' = <<>>
  /\ task' = "none" /\ failure' = FALSE /\ pending' = {}
  /\ journaled' = {}
  /\ UNCHANGED <<call, cancels, used, submitted, ahead, acked>>

-----------------------------------------------------------------------------
Actor == OpenFiles \/ Reject \/ WriteRecord \/ WriteFrame \/ ServeFlush \/ ServeClose

Next ==
  \/ \E c \in Clients :
       \/ \E e \in Events : Record(c, e)
       \/ \E f \in Frames : JournalFrame(c, f)
       \/ Flush(c) \/ Close(c) \/ Acquire(c) \/ Return(c) \/ Cancel(c)
  \/ Actor
  \/ Crash

Spec == Init /\ [][Next]_vars

\* The event loop runs every callback that is ready; callers and faults are free.
FairSpec == /\ Spec
            /\ WF_vars(Actor)
            /\ \A c \in Clients : WF_vars(Acquire(c)) /\ WF_vars(Return(c))

-----------------------------------------------------------------------------
(* Properties.                                                             *)

\* When record() has returned, the complete rows of the event are in events.jsonl and
\* in events.pl, and no failure, cancellation, restart or crash takes them away.
AckedDurable == \A e \in acked : Holds(jsonl, e) /\ Holds(prolog, e)

\* events.pl is a projection: a complete Prolog fact refers to a complete JSON row,
\* also after a crash between the two writes and after a retry of a failed flush.
PrologHasSource == \A e \in Events : Holds(prolog, e) => Holds(jsonl, e)

\* The corpus has no holes: when the row of an event is complete, so is the row of
\* everything the same process handed to the recorder before that event, the frames
\* of its WebSocket included, although frames are journaled without acknowledgement
\* and callers may have been cancelled.
NoHoles == \A e \in Events : Holds(jsonl, e) =>
             \A i \in ahead[e] : Holds(jsonl, i) \/ Holds(frames, i)

\* Once a write failed, the actor of this process grants no record any more.
FailStop == [][failure => \A c \in Clients :
                 (call[c].op = "record" /\ reply'[c] = "ok") => reply[c] = "ok"]_vars

\* Every call is answered.  The exception the code has: a flush that reaches the
\* queue behind a close stays there until some later call starts a new task.
CallsAnswered ==
  \A c \in Clients :
    pc[c] # "idle" ~> \/ pc[c] = "idle"
                      \/ call[c].op = "flush" /\ task \in {"none", "returned"}

\* One JSON object per line: the row of an acknowledged event starts on a line of its
\* own, that is, it does not follow a row that was cut short.
AckedReadable ==
  \A e \in acked : \E k \in DOMAIN jsonl :
    jsonl[k] = Whole(e) /\ (k = 1 \/ jsonl[k - 1].whole)
=============================================================================
