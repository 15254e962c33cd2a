------------------------------ MODULE Reasoner ------------------------------
(***************************************************************************)
(* expert/prolog-supervisor.lisp: the Common Lisp host asks one persistent *)
(* SWI-Prolog worker over a pair of pipes, one request at a time.  Request *)
(* ids are "session:sequence"; a failed exchange stops the worker and the  *)
(* next request may start a fresh one.  The host waits for the worker's    *)
(* pipe to become readable, with a deadline, and then reads a line.        *)
(***************************************************************************)
EXTENDS Naturals, Sequences

CONSTANTS
  Requests,     \* reasoner requests of the host's callers, each made once
  Faults,       \* what may go wrong, see FaultKinds
  MaxSessions   \* bound on the number of workers launched

FaultKinds == {"launch",    \* swipl cannot be launched, or exits at once
               "crash",     \* the worker exits
               "hang",      \* the worker stops without a reply
               "partial",   \* the worker stops within the line of a reply
               "garbage",   \* a line that is no reply: other text, wrong fields
               "extra",     \* a further line, next to the reply: text or a second reply
               "result"}    \* a correlated reply whose result the caller rejects

ASSUME ReasonerAssumption == Faults \subseteq FaultKinds /\ MaxSessions \in Nat

VARIABLES
  host,      \* what prolog-worker-request is doing
  current,   \* the request in flight
  session,   \* the session of the worker in the slot prolog-process; 0: none
  launched,  \* number of sessions launched so far
  sequence,  \* prolog-request-sequence
  worker,    \* per session: the state of the process
  input,     \* per session: requests in the worker's input pipe
  output,    \* per session: lines in the worker's output pipe
  outcome,   \* per request: how prolog-worker-request ended
  answer,    \* history: per request, the request whose reply was accepted
  id         \* history: per request, its <<session, sequence>>

vars == <<host, current, session, launched, sequence, worker, input, output,
          outcome, answer, id>>

Sessions == 1 .. MaxSessions
NoId     == <<0, 0>>
Failures == {"timeout", "crashed", "malformed", "rejected", "pipe"}
\* form: a complete JSON line, other text, or the beginning of a line
Line     == [form : {"reply", "garbage", "part"}, id : Nat \X Nat, request : Requests]

TypeOK ==
  /\ host \in {"idle", "polling", "reading"}
  /\ current \in Requests
  /\ session \in 0 .. MaxSessions /\ launched \in 0 .. MaxSessions
  /\ sequence \in Nat
  /\ worker \in [Sessions -> {"none", "alive", "hung", "dead"}]
  /\ input \in [Sessions -> Seq(Requests)]
  /\ output \in [Sessions -> Seq(Line)]
  /\ outcome \in [Requests -> {"new", "asked", "ok", "unavailable"} \cup Failures]
  /\ answer \in [Requests -> SUBSET Requests]
  /\ id \in [Requests -> Nat \X Nat]

Init ==
  /\ host = "idle"
  /\ current \in Requests
  /\ session = 0 /\ launched = 0 /\ sequence = 0
  /\ worker = [s \in Sessions |-> "none"]
  /\ input = [s \in Sessions |-> <<>>]
  /\ output = [s \in Sessions |-> <<>>]
  /\ outcome = [r \in Requests |-> "new"]
  /\ answer = [r \in Requests |-> {}]
  /\ id = [r \in Requests |-> NoId]

-----------------------------------------------------------------------------
Running(s) == worker[s] \in {"alive", "hung"}
Live       == session # 0 /\ Running(session)

\* start-prolog-worker: a new process, session id and sequence.
Launch(state) ==
  /\ ~Live
  /\ launched < MaxSessions
  /\ launched' = launched + 1
  /\ session' = launched + 1
  /\ worker' = [worker EXCEPT ![launched + 1] = state]

\* Write the request to the worker of session s under the id <<s, n>>.
Send(r, s, n) ==
  /\ host' = "polling"
  /\ current' = r
  /\ sequence' = n
  /\ id' = [id EXCEPT ![r] = <<s, n>>]
  /\ input' = [input EXCEPT ![s] = Append(@, r)]
  /\ outcome' = [outcome EXCEPT ![r] = "asked"]
  /\ UNCHANGED <<output, answer>>

Ask(r) ==
  /\ host = "idle" /\ outcome[r] = "new"
  /\ \/ Live /\ Send(r, session, sequence + 1) /\ UNCHANGED <<session, launched, worker>>
     \/ Launch("alive") /\ Send(r, launched + 1, 1)
     \* %ensure-prolog-worker signals :unavailable; nothing was written.
     \/ /\ "launch" \in Faults
        /\ \/ ~Live /\ UNCHANGED <<session, launched, worker, sequence>>
           \/ Launch("dead") /\ sequence' = 0
        /\ outcome' = [outcome EXCEPT ![r] = "unavailable"]
        /\ UNCHANGED <<host, current, input, output, answer, id>>
     \* The worker exits after it was found alive: the write fails.
     \/ /\ "crash" \in Faults
        /\ Live
        /\ id' = [id EXCEPT ![r] = <<session, sequence + 1>>]
        /\ outcome' = [outcome EXCEPT ![r] = "pipe"]
        /\ worker' = [worker EXCEPT ![session] = "dead"]
        /\ session' = 0
        /\ UNCHANGED <<host, current, launched, sequence, input, output, answer>>

\* Mutants of Stop: the process is not killed; nothing is stopped at all.
StopWithoutKill == UNCHANGED worker /\ session' = 0
StopNothing     == UNCHANGED <<worker, session>>

\* stop-prolog-worker: kill the process, forget process and session.
Stop == worker' = [worker EXCEPT ![session] = "dead"] /\ session' = 0

\* Mutant of Fail: the condition is not one of the typed failures.
UntypedFail(kind) ==
  /\ Stop
  /\ outcome' = [outcome EXCEPT ![current] = "error"]
  /\ host' = "idle"
  /\ UNCHANGED <<current, launched, sequence, input, answer, id>>

Fail(kind) ==
  /\ Stop
  /\ outcome' = [outcome EXCEPT ![current] = kind]
  /\ host' = "idle"
  /\ UNCHANGED <<current, launched, sequence, input, answer, id>>

\* wait-until-fd-usable: bytes or end of file make the descriptor readable.
Readable == output[session] # <<>> \/ worker[session] = "dead"

Poll ==
  /\ host = "polling" /\ Readable
  /\ host' = "reading"
  /\ UNCHANGED <<current, session, launched, sequence, worker, input, output,
                 outcome, answer, id>>

\* The deadline passes.  The poll sees the descriptor only, so a line that an earlier
\* read left in the buffer of the stream does not end it.
Fresh(line) == line.id = id[current]
Quiet == worker[session] # "dead"
         /\ \A k \in DOMAIN output[session] : ~Fresh(output[session][k])

\* Mutant of Timeout: no deadline, only the end of the worker ends the poll.
TimeoutNever == host = "polling" /\ worker[session] = "dead" /\ Fail("timeout")
                /\ UNCHANGED output

Timeout == host = "polling" /\ Quiet /\ Fail("timeout") /\ UNCHANGED output

\* Mutant of Correlated: the request id of a reply is not compared.
AnyReply(line) == line.form = "reply"

\* %validate-prolog-reply: the reply carries the id of the request in flight.
Correlated(line) == line.form = "reply" /\ line.id = id[current]

\* read-line returns on a newline or at end of file.  A line is accepted when it parses
\* and carries the id of the request in flight.
ReadLine ==
  /\ host = "reading"
  /\ IF output[session] = <<>>
       THEN worker[session] = "dead" /\ Fail("crashed") /\ UNCHANGED output
       ELSE LET line == Head(output[session]) IN
         /\ output' = [output EXCEPT ![session] = Tail(@)]
         /\ \/ Correlated(line)
               /\ outcome' = [outcome EXCEPT ![current] = "ok"]
               /\ answer' = [answer EXCEPT ![current] = {line.request}]
               /\ host' = "idle"
               /\ UNCHANGED <<current, session, launched, sequence, worker, input, id>>
            \* %reject-invalid-reasoner-result
            \/ Correlated(line) /\ "result" \in Faults /\ Fail("rejected")
            \/ line.form = "reply" /\ ~Correlated(line) /\ Fail("malformed")
            \/ line.form = "garbage" /\ Fail("malformed")
            \/ line.form = "part" /\ worker[session] = "dead" /\ Fail("malformed")

-----------------------------------------------------------------------------
(* The worker of session s: worker_loop of expert/prolog/worker.pl.        *)

Emit(s, lines, state) ==
  /\ output' = [output EXCEPT ![s] = @ \o lines]
  /\ worker' = [worker EXCEPT ![s] = state]

Serve(s) ==
  /\ worker[s] = "alive" /\ input[s] # <<>>
  /\ input' = [input EXCEPT ![s] = Tail(@)]
  /\ LET r == Head(input[s])
         line(form) == [form |-> form, id |-> id[r], request |-> r] IN
       \/ Emit(s, <<line("reply")>>, "alive")
       \/ "garbage" \in Faults /\ Emit(s, <<line("garbage")>>, "alive")
       \/ "extra" \in Faults
          /\ \E first, second \in {"garbage", "reply"} :
               Emit(s, <<line(first), line(second)>>, "alive")
       \/ "hang" \in Faults /\ Emit(s, <<>>, "hung")
       \/ "partial" \in Faults /\ Emit(s, <<line("part")>>, "hung")
  /\ UNCHANGED <<host, current, session, launched, sequence, outcome, answer, id>>

Crash(s) ==
  /\ "crash" \in Faults
  /\ Running(s)
  /\ worker' = [worker EXCEPT ![s] = "dead"]
  /\ UNCHANGED <<host, current, session, launched, sequence, input, output,
                 outcome, answer, id>>

Next ==
  \/ \E r \in Requests : Ask(r)
  \/ Poll \/ Timeout \/ ReadLine
  \/ \E s \in Sessions : Serve(s) \/ Crash(s)

Spec == Init /\ [][Next]_vars

\* The host runs and its deadline expires; the worker owes nothing.
FairSpec == Spec /\ WF_vars(Poll) /\ WF_vars(Timeout) /\ WF_vars(ReadLine)

-----------------------------------------------------------------------------
(* Properties.                                                             *)

\* An accepted reply was computed for the request in flight: neither a stray line, nor
\* the late reply of an exchange that timed out, is taken for it.
CorrelatedReplies == \A r \in Requests : outcome[r] = "ok" => answer[r] = {r}

\* A worker whose exchange failed is never asked again: its streams may be out of step.
FailedWorkerNotReused ==
  \A r, q \in Requests :
    (outcome[r] \in Failures /\ id[q][1] = id[r][1]) => id[q][2] <= id[r][2]

\* The host never has two workers running.
OneWorker == \A s, t \in Sessions : Running(s) /\ Running(t) => s = t

\* prolog-worker-request returns, with a reply or a typed failure, whatever the worker does,
\* unless it stops within a line, which read-line then waits for without a deadline.
StoppedWithinLine ==
  session # 0 /\ output[session] # <<>> /\ Head(output[session]).form = "part"

AnsweredOrStuck == host # "idle" ~> host = "idle" \/ StoppedWithinLine

\* The state is well formed, two workers never run at once, and a worker is never asked again
\* after a failure of any step of an exchange.
WorkersSafe == TypeOK /\ OneWorker /\ FailedWorkerNotReused
=============================================================================
