--------------------------- MODULE ExpertAdapter ---------------------------
(***************************************************************************)
(* SubprocessExpertPlane of llm_log/expert_adapter.py: the proxy asks one  *)
(* long-lived Common Lisp child over its pipes, one JSON line per exchange.*)
(* An asyncio.Lock serialises the exchanges; replies carry no request id,  *)
(* so a reply belongs to the exchange that reads it.  build_app of         *)
(* llm_log/proxy.py starts the child once, before it serves, and closes it *)
(* when the ingest tasks have ended; queries of the admin listener may     *)
(* still be in flight then, and close() does not take the lock.            *)
(***************************************************************************)
EXTENDS Naturals, Sequences, SequencesExt

CONSTANTS
  Requests,  \* calls of _request, each made once
  Admin,     \* those that the admin listener makes
  Faults     \* what may go wrong, see FaultKinds

FaultKinds == {"spawn",    \* the child cannot be started
               "crash",    \* the child exits, perhaps within the line of a reply
               "hang",     \* the child stops reading, writing and exiting
               "garbage",  \* a line that is no reply of the protocol
               "long",     \* a reply longer than the limit of the stream reader
               "cancel"}   \* the task that awaits a reply is cancelled

ASSUME ExpertAdapterAssumption == Admin \subseteq Requests /\ Faults \subseteq FaultKinds

VARIABLES
  pc,        \* per request: new, waiting for the lock, reading, killing the child, done
  outcome,   \* per request: how the call ended
  answer,    \* history: per request, the requests whose reply it took
  lockq,     \* FIFO of the requests that wait for _exchange_lock
  started,   \* start() has run
  attached,  \* _process is not None
  child,     \* the state of the child process
  stdin,     \* requests in the child's input pipe
  stdout,    \* lines in the child's output pipe and in its reader
  closer     \* where close() is

reqVars   == <<pc, outcome, answer, lockq>>
childVars == <<child, stdin, stdout>>
vars == <<reqVars, started, attached, childVars, closer>>

\* Failures after which nobody knows what the pipe will deliver next.
Ambiguous == {"timeout", "pipe", "eof", "malformed"}
Forms     == {"ok", "error", "garbage", "long", "tail"}

TypeOK ==
  /\ pc \in [Requests -> {"new", "lock", "read", "kill", "done"}]
  /\ outcome \in [Requests -> {"none", "ok", "rejected", "down", "overrun", "cancelled"}
                                \cup Ambiguous]
  /\ answer \in [Requests -> SUBSET Requests]
  /\ lockq \in Seq(Requests)
  /\ started \in BOOLEAN /\ attached \in BOOLEAN
  /\ child \in {"none", "alive", "hung", "killed", "dead"}
  /\ stdin \in Seq(Requests)
  /\ stdout \in Seq([form : Forms, request : Requests])
  /\ closer \in {"open", "eof", "term", "kill", "closed"}

Init ==
  /\ pc = [r \in Requests |-> "new"]
  /\ outcome = [r \in Requests |-> "none"]
  /\ answer = [r \in Requests |-> {}]
  /\ lockq = <<>>
  /\ started = FALSE /\ attached = FALSE
  /\ child = "none"
  /\ stdin = <<>> /\ stdout = <<>>
  /\ closer = "open"

-----------------------------------------------------------------------------
(* _request.                                                               *)

Busy == \E r \in Requests : pc[r] \in {"read", "kill"}

\* Mutant of End: a call that found no child ends with an outcome of its own making.
EndUntyped(r, how) ==
  /\ pc' = [pc EXCEPT ![r] = "done"]
  /\ outcome' = [outcome EXCEPT ![r] = IF how = "down" THEN "unavailable" ELSE how]

End(r, how) ==
  /\ pc' = [pc EXCEPT ![r] = "done"]
  /\ outcome' = [outcome EXCEPT ![r] = how]

\* The lock is held.  That a child has died is seen only once its exit was collected.
Enter(r) ==
  \/ /\ ~attached \/ child = "dead"
     /\ End(r, "down")
     /\ UNCHANGED stdin
  \/ /\ attached
     /\ stdin' = Append(stdin, r)
     /\ pc' = [pc EXCEPT ![r] = "read"]
     /\ UNCHANGED outcome

Request(r) ==
  /\ pc[r] = "new" /\ started
  /\ r \in Admin \/ closer = "open"
  /\ \/ ~Busy /\ lockq = <<>> /\ Enter(r) /\ UNCHANGED lockq
     \/ /\ Busy \/ lockq # <<>>
        /\ pc' = [pc EXCEPT ![r] = "lock"]
        /\ lockq' = Append(lockq, r)
        /\ UNCHANGED <<outcome, stdin>>
  /\ UNCHANGED <<answer, started, attached, child, stdout, closer>>

Acquire(r) ==
  /\ ~Busy
  /\ lockq # <<>> /\ Head(lockq) = r
  /\ lockq' = Tail(lockq)
  /\ Enter(r)
  /\ UNCHANGED <<answer, started, attached, child, stdout, closer>>

\* Mutants of Invalidate: the child stays, or is forgotten but not killed, or is killed
\* but not forgotten.
InvalidateNothing(r, why) == End(r, why) /\ UNCHANGED <<attached, child>>
InvalidateForget(r, why)  == End(r, why) /\ attached' = FALSE /\ UNCHANGED child
InvalidateKill(r, why) ==
  /\ child' = IF child = "dead" THEN child ELSE "killed"
  /\ outcome' = [outcome EXCEPT ![r] = why]
  /\ pc' = [pc EXCEPT ![r] = "kill"]
  /\ UNCHANGED attached

\* _invalidate: forget the process, kill it; the call ends when it is dead.
Invalidate(r, why) ==
  /\ attached' = FALSE
  /\ child' = IF child = "dead" THEN child ELSE "killed"
  /\ outcome' = [outcome EXCEPT ![r] = why]
  /\ pc' = [pc EXCEPT ![r] = "kill"]

\* One line is read and judged.
Read(r) ==
  /\ pc[r] = "read" /\ stdout # <<>>
  /\ LET line == Head(stdout) IN
       \/ /\ line.form \in {"ok", "error"}
          /\ End(r, IF line.form = "ok" THEN "ok" ELSE "rejected")
          /\ answer' = [answer EXCEPT ![r] = {line.request}]
          /\ stdout' = Tail(stdout)
          /\ UNCHANGED <<attached, child>>
       \/ /\ line.form \in {"garbage", "tail"}
          /\ Invalidate(r, "malformed")
          /\ stdout' = Tail(stdout)
          /\ UNCHANGED answer
       \* readline() raises ValueError, which no handler names: what has arrived of
       \* the line is dropped, what has not will be read as a line of its own.
       \/ /\ line.form = "long"
          /\ End(r, "overrun")
          /\ \/ stdout' = Tail(stdout)
             \/ stdout' = <<[line EXCEPT !.form = "tail"]>> \o Tail(stdout)
          /\ UNCHANGED <<answer, attached, child>>
  /\ UNCHANGED <<lockq, started, stdin, closer>>

\* The pipe fails or ends, while the request is written or before a reply came.
ReadEnd(r) ==
  /\ pc[r] = "read" /\ child = "dead"
  /\ \/ Invalidate(r, "pipe")
     \/ stdout = <<>> /\ Invalidate(r, "eof")
  /\ UNCHANGED <<answer, lockq, started, stdin, stdout, closer>>

\* Mutant of Timeout: the wait for a reply has no deadline.
TimeoutNever(r) ==
  /\ pc[r] = "read" /\ stdout = <<>> /\ child = "dead"
  /\ Invalidate(r, "timeout")
  /\ UNCHANGED <<answer, lockq, started, stdin, stdout, closer>>

\* The deadline of drain() or of readline() passes.
Timeout(r) ==
  /\ pc[r] = "read" /\ stdout = <<>>
  /\ Invalidate(r, "timeout")
  /\ UNCHANGED <<answer, lockq, started, stdin, stdout, closer>>

\* The wait() of _invalidate returns and the call raises.
Raise(r) ==
  /\ pc[r] = "kill" /\ child = "dead"
  /\ pc' = [pc EXCEPT ![r] = "done"]
  /\ UNCHANGED <<outcome, answer, lockq, started, attached, childVars, closer>>

\* CancelledError is no handled exception: the lock is released, nothing is invalidated.
Cancel(r) ==
  /\ "cancel" \in Faults
  /\ pc[r] \in {"lock", "read", "kill"}
  /\ End(r, "cancelled")
  /\ \/ pc[r] = "lock" /\ \E i \in DOMAIN lockq : lockq[i] = r /\ lockq' = RemoveAt(lockq, i)
     \/ pc[r] # "lock" /\ UNCHANGED lockq
  /\ UNCHANGED <<answer, started, attached, childVars, closer>>

-----------------------------------------------------------------------------
(* start() and close().                                                    *)

Start ==
  /\ ~started
  /\ started' = TRUE
  /\ \/ attached' = TRUE /\ child' = "alive"
     \/ "spawn" \in Faults /\ UNCHANGED <<attached, child>>
  /\ UNCHANGED <<reqVars, stdin, stdout, closer>>

\* The ingest tasks have ended; forget the process and close its input.
Close ==
  /\ started /\ closer = "open"
  /\ \A r \in Requests \ Admin : pc[r] \in {"new", "done"}
  /\ attached' = FALSE
  /\ closer' = IF attached THEN "eof" ELSE "closed"
  /\ UNCHANGED <<reqVars, started, childVars>>

\* Mutant of Escalate: the child is asked to terminate but never killed.
EscalateOnce ==
  /\ child # "dead"
  /\ closer = "eof" /\ closer' = "term" /\ UNCHANGED child
  /\ UNCHANGED <<reqVars, started, attached, stdin, stdout>>

\* A wait() of close() exceeds the timeout: terminate, then kill.
Escalate ==
  /\ child # "dead"
  /\ \/ closer = "eof" /\ closer' = "term" /\ UNCHANGED child
     \/ closer = "term" /\ closer' = "kill" /\ child' = "killed"
  /\ UNCHANGED <<reqVars, started, attached, stdin, stdout>>

Closed ==
  /\ closer \in {"eof", "term", "kill"} /\ child = "dead"
  /\ closer' = "closed"
  /\ UNCHANGED <<reqVars, started, attached, childVars>>

-----------------------------------------------------------------------------
(* The child.                                                              *)

Serve ==
  /\ child = "alive" /\ stdin # <<>>
  /\ stdin' = Tail(stdin)
  /\ LET reply(form) == stdout' = Append(stdout, [form |-> form, request |-> Head(stdin)]) IN
       \/ \E form \in {"ok", "error"} : reply(form) /\ UNCHANGED child
       \/ \E form \in {"garbage", "long"} \cap Faults : reply(form) /\ UNCHANGED child
       \/ "hang" \in Faults /\ child' = "hung" /\ UNCHANGED stdout
       \/ "crash" \in Faults /\ child' = "dead" /\ reply("garbage")
  /\ UNCHANGED <<reqVars, started, attached, closer>>

\* The child ends: at the end of its input, at a signal, or by itself.
Exit ==
  /\ \/ child = "alive" /\ stdin = <<>> /\ closer = "eof"
     \/ child \in {"alive", "hung"} /\ (closer = "term" \/ "crash" \in Faults)
     \/ child = "killed"
  /\ child' = "dead"
  /\ UNCHANGED <<reqVars, started, attached, stdin, stdout, closer>>

-----------------------------------------------------------------------------
Next ==
  \/ \E r \in Requests : Request(r) \/ Acquire(r) \/ Read(r) \/ ReadEnd(r) \/ Timeout(r)
                           \/ Raise(r) \/ Cancel(r)
  \/ Start \/ Close \/ Escalate \/ Closed
  \/ Serve \/ Exit

Spec == Init /\ [][Next]_vars

\* The event loop runs what is ready and its timers expire; a killed process dies.  The
\* child owes nothing else.
FairSpec ==
  /\ Spec
  /\ \A r \in Requests : /\ WF_vars(Acquire(r))
                         /\ WF_vars(Read(r) \/ ReadEnd(r) \/ Timeout(r))
                         /\ WF_vars(Raise(r))
  /\ WF_vars(Escalate) /\ WF_vars(Closed)
  /\ WF_vars(child = "killed" /\ Exit)

-----------------------------------------------------------------------------
(* Properties.                                                             *)

\* Requests are serialised and replies are matched in order: the reply that a call takes
\* was computed for it, although replies carry no id and earlier replies may come late.
\* The exception the code has: a cancelled call leaves its reply in the pipe.
MatchedReplies ==
  (\A q \in Requests : outcome[q] # "cancelled") =>
    \A r \in Requests : outcome[r] \in {"ok", "rejected"} => answer[r] = {r}

\* After a timeout, a broken pipe, an end of file or a malformed reply the child is not
\* asked again, so nothing is replayed and nothing late is read.
FailedSessionNotReused == \A r \in Requests : outcome[r] \in Ambiguous => ~attached

\* A child that the adapter has forgotten is dead, or at least killed, once every call and
\* close() are over.
NoOrphans ==
  (started /\ ~attached /\ ~Busy /\ closer \in {"open", "closed"})
    => child \in {"none", "killed", "dead"}

\* Every call returns, whatever the child does, also while the adapter is closed.
ExchangesEnd == \A r \in Requests : pc[r] = "lock" \/ pc[r] = "read" ~> pc[r] = "done"

\* close() returns, also with a child that ignores the end of its input.
CloseEnds == closer # "open" ~> closer = "closed"

\* The state is well formed; an ambiguous failure ends the session, and no child is left behind.
SessionsSafe == TypeOK /\ FailedSessionNotReused /\ NoOrphans

\* Every call returns and so does close(), whichever comes first.
CallsEnd == ExchangesEnd /\ CloseEnds
=============================================================================
