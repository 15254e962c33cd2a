--------------------------- MODULE WebSocketRelay ---------------------------
(***************************************************************************)
(* _proxy_websocket and _relay_websocket of llm_log/proxy.py: the handler  *)
(* of one WebSocket starts a relay task per direction, waits for the first *)
(* of them to end, cancels the other and records one event with all frames *)
(* that were captured.  Every frame is captured, then put in the recorder's*)
(* queue, then sent on; the only wait in between is for the lock of the    *)
(* recorder, which its close() holds.  Frames of a direction are numbered, *)
(* so a prefix of them is a number.                                        *)
(***************************************************************************)
EXTENDS Naturals, Sequences

CONSTANTS
  Faults,     \* what may go wrong, see FaultKinds
  MaxFrames,  \* bound on the frames of a direction
  MaxCancels  \* bound on the cancellations of the handler

FaultKinds == {"connect",  \* the upstream handshake fails
               "prepare",  \* the client is gone before the upgrade
               "relay",    \* a source fails, or a frame cannot be journaled or sent
               "locked",   \* the recorder's lock is held when a frame is journaled
               "cancel"}   \* the server stops and cancels the handler

ASSUME WebSocketRelayAssumption ==
  Faults \subseteq FaultKinds /\ MaxFrames \in Nat /\ MaxCancels \in Nat

VARIABLES
  main,       \* where the handler is
  relay,      \* per direction: what its relay task is doing
  captured,   \* per direction: frames in client_frames, server_frames
  journaled,  \* per direction: frames put in the recorder's queue
  forwarded,  \* per direction: frames sent to the other side
  snapshot,   \* per direction: the frames of request_body, response_body
  committed,  \* downstream.prepare returned
  failed,     \* relay_failed
  cancelled,  \* cancelled is not None: to be raised at the end
  events,     \* the events handed to record()
  sockets,    \* the sockets that are open
  cancels     \* number of cancellations so far

frameVars == <<captured, journaled, forwarded>>
vars == <<main, relay, frameVars, snapshot, committed, failed, cancelled, events, sockets,
          cancels>>

Directions == {"client_to_upstream", "upstream_to_client"}
Running(d) == relay[d] \in {"read", "journal", "send"}

TypeOK ==
  /\ main \in {"connect", "prepare", "relay", "drain", "classify", "record", "close",
               "done", "aborted"}
  /\ relay \in [Directions -> {"none", "read", "journal", "send", "ok", "failed", "cancelled"}]
  /\ \A f \in {captured, journaled, forwarded, snapshot} : f \in [Directions -> 0 .. MaxFrames]
  /\ committed \in BOOLEAN /\ failed \in BOOLEAN /\ cancelled \in BOOLEAN
  /\ events \in Seq([frames : [Directions -> 0 .. MaxFrames],
                     class : {"success", "midstream_failure", "transport_failure"}])
  /\ sockets \subseteq {"upstream", "downstream"}
  /\ cancels \in 0 .. MaxCancels

Nothing == [d \in Directions |-> 0]

Init ==
  /\ main = "connect"
  /\ relay = [d \in Directions |-> "none"]
  /\ captured = Nothing /\ journaled = Nothing /\ forwarded = Nothing
  /\ snapshot = Nothing
  /\ committed = FALSE /\ failed = FALSE /\ cancelled = FALSE
  /\ events = <<>>
  /\ sockets = {}
  /\ cancels = 0

-----------------------------------------------------------------------------
(* The relay tasks.                                                        *)

Step(d, state) == relay' = [relay EXCEPT ![d] = state]
Inc(f, d)      == [f EXCEPT ![d] = @ + 1]

RelayUnchanged == UNCHANGED <<main, snapshot, committed, failed, cancelled, events, sockets,
                              cancels>>

\* Mutant of JournalAndSend: the frame is sent on before it is in the queue.
SendUnjournaled(d) ==
  /\ forwarded' = Inc(forwarded, d)
  /\ Step(d, "send")
  /\ UNCHANGED journaled

\* journal_frame() puts the frame in the queue; the send writes it, then waits.
JournalAndSend(d) ==
  /\ journaled' = Inc(journaled, d)
  /\ forwarded' = Inc(forwarded, d)
  /\ Step(d, "send")

Receive(d) ==
  /\ relay[d] = "read" /\ captured[d] < MaxFrames
  /\ captured' = Inc(captured, d)
  /\ \/ JournalAndSend(d)
     \/ "locked" \in Faults /\ Step(d, "journal") /\ UNCHANGED <<journaled, forwarded>>
     \/ "relay" \in Faults /\ Step(d, "failed") /\ UNCHANGED forwarded
        /\ (journaled' = Inc(journaled, d) \/ UNCHANGED journaled)
  /\ RelayUnchanged

Unlocked(d) ==
  /\ relay[d] = "journal"
  /\ JournalAndSend(d)
  /\ UNCHANGED captured
  /\ RelayUnchanged

Sent(d) ==
  /\ relay[d] = "send"
  /\ Step(d, "read") \/ ("relay" \in Faults /\ Step(d, "failed"))
  /\ UNCHANGED frameVars
  /\ RelayUnchanged

\* The source is closed: normally, or with an error or an abnormal close code.
SourceEnds(d) ==
  /\ relay[d] = "read"
  /\ Step(d, "ok") \/ ("relay" \in Faults /\ Step(d, "failed"))
  /\ UNCHANGED frameVars
  /\ RelayUnchanged

-----------------------------------------------------------------------------
(* The handler.                                                            *)

MainUnchanged == UNCHANGED <<captured, journaled, forwarded, cancels>>

\* Mutant of Class: a cancelled stream has a class of its own.
ClassCancelled == IF cancelled THEN "cancelled" ELSE IF ~failed THEN "success"
                  ELSE IF committed THEN "midstream_failure" ELSE "transport_failure"

Class == IF ~failed THEN "success"
         ELSE IF committed THEN "midstream_failure" ELSE "transport_failure"

\* A failed handshake is an event of its own, without frames.
Connect ==
  /\ main = "connect"
  /\ \/ main' = "prepare" /\ sockets' = {"upstream"} /\ UNCHANGED <<failed, events>>
     \/ /\ "connect" \in Faults
        /\ main' = "record" /\ failed' = TRUE
        /\ events' = Append(events, [frames |-> Nothing, class |-> "transport_failure"])
        /\ UNCHANGED sockets
  /\ UNCHANGED <<relay, snapshot, committed, cancelled>>
  /\ MainUnchanged

Prepare ==
  /\ main = "prepare"
  /\ \/ /\ main' = "relay" /\ committed' = TRUE
        /\ sockets' = sockets \cup {"downstream"}
        /\ relay' = [d \in Directions |-> "read"]
        /\ UNCHANGED failed
     \/ /\ "prepare" \in Faults
        /\ main' = "classify" /\ failed' = TRUE
        /\ UNCHANGED <<committed, relay, sockets>>
  /\ UNCHANGED <<snapshot, cancelled, events>>
  /\ MainUnchanged

\* Mutant of StopRelays: the other relay is left alone.
LeaveRelays == UNCHANGED relay

\* The finally clause cancels a task that is not done at the await it has reached.
StopRelays == relay' = [d \in Directions |-> IF Running(d) THEN "cancelled" ELSE relay[d]]

\* asyncio.wait returns: a relay has ended, with a result or with an exception.
FirstCompleted ==
  /\ main = "relay"
  /\ \E d \in Directions : ~Running(d)
  /\ failed' = \E d \in Directions : relay[d] = "failed"
  /\ StopRelays
  /\ main' = "drain"
  /\ UNCHANGED <<snapshot, committed, cancelled, events, sockets>>
  /\ MainUnchanged

\* Mutant of Snapshot: only what was captured of the client is kept.
SnapshotOfRequest == snapshot' = [captured EXCEPT !["upstream_to_client"] = 0]

Snapshot == snapshot' = captured

\* gather() of the finally clause: both tasks are done and the bodies are final.
Drained ==
  /\ main = "drain"
  /\ \A d \in Directions : ~Running(d)
  /\ Snapshot
  /\ main' = "classify"
  /\ UNCHANGED <<relay, committed, failed, cancelled, events, sockets>>
  /\ MainUnchanged

\* The classifier has answered; record() puts the event in the recorder's queue.
Classified ==
  /\ main = "classify"
  /\ events' = Append(events, [frames |-> snapshot, class |-> Class])
  /\ main' = "record"
  /\ UNCHANGED <<relay, snapshot, committed, failed, cancelled, sockets>>
  /\ MainUnchanged

\* record() returns or raises: the sockets are closed either way.
Recorded ==
  /\ main = "record"
  /\ main' = "close"
  /\ UNCHANGED <<relay, snapshot, committed, failed, cancelled, events, sockets>>
  /\ MainUnchanged

\* Mutant of CloseSockets: the socket of the provider is forgotten.
CloseDownstream ==
  /\ main = "close"
  /\ sockets' = sockets \ {"downstream"}
  /\ main' = "done"
  /\ UNCHANGED <<relay, snapshot, committed, failed, cancelled, events>>
  /\ MainUnchanged

CloseSockets ==
  /\ main = "close"
  /\ sockets' = {}
  /\ main' = "done"
  /\ UNCHANGED <<relay, snapshot, committed, failed, cancelled, events>>
  /\ MainUnchanged

\* Mutant of CancelRelays: the cancellation is raised again at once.
CancelEscapes == main' = "aborted" /\ cancelled' = TRUE /\ StopRelays /\ UNCHANGED failed

\* A cancellation that finds the handler in asyncio.wait is kept for the end.
CancelRelays ==
  /\ main' = "drain" /\ failed' = TRUE /\ cancelled' = TRUE
  /\ StopRelays

\* Elsewhere it ends the handler: before the relays and after them without an event; at
\* record() the event is in the queue already, and the finally clause still runs.
Cancel ==
  /\ "cancel" \in Faults /\ cancels < MaxCancels
  /\ cancels' = cancels + 1
  /\ \/ main = "relay" /\ CancelRelays
     \/ /\ main = "prepare"   \* caught as well, but no relay has been started
        /\ main' = "classify" /\ failed' = TRUE /\ cancelled' = TRUE
        /\ UNCHANGED relay
     \/ /\ main \in {"connect", "drain", "classify", "close"}
        /\ main' = "aborted"
        /\ UNCHANGED <<relay, failed, cancelled>>
     \/ main = "record" /\ main' = "close" /\ UNCHANGED <<relay, failed, cancelled>>
  /\ UNCHANGED <<frameVars, snapshot, committed, events, sockets>>

-----------------------------------------------------------------------------
Handler == Connect \/ Prepare \/ FirstCompleted \/ Drained \/ Classified \/ Recorded
             \/ CloseSockets

Next ==
  \/ \E d \in Directions : Receive(d) \/ Unlocked(d) \/ Sent(d) \/ SourceEnds(d)
  \/ Handler
  \/ Cancel

Spec == Init /\ [][Next]_vars

\* The event loop runs the handler whenever what it waits for has happened.
FairSpec == Spec /\ WF_vars(Handler)

-----------------------------------------------------------------------------
(* Properties.                                                             *)

\* Nothing is sent on that is not in the recorder's queue already, and nothing is
\* journaled that the event will not contain.
JournaledBeforeForwarded ==
  \A d \in Directions : forwarded[d] <= journaled[d] /\ journaled[d] <= captured[d]

\* The event holds every frame that either side ever received through the proxy, those of
\* the direction that was cancelled included, and no frame is journaled or sent after it.
EventCoversForwarded ==
  \A i \in DOMAIN events : \A d \in Directions :
    forwarded[d] <= journaled[d] /\ journaled[d] <= events[i].frames[d]

\* A handler that has ended by itself has handed over exactly one event, has closed both
\* sockets, and its relay tasks have ended.
CleanEnd ==
  main = "done" => Len(events) = 1 /\ sockets = {} /\ \A d \in Directions : ~Running(d)

\* A cancellation while frames are relayed does not lose the event: the handler goes on
\* to record it as a failure of the stream, unless it is cancelled once more.
CancelledIsRecorded ==
  (main \in {"done", "aborted"} /\ cancels = 1 /\ cancelled)
    => Len(events) = 1 /\ events[1].class # "success"

\* Once one direction has ended, the handler ends, although the other side never would.
EitherEndEndsBoth ==
  (\E d \in Directions : relay[d] \in {"ok", "failed"}) ~> main \in {"done", "aborted"}

\* The state is well formed, and queue, journal and event stay ahead of what is sent on.
JournalSafe == TypeOK /\ JournaledBeforeForwarded /\ EventCoversForwarded

\* However the handler ends, by itself or cancelled once, it hands over one event and leaves
\* neither a socket nor a task behind.
EndRecorded == CleanEnd /\ CancelledIsRecorded
=============================================================================
