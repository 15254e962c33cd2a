--------------------------- MODULE ProxyTaskProofs --------------------------
(***************************************************************************)
(* Proofs about two handlers of the proxy that run tasks of their own:     *)
(* WebSocketRelay, for any bounds and faults, and QuotaActor, for any      *)
(* providers, any number of refreshes and any length of time.  Names that  *)
(* have Quota or Refresh in them belong to the second.                     *)
(***************************************************************************)
EXTENDS WebSocketRelay, QuotaActor, FiniteSetTheorems, WellFoundedInduction,
        Functions, TLAPS

-----------------------------------------------------------------------------
(* WebSocketRelay.                                                         *)

USE WebSocketRelayAssumption

\* A relay task is alive only while the handler waits for one of them to end, and a frame
\* that waits for the recorder's lock has been captured but not journaled.
RelaysOwned ==
  \A d \in Directions :
    /\ Running(d) => main = "relay"
    /\ main \in {"connect", "prepare"} => captured[d] = 0
    /\ relay[d] = "journal" => journaled[d] < captured[d]

\* One event, made when the bodies are final: it holds what was captured.
EventsCover ==
  /\ main \in {"connect", "prepare", "relay", "drain", "classify"} => events = <<>>
  /\ main \in {"record", "close", "done"} => Len(events) = 1
  /\ main = "classify" => snapshot = captured
  /\ main \in {"connect", "prepare"} => snapshot = captured
  /\ events # <<>> => /\ Len(events) = 1 /\ events[1].frames = captured
                      /\ main \in {"record", "close", "done", "aborted"}
  /\ main = "done" => sockets = {}

\* A cancellation that was kept is a failure, and the handler is not aborted by it.
CancelsKept ==
  /\ cancelled => /\ failed /\ cancels > 0 /\ main \notin {"connect", "prepare", "relay"}
                  /\ main = "aborted" => cancels > 1
  /\ cancelled /\ events # <<>> => events[1].class # "success"

RelayInv ==
  /\ TypeOK /\ JournaledBeforeForwarded
  /\ RelaysOwned /\ EventsCover /\ CancelsKept

-----------------------------------------------------------------------------
LEMMA RelayInit == Init => RelayInv
<1> SUFFICES ASSUME Init PROVE RelayInv
  OBVIOUS
<1>1. \A S : <<>> \in Seq(S)
  OBVIOUS
<1>2. events = <<>> /\ Nothing \in [Directions -> 0 .. MaxFrames] /\ \A d \in Directions : Nothing[d] = 0
  BY DEF Init, Nothing
<1> DEFINE Event == [frames : [Directions -> 0 .. MaxFrames],
                     class : {"success", "midstream_failure", "transport_failure"}]
<1>3. TypeOK
  <2>1. events \in Seq(Event)
    BY <1>1, <1>2
  <2>2. \A f \in {captured, journaled, forwarded, snapshot} : f \in [Directions -> 0 .. MaxFrames]
    BY <1>2 DEF Init
  <2>3. relay \in [Directions -> {"none", "read", "journal", "send", "ok", "failed", "cancelled"}]
    BY DEF Init
  <2>4. cancels \in 0 .. MaxCancels /\ sockets \subseteq {"upstream", "downstream"}
    BY DEF Init
  <2> HIDE DEF Event
  <2> QED
    BY <2>1, <2>2, <2>3, <2>4 DEF Init, TypeOK, Event
<1>4. JournaledBeforeForwarded /\ RelaysOwned
  BY <1>2 DEF Init, JournaledBeforeForwarded, RelaysOwned, Running
<1>5. EventsCover /\ CancelsKept
  BY DEF Init, EventsCover, CancelsKept
<1> QED
  BY <1>3, <1>4, <1>5 DEF RelayInv

\* The event that the handler hands over.
LEMMA OneMoreEvent ==
  ASSUME TypeOK, NEW frames \in [Directions -> 0 .. MaxFrames],
         NEW class \in {"success", "midstream_failure", "transport_failure"}, events = <<>>,
         events' = Append(events, [frames |-> frames, class |-> class])
  PROVE  /\ events' \in Seq([frames : [Directions -> 0 .. MaxFrames],
                             class : {"success", "midstream_failure", "transport_failure"}])
         /\ Len(events') = 1 /\ events'[1].frames = frames /\ events'[1].class = class
         /\ events' # <<>>
<1> DEFINE event == [frames |-> frames, class |-> class]
           Event == [frames : [Directions -> 0 .. MaxFrames],
                     class : {"success", "midstream_failure", "transport_failure"}]
<1>1. event \in Event /\ event.frames = frames /\ event.class = class
  OBVIOUS
<1>2. events' = <<event>>
  OBVIOUS
<1> HIDE DEF event, Event
<1>3. events' \in Seq(Event) /\ Len(events') = 1 /\ events'[1] = event
  BY <1>1, <1>2
<1> QED
  BY <1>1, <1>3 DEF Event

\* A step of a relay task: the handler has not collected its frames.
LEMMA TaskStep ==
  ASSUME RelayInv, NEW d \in Directions, Receive(d) \/ Unlocked(d) \/ Sent(d) \/ SourceEnds(d)
  PROVE  RelayInv'
<1> USE DEF RelayInv
<1>1. /\ Running(d) /\ main = "relay"
      /\ UNCHANGED <<main, snapshot, committed, failed, cancelled, events, sockets, cancels>>
  BY DEF Receive, Unlocked, Sent, SourceEnds, Running, RelaysOwned, RelayUnchanged
<1>2. relay' \in [Directions -> {"none", "read", "journal", "send", "ok", "failed", "cancelled"}]
      /\ \A e \in Directions : e # d => relay'[e] = relay[e]
  BY DEF Receive, Unlocked, Sent, SourceEnds, JournalAndSend, Step, TypeOK
<1>3. /\ captured[d] \in 0 .. MaxFrames /\ journaled[d] \in 0 .. MaxFrames
      /\ forwarded[d] \in 0 .. MaxFrames /\ forwarded[d] <= journaled[d] /\ journaled[d] <= captured[d]
      /\ relay[d] = "journal" => journaled[d] < captured[d]
  BY DEF TypeOK, JournaledBeforeForwarded, RelaysOwned
<1>4. /\ \A f \in {captured', journaled', forwarded'} : f \in [Directions -> 0 .. MaxFrames]
      /\ \A e \in Directions : e # d => captured'[e] = captured[e] /\ journaled'[e] = journaled[e]
                                        /\ forwarded'[e] = forwarded[e]
      /\ forwarded'[d] <= journaled'[d] /\ journaled'[d] <= captured'[d]
      /\ relay'[d] = "journal" => journaled'[d] < captured'[d]
  <2>0. /\ relay \in [Directions -> {"none", "read", "journal", "send", "ok", "failed", "cancelled"}]
        /\ captured \in [Directions -> 0 .. MaxFrames] /\ journaled \in [Directions -> 0 .. MaxFrames]
        /\ forwarded \in [Directions -> 0 .. MaxFrames] /\ MaxFrames \in Nat
    BY DEF TypeOK
  <2>1. CASE Receive(d)
    <3>1. /\ captured' = [captured EXCEPT ![d] = @ + 1] /\ captured[d] + 1 \in 0 .. MaxFrames
          /\ journaled[d] + 1 \in 0 .. MaxFrames /\ forwarded[d] + 1 \in 0 .. MaxFrames
      BY <1>3, <2>0, <2>1 DEF Receive, Inc
    <3>2. /\ journaled' = journaled \/ journaled' = [journaled EXCEPT ![d] = @ + 1]
          /\ \/ forwarded' = forwarded
             \/ journaled' = [journaled EXCEPT ![d] = @ + 1] /\ forwarded' = [forwarded EXCEPT ![d] = @ + 1]
      BY <2>1 DEF Receive, JournalAndSend, Inc
    <3>3. relay'[d] = "journal" => journaled' = journaled
      BY <2>0, <2>1 DEF Receive, JournalAndSend, Step
    <3> QED
      BY <1>3, <2>0, <3>1, <3>2, <3>3
  <2>2. CASE Unlocked(d)
    <3>1. /\ captured' = captured /\ journaled' = [journaled EXCEPT ![d] = @ + 1]
          /\ forwarded' = [forwarded EXCEPT ![d] = @ + 1] /\ relay'[d] = "send"
          /\ journaled[d] + 1 \in 0 .. MaxFrames /\ forwarded[d] + 1 \in 0 .. MaxFrames
          /\ journaled[d] + 1 <= captured[d]
      BY <1>3, <2>0, <2>2 DEF Unlocked, JournalAndSend, Inc, Step
    <3> QED
      BY <1>3, <2>0, <3>1
  <2>3. CASE Sent(d) \/ SourceEnds(d)
    BY <1>3, <2>3 DEF Sent, SourceEnds, Step, TypeOK, frameVars
  <2> QED
    BY <2>1, <2>2, <2>3
<1>5. TypeOK'
  BY <1>1, <1>2, <1>4 DEF TypeOK
<1>6. JournaledBeforeForwarded'
  BY <1>4 DEF JournaledBeforeForwarded
<1>7. RelaysOwned'
  BY <1>1, <1>2, <1>4 DEF RelaysOwned, Running
<1>8. EventsCover' /\ CancelsKept'
  BY <1>1 DEF EventsCover, CancelsKept
<1> QED
  BY <1>5, <1>6, <1>7, <1>8

\* A step of the handler that ends the relay tasks, or leaves them as they are.
LEMMA HandlerStep ==
  ASSUME RelayInv, Handler \/ Cancel PROVE RelayInv'
<1> USE DEF RelayInv
<1>1. UNCHANGED <<captured, journaled, forwarded>>
  BY DEF Handler, Connect, Prepare, FirstCompleted, Drained, Classified, Recorded, CloseSockets,
         Cancel, MainUnchanged, frameVars
<1>2. cancels' \in 0 .. MaxCancels /\ cancels <= cancels' /\ (Cancel => cancels' = cancels + 1)
  <2>1. cancels \in 0 .. MaxCancels /\ MaxCancels \in Nat
    BY DEF TypeOK
  <2>2. CASE Cancel
    <3>1. cancels' = cancels + 1 /\ cancels < MaxCancels
      BY <2>2 DEF Cancel
    <3> QED
      BY <2>1, <3>1
  <2>3. CASE Handler /\ ~Cancel
    <3>1. cancels' = cancels
      BY <2>3 DEF Handler, Connect, Prepare, FirstCompleted, Drained, Classified, Recorded, CloseSockets,
                  MainUnchanged
    <3> QED
      BY <2>1, <2>3, <3>1
  <2> QED
    BY <2>2, <2>3
<1>3. relay' \in [Directions -> {"none", "read", "journal", "send", "ok", "failed", "cancelled"}]
      /\ \A d \in Directions : relay'[d] # "journal" \/ relay'[d] = relay[d]
  BY DEF Handler, Connect, Prepare, FirstCompleted, Drained, Classified, Recorded, CloseSockets,
         Cancel, CancelRelays, StopRelays, Running, TypeOK
<1>4. RelaysOwned'
  BY <1>1, <1>3 DEF RelaysOwned, Running, Handler, Connect, Prepare, FirstCompleted, Drained,
         Classified, Recorded, CloseSockets, Cancel, CancelRelays, StopRelays, TypeOK
<1>5. JournaledBeforeForwarded'
  BY <1>1 DEF JournaledBeforeForwarded
<1>6. ASSUME events' = events,
             \/ (Connect /\ main' = "prepare") \/ Prepare \/ FirstCompleted \/ Drained
             \/ Recorded \/ CloseSockets \/ Cancel
      PROVE  RelayInv'
  <2>1. TypeOK'
    BY <1>1, <1>2, <1>3, <1>6 DEF TypeOK, Connect, Prepare, FirstCompleted, Drained, Snapshot,
           Recorded, CloseSockets, Cancel, CancelRelays
  <2>0. cancels \in Nat /\ cancels' \in Nat
    BY <1>2 DEF TypeOK
  <2>2. CASE Connect /\ main' = "prepare"
    BY <1>1, <1>2, <1>6, <2>1, <2>2, <1>4, <1>5 DEF EventsCover, CancelsKept, Connect
  <2>3. CASE Prepare
    BY <1>1, <1>2, <1>6, <2>1, <2>3, <1>4, <1>5 DEF EventsCover, CancelsKept, Prepare
  <2>4. CASE FirstCompleted
    BY <1>1, <1>2, <1>6, <2>1, <2>4, <1>4, <1>5 DEF EventsCover, CancelsKept, FirstCompleted
  <2>5. CASE Drained
    <3>1. EventsCover'
      BY <1>1, <1>6, <2>5 DEF EventsCover, Drained, Snapshot
    <3>2. CancelsKept'
      BY <1>2, <1>6, <2>0, <2>5 DEF EventsCover, CancelsKept, Drained, Snapshot, MainUnchanged
    <3> QED
      BY <1>4, <1>5, <2>1, <3>1, <3>2
  <2>6. CASE Recorded
    <3>1. EventsCover'
      BY <1>1, <1>6, <2>6 DEF EventsCover, Recorded
    <3>2. CancelsKept'
      BY <1>2, <1>6, <2>0, <2>6 DEF EventsCover, CancelsKept, Recorded, MainUnchanged
    <3> QED
      BY <1>4, <1>5, <2>1, <3>1, <3>2
  <2>7. CASE CloseSockets
    <3>1. EventsCover'
      BY <1>1, <1>6, <2>7 DEF EventsCover, CloseSockets
    <3>2. CancelsKept'
      BY <1>2, <1>6, <2>0, <2>7 DEF EventsCover, CancelsKept, CloseSockets, MainUnchanged
    <3> QED
      BY <1>4, <1>5, <2>1, <3>1, <3>2
  <2>8. CASE Cancel
    <3>1. EventsCover'
      BY <1>1, <1>6, <2>8 DEF EventsCover, Cancel, CancelRelays
    <3>2. CancelsKept'
      BY <1>2, <1>6, <2>0, <2>8 DEF EventsCover, CancelsKept, Cancel, CancelRelays
    <3> QED
      BY <1>4, <1>5, <2>1, <3>1, <3>2
  <2> QED
    BY <1>6, <2>2, <2>3, <2>4, <2>5, <2>6, <2>7, <2>8
<1>7. CASE Connect /\ main' = "record"
  <2>1. /\ events = <<>> /\ events' = Append(events, [frames |-> Nothing, class |-> "transport_failure"])
        /\ Nothing \in [Directions -> 0 .. MaxFrames] /\ \A d \in Directions : Nothing[d] = 0
    BY <1>7 DEF Connect, EventsCover, Nothing
  <2>2. captured = Nothing
    BY <1>7, <2>1 DEF Connect, RelaysOwned, TypeOK
  <2>3. TypeOK'
    BY <1>1, <1>2, <1>3, <1>7, <2>1, OneMoreEvent DEF TypeOK, Connect
  <2>4. EventsCover' /\ CancelsKept'
    BY <1>1, <1>2, <1>7, <2>1, <2>2, OneMoreEvent DEF EventsCover, CancelsKept, Connect, TypeOK
  <2> QED
    BY <1>4, <1>5, <2>3, <2>4
<1>8. CASE Classified
  <2>1. /\ events = <<>> /\ events' = Append(events, [frames |-> snapshot, class |-> Class])
        /\ snapshot \in [Directions -> 0 .. MaxFrames] /\ snapshot = captured
        /\ Class \in {"success", "midstream_failure", "transport_failure"}
        /\ failed => Class # "success"
    BY <1>8 DEF Classified, EventsCover, Class, TypeOK
  <2>2. TypeOK'
    BY <1>1, <1>2, <1>3, <1>8, <2>1, OneMoreEvent DEF TypeOK, Classified
  <2>3. EventsCover' /\ CancelsKept'
    BY <1>1, <1>2, <1>8, <2>1, OneMoreEvent DEF EventsCover, CancelsKept, Classified, TypeOK
  <2> QED
    BY <1>4, <1>5, <2>2, <2>3
<1> QED
  BY <1>6, <1>7, <1>8 DEF Handler, Connect, Prepare, FirstCompleted, Drained, Recorded, CloseSockets, Cancel

LEMMA RelayInvariant == Spec => []RelayInv
<1>1. RelayInv /\ [Next]_vars => RelayInv'
  <2> SUFFICES ASSUME RelayInv, [Next]_vars PROVE RelayInv'
    OBVIOUS
  <2>1. CASE UNCHANGED vars
    BY <2>1 DEF RelayInv, vars, frameVars, TypeOK, JournaledBeforeForwarded, RelaysOwned, Running,
                EventsCover, CancelsKept
  <2> QED
    BY <2>1, TaskStep, HandlerStep DEF Next
<1> QED
  BY <1>1, RelayInit, PTL DEF Spec

\* JournalSafe for any number of frames and cancellations: what was sent on was queued for the
\* journal before, and the event of the socket holds all of it.
THEOREM ForwardedIsJournaled == Spec => []JournalSafe
<1>1. RelayInv => JournalSafe
  <2> SUFFICES ASSUME RelayInv PROVE EventCoversForwarded
    BY DEF RelayInv, JournalSafe
  <2>1. \A i \in DOMAIN events : i = 1 /\ events[1].frames = captured
    BY DEF RelayInv, EventsCover, TypeOK
  <2> QED
    BY <2>1 DEF RelayInv, EventCoversForwarded, JournaledBeforeForwarded
<1> QED
  BY <1>1, RelayInvariant, PTL

\* EndRecorded for any number of frames and cancellations: a handler that ended by itself, or was
\* cancelled once while it relayed, handed over one event and left no socket and no task.
THEOREM SocketsEndRecorded == Spec => []EndRecorded
<1>1. RelayInv => EndRecorded
  BY DEF RelayInv, EndRecorded, CleanEnd, CancelledIsRecorded, EventsCover, CancelsKept, RelaysOwned
<1> QED
  BY <1>1, RelayInvariant, PTL

HIDE WebSocketRelayAssumption

-----------------------------------------------------------------------------
(* QuotaActor: children end with their calls.                              *)

\* The part of QuotaTypeOK that the proof uses.
CallType ==
  /\ stage \in {"off", "gather", "cancelling", "persist"}
  /\ of \in 0 .. MaxCalls /\ (stage # "off" => of # 0)
  /\ call \in [Providers -> [pc : {"off", "ask", "reap", "put"}, result : Results \cup {None}]]
  /\ child \in [Providers -> SUBSET (1 .. MaxCalls)]
  /\ \A p \in Providers : call[p].pc \in {"ask", "reap", "put"} => stage \in {"gather", "cancelling"}

\* Only a child process is waited for, and a task that is being cancelled is waiting for it.
ReapsChildren == \A p \in Providers : call[p].pc = "reap" => p \in Children

\* The children of earlier refreshes have ended with them, and only an adapter that is a
\* child process has any.
OldChildrenGone ==
  \A p \in Providers : /\ child[p] \ {of} \subseteq interrupted
                       /\ p \notin Children => child[p] = {}

ChildInv == CallType /\ ReapsChildren /\ OldChildrenGone /\ NoChildLeft

USE QuotaActorAssumption

LEMMA ChildInit == QuotaInit => ChildInv
<1> SUFFICES ASSUME QuotaInit PROVE ChildInv
  OBVIOUS
<1>1. CallType
  BY DEF QuotaInit, CallType, NoCall
<1>2. ReapsChildren /\ OldChildrenGone /\ NoChildLeft
  BY DEF QuotaInit, ReapsChildren, OldChildrenGone, NoChildLeft, NoCall
<1> QED
  BY <1>1, <1>2 DEF ChildInv

LEMMA ChildStep == ChildInv /\ [QuotaNext]_quotaVars => ChildInv'
<1> SUFFICES ASSUME ChildInv, [QuotaNext]_quotaVars PROVE ChildInv'
  OBVIOUS
<1> USE DEF ChildInv
<1>1. CASE Begin
  <2>1. CallType'
    BY <1>1 DEF Begin, CallType, NoCall
  <2>2. ReapsChildren'
    BY <1>1 DEF Begin, ReapsChildren, NoCall
  <2>3. \A p \in Providers : call[p].pc = "off"
    BY <1>1 DEF Begin, CallType
  <2>4. \A p \in Providers : child[p] \subseteq interrupted
    BY <2>3 DEF NoChildLeft
  <2>5. OldChildrenGone'
    BY <1>1, <2>4 DEF Begin, OldChildrenGone, CallType
  <2>6. NoChildLeft'
    BY <1>1, <2>4 DEF Begin, OldChildrenGone, NoChildLeft, CallType, NoCall
  <2> QED
    BY <2>1, <2>2, <2>5, <2>6
<1>2. ASSUME NEW p \in Providers, NEW kind \in Kinds, NEW wait \in Retries \cup {1},
             Ended(p, kind, wait)
      PROVE  ChildInv'
  <2>1. CallType'
    BY <1>2 DEF Ended, CallType, Results
  <2>2. ReapsChildren' /\ OldChildrenGone'
    BY <1>2 DEF Ended, ReapsChildren, OldChildrenGone, CallType
  <2>3. NoChildLeft'
    BY <1>2 DEF Ended, OldChildrenGone, NoChildLeft, CallType
  <2> QED
    BY <2>1, <2>2, <2>3
<1>3. ASSUME NEW p \in Providers, Reap(p) PROVE ChildInv'
  <2>1. CallType'
    BY <1>3 DEF Reap, Resumed, CallType, NoCall
  <2>2. ReapsChildren' /\ OldChildrenGone'
    BY <1>3 DEF Reap, Resumed, ReapsChildren, OldChildrenGone, CallType, NoCall
  <2>3. NoChildLeft'
    BY <1>3 DEF Reap, OldChildrenGone, NoChildLeft, CallType
  <2> QED
    BY <2>1, <2>2, <2>3
<1>4. ASSUME NEW p \in Providers, Interrupt(p) PROVE ChildInv'
  <2>1. CallType'
    BY <1>4 DEF Interrupt, CallType, Results, Kinds
  <2>2. ReapsChildren' /\ OldChildrenGone'
    BY <1>4 DEF Interrupt, ReapsChildren, OldChildrenGone, CallType
  <2>3. NoChildLeft'
    BY <1>4 DEF Interrupt, OldChildrenGone, NoChildLeft, CallType
  <2> QED
    BY <2>1, <2>2, <2>3
<1>5. ASSUME NEW p \in Providers, Put(p) PROVE ChildInv'
  <2>1. CallType'
    BY <1>5 DEF Put, CallType, NoCall
  <2>2. ReapsChildren' /\ OldChildrenGone' /\ NoChildLeft'
    BY <1>5 DEF Put, ReapsChildren, OldChildrenGone, NoChildLeft, CallType, NoCall
  <2> QED
    BY <2>1, <2>2
<1>6. CASE CancelRefresh
  <2>1. CallType'
    BY <1>6 DEF CancelRefresh, CallType, NoCall
  <2>2. ReapsChildren' /\ OldChildrenGone'
    BY <1>6 DEF CancelRefresh, ReapsChildren, OldChildrenGone, CallType, NoCall
  <2>3. ASSUME NEW p \in Providers, call'[p].pc \in {"off", "put"}
        PROVE  child[p] \subseteq interrupted'
    <3>1. CASE call[p].pc \in {"off", "put"}
      BY <1>6, <3>1 DEF CancelRefresh, NoChildLeft
    <3>2. CASE call[p].pc = "reap"
      BY <1>6, <3>2 DEF CancelRefresh, OldChildrenGone
    <3>3. CASE call[p].pc = "ask"
      BY <1>6, <2>3, <3>3 DEF CancelRefresh, OldChildrenGone
    <3> QED
      BY <3>1, <3>2, <3>3 DEF CallType
  <2>4. NoChildLeft'
    BY <1>6, <2>3 DEF CancelRefresh, NoChildLeft
  <2> QED
    BY <2>1, <2>2, <2>4
<1>7. CASE Apply
  BY <1>7 DEF Apply, AllEnded, CallType, ReapsChildren, OldChildrenGone, NoChildLeft
<1>8. CASE EndCancel
  BY <1>8 DEF EndCancel, AllEnded, CallType, ReapsChildren, OldChildrenGone, NoChildLeft
<1>9. CASE Persist
  BY <1>9 DEF Persist, CallType, ReapsChildren, OldChildrenGone, NoChildLeft
<1>10. CASE Tick
  BY <1>10 DEF Tick, CallType, ReapsChildren, OldChildrenGone, NoChildLeft
<1>11. CASE UNCHANGED quotaVars
  BY <1>11 DEF quotaVars, CallType, ReapsChildren, OldChildrenGone, NoChildLeft
<1>12. ASSUME NEW p \in Providers, Reply(p) \/ Timeout(p) PROVE ChildInv'
  <2>1. \E kind \in Kinds, wait \in Retries \cup {1} : Ended(p, kind, wait)
    BY <1>12 DEF Reply, Timeout, Kinds
  <2> QED
    BY <1>2, <2>1
<1> QED
  BY <1>1, <1>3, <1>4, <1>5, <1>6, <1>7, <1>8, <1>9, <1>10, <1>11, <1>12 DEF QuotaNext

\* NoChildLeft, for any number of providers and refreshes: the Codex child of a call ends with
\* the call, whether it is answered, times out or is cancelled, unless the wait for its end
\* is interrupted.
THEOREM ChildEndsWithCall == QuotaSpec => []NoChildLeft
<1>1. ChildInv => NoChildLeft
  BY DEF ChildInv
<1> QED
  BY ChildInit, ChildStep, <1>1, PTL DEF QuotaSpec

HIDE QuotaActorAssumption

-----------------------------------------------------------------------------
(* QuotaActor: answers and when they are asked for.                        *)

LEMMA Induction == ASSUME NEW S, 0 \in S, \A n \in Nat : n \in S => n + 1 \in S PROVE Nat \subseteq S
<1> DEFINE T == Nat \ S
           R == OpToRel(<, Nat)
<1> SUFFICES ASSUME T # {} PROVE FALSE
  OBVIOUS
<1>1. \E x \in T : \A y \in T : ~(<<y, x>> \in R)
  <2>1. IsWellFoundedOn(R, Nat)
    BY NatLessThanWellFounded
  <2> HIDE DEF R
  <2> QED
    BY <2>1, WFMin
<1>2. PICK x \in T : \A y \in T : ~(<<y, x>> \in R)
  BY <1>1
<1>3. x - 1 \in Nat /\ x - 1 < x /\ (x - 1) + 1 = x
  OBVIOUS
<1>4. <<x - 1, x>> \in R
  BY <1>3 DEF OpToRel
<1> QED
  BY <1>2, <1>3, <1>4

LEMMA TakenEquation ==
  ASSUME NEW N \in Nat, Len(inbox) = N
  PROVE  Taken = [k \in 0 .. N |-> IF k = 0 THEN [shown |-> published, due |-> due]
                                            ELSE Take(Taken[k - 1], inbox[k])]
<1> DEFINE Base == [shown |-> published, due |-> due]
           Next_(g, k) == Take(g[k - 1], inbox[k])
           Upto(g, n) == g = [k \in 0 .. n |-> IF k = 0 THEN Base ELSE Next_(g, k)]
           S == {n \in Nat : \E g : Upto(g, n)}
<1>1. 0 \in S
  <2> Upto([k \in {0} |-> Base], 0)
    OBVIOUS
  <2> QED OBVIOUS
<1>2. ASSUME NEW n \in Nat, n \in S PROVE n + 1 \in S
  <2>1. PICK g : Upto(g, n)
    BY <1>2
  <2> DEFINE h == [k \in 0 .. n + 1 |-> IF k \in 0 .. n THEN g[k] ELSE Next_(g, k)]
  <2>2. Upto(h, n + 1)
    <3>1. ASSUME NEW k \in 0 .. n + 1 PROVE h[k] = IF k = 0 THEN Base ELSE Next_(h, k)
      <4>1. CASE k = 0
        BY <2>1, <4>1
      <4>2. CASE k # 0
        <5>1. k - 1 \in 0 .. n /\ h[k - 1] = g[k - 1]
          BY <4>2
        <5>2. h[k] = Next_(g, k)
          <6> HIDE DEF Next_
          <6> QED BY <4>2, <2>1
        <5> QED BY <4>2, <5>1, <5>2
      <4> QED BY <4>1, <4>2
    <3> HIDE DEF Next_
    <3> QED BY <3>1
  <2>3. \E f : Upto(f, n + 1)
    <3> HIDE DEF Upto, h
    <3> QED BY <2>2
  <2> QED BY <2>3
<1>3. N \in S
  <2> HIDE DEF S
  <2> QED BY <1>1, <1>2, Induction
<1>4. PICK g : Upto(g, N)
  BY <1>3
<1> QED
  BY <1>4 DEF Taken

-----------------------------------------------------------------------------
LEMMA Bounds == /\ MaxTime \in Nat \ {0} /\ MaxCalls \in Nat /\ None \notin Results
                /\ IsFiniteSet(Providers)
  BY QuotaActorAssumption DEF QuotaActorAssumption

LEMMA WaitType == \A w \in Retries \cup {1} : w \in Nat
<1>1. \A w \in Retries : w \in Nat
  BY QuotaActorAssumption DEF QuotaActorAssumption
<1>2. \A w \in {1} : w \in Nat
  OBVIOUS
<1>3. \A w \in Retries \cup {1} : w \in Retries \/ w \in {1}
  OBVIOUS
<1> QED
  BY <1>1, <1>2, <1>3, Zenon

LEMMA DelayType == ASSUME NEW r \in Results PROVE Delay(r) \in Nat
<1>1. r.wait \in Retries \cup {1}
  BY DEF Results
<1>2. r.wait \in Nat
  BY <1>1, WaitType
<1>3. Delay(r) = r.wait \/ Delay(r) = 1
  BY DEF Delay
<1> QED
  BY <1>2, <1>3

USE Bounds DEF clocks

Entries == [from : Providers, result : Results]

\* QuotaTypeOK with what a call and its result may be.
QuotaType ==
  /\ QuotaTypeOK
  /\ call \in [Providers -> [pc : {"off", "ask", "reap", "put"}, result : Results \cup {None}]]

\* Refreshes are numbered, and only one that is over was dropped.
RefreshesOrdered ==
  /\ dropped \subseteq 1 .. of
  /\ stage # "off" => of \in 1 .. MaxCalls
  /\ stage \in {"gather", "persist"} => of \notin dropped
  /\ \A p \in Providers : /\ published[p].of <= of /\ published[p].of \notin dropped
                          /\ stage = "gather" => published[p].of < of

\* What a call has in its hands while the refresh collects answers, and while it is cancelled.
CallsOwn ==
  \A p \in Providers :
    /\ call[p].pc # "off" => p \in asked /\ stage \in {"gather", "cancelling"}
    /\ stage = "gather" => (call[p].pc \in {"reap", "put"} => call[p].result # None)
    /\ stage = "cancelling" => call[p].pc \in {"off", "reap"} /\ call[p].result = None
    /\ call[p].result # None => call[p].result.of = of

\* Whose answer is in the inbox has ended its call, and who ended it has one answer there.
InboxOwn ==
  /\ inbox # <<>> => stage \in {"gather", "cancelling"}
  /\ \A k \in DOMAIN inbox : /\ inbox[k].from \in asked /\ inbox[k].result.of = of
                             /\ call[inbox[k].from].pc = "off"
  /\ \A j, k \in DOMAIN inbox : inbox[j].from = inbox[k].from => j = k
  /\ stage = "gather" =>
       \A p \in asked : call[p].pc = "off" => \E k \in DOMAIN inbox : inbox[k].from = p

\* next_due is not before the time a provider asked for; while its answer is on its way,
\* next_due will not be.
BackOffKept ==
  /\ stage \in {"off", "persist"} => \A p \in Providers : notBefore[p] <= due[p]
  /\ stage = "gather" =>
       \A p \in Providers :
         /\ p \notin asked => notBefore[p] <= due[p]
         /\ call[p].pc \in {"reap", "put"} => notBefore[p] <= now + Delay(call[p].result)
         /\ \A k \in DOMAIN inbox :
              inbox[k].from = p => notBefore[p] <= now + Delay(inbox[k].result)

AnswerInv == QuotaType /\ RefreshesOrdered /\ CallsOwn /\ InboxOwn /\ BackOffKept

LEMMA AnswerInit == QuotaInit => AnswerInv
<1> SUFFICES ASSUME QuotaInit PROVE AnswerInv
  OBVIOUS
<1>1. QuotaType
  BY DEF QuotaInit, QuotaType, QuotaTypeOK, NoCall, Shown
<1>2. RefreshesOrdered
  BY DEF QuotaInit, RefreshesOrdered
<1>3. CallsOwn
  BY DEF QuotaInit, CallsOwn, NoCall
<1>4. InboxOwn
  BY DEF QuotaInit, InboxOwn
<1>5. BackOffKept
  BY DEF QuotaInit, BackOffKept
<1> QED
  BY <1>1, <1>2, <1>3, <1>4, <1>5 DEF AnswerInv

LEMMA AnswerBegin == ASSUME AnswerInv, Begin PROVE AnswerInv'
<1> USE DEF AnswerInv
<1>1. QuotaType'
  BY DEF Begin, QuotaType, QuotaTypeOK, NoCall
<1>2. RefreshesOrdered'
  BY DEF Begin, RefreshesOrdered, QuotaType, QuotaTypeOK, Shown
<1>3. CallsOwn'
  BY DEF Begin, CallsOwn, QuotaType, QuotaTypeOK, NoCall
<1>4. InboxOwn'
  BY DEF Begin, InboxOwn, QuotaType, QuotaTypeOK, NoCall
<1>5. BackOffKept'
  BY DEF Begin, BackOffKept, InboxOwn, QuotaType, QuotaTypeOK, NoCall
<1> QED
  BY <1>1, <1>2, <1>3, <1>4, <1>5

LEMMA AnswerEnded ==
  ASSUME NEW p \in Providers, NEW kind \in Kinds, NEW wait \in Retries \cup {1},
         kind # "limited" => wait = 1, AnswerInv, Ended(p, kind, wait)
  PROVE  AnswerInv'
<1> USE DEF AnswerInv
<1> DEFINE r == [kind |-> kind, wait |-> wait, of |-> of]
<1>0. r \in Results /\ wait \in Nat /\ r # None /\ stage = "gather" /\ p \in asked
  BY WaitType DEF Ended, Results, RefreshesOrdered, CallsOwn, QuotaType, QuotaTypeOK
<1>1. QuotaType'
  BY <1>0 DEF Ended, QuotaType, QuotaTypeOK
<1>2. RefreshesOrdered'
  BY DEF Ended, RefreshesOrdered
<1>3. CallsOwn'
  BY <1>0 DEF Ended, CallsOwn, QuotaType, QuotaTypeOK
<1>4. InboxOwn'
  BY <1>0 DEF Ended, InboxOwn, QuotaType, QuotaTypeOK
<1>5. BackOffKept'
  <2>1. Delay(r) = wait
    BY DEF Delay
  <2>2. ASSUME NEW k \in DOMAIN inbox PROVE inbox[k].from # p
    BY <2>2 DEF Ended, InboxOwn
  <2> QED
    BY <1>0, <2>1, <2>2 DEF Ended, BackOffKept, QuotaType, QuotaTypeOK
<1> QED
  BY <1>1, <1>2, <1>3, <1>4, <1>5

LEMMA AnswerReap == ASSUME NEW p \in Providers, AnswerInv, Reap(p) PROVE AnswerInv'
<1> USE DEF AnswerInv
<1>1. QuotaType'
  BY DEF Reap, Resumed, QuotaType, QuotaTypeOK, NoCall
<1>2. RefreshesOrdered'
  BY DEF Reap, RefreshesOrdered
<1>3. CallsOwn'
  BY DEF Reap, Resumed, CallsOwn, QuotaType, QuotaTypeOK, NoCall
<1>4. InboxOwn'
  BY DEF Reap, Resumed, InboxOwn, CallsOwn, QuotaType, QuotaTypeOK, NoCall
<1>5. BackOffKept'
  BY DEF Reap, Resumed, BackOffKept, CallsOwn, QuotaType, QuotaTypeOK, NoCall
<1> QED
  BY <1>1, <1>2, <1>3, <1>4, <1>5

LEMMA AnswerInterrupt == ASSUME NEW p \in Providers, AnswerInv, Interrupt(p) PROVE AnswerInv'
<1> USE DEF AnswerInv
<1> DEFINE r == [kind |-> "broken", wait |-> 1, of |-> of]
<1>0. r \in Results /\ r # None /\ stage = "gather" /\ p \in asked
  BY DEF Interrupt, Results, Kinds, RefreshesOrdered, CallsOwn, QuotaType, QuotaTypeOK
<1>1. QuotaType'
  BY <1>0 DEF Interrupt, QuotaType, QuotaTypeOK, RefreshesOrdered
<1>2. RefreshesOrdered'
  BY DEF Interrupt, RefreshesOrdered
<1>3. CallsOwn'
  BY <1>0 DEF Interrupt, CallsOwn, QuotaType, QuotaTypeOK
<1>4. InboxOwn'
  BY <1>0 DEF Interrupt, InboxOwn, QuotaType, QuotaTypeOK
<1>5. BackOffKept'
  <2>1. Delay(r) = 1
    BY DEF Delay
  <2>2. ASSUME NEW k \in DOMAIN inbox PROVE inbox[k].from # p
    BY <2>2 DEF Interrupt, InboxOwn
  <2> QED
    BY <1>0, <2>1, <2>2 DEF Interrupt, BackOffKept, QuotaType, QuotaTypeOK
<1> QED
  BY <1>1, <1>2, <1>3, <1>4, <1>5

LEMMA AnswerPut == ASSUME NEW p \in Providers, AnswerInv, Put(p) PROVE AnswerInv'
<1> USE DEF AnswerInv
<1> DEFINE e == [from |-> p, result |-> call[p].result]
<1>0. /\ stage = "gather" /\ p \in asked /\ e \in Entries
      /\ e.from = p /\ e.result = call[p].result /\ call[p].result.of = of
  BY DEF Put, CallsOwn, QuotaType, QuotaTypeOK, Entries
<1>1. QuotaType'
  BY <1>0 DEF Put, QuotaType, QuotaTypeOK, NoCall, Entries
<1>2. RefreshesOrdered'
  BY DEF Put, RefreshesOrdered
<1>3. CallsOwn'
  BY DEF Put, CallsOwn, QuotaType, QuotaTypeOK, NoCall
<1>6. /\ Len(inbox) \in Nat /\ DOMAIN inbox = 1 .. Len(inbox)
      /\ DOMAIN inbox' = 1 .. Len(inbox) + 1
      /\ \A k \in 1 .. Len(inbox) : inbox'[k] = inbox[k]
      /\ inbox'[Len(inbox) + 1] = e
  BY <1>0 DEF Put, QuotaType, QuotaTypeOK, Entries
<1>7. \A k \in DOMAIN inbox : inbox[k].from # p
  BY DEF Put, InboxOwn
<1>4. InboxOwn'
  <2>1. inbox' # <<>> => stage' \in {"gather", "cancelling"}
    BY <1>0 DEF Put
  <2>2. ASSUME NEW k \in DOMAIN inbox'
        PROVE  inbox'[k].from \in asked' /\ inbox'[k].result.of = of' /\ call'[inbox'[k].from].pc = "off"
    <3>1. CASE k = Len(inbox) + 1
      BY <1>0, <1>6, <3>1 DEF Put, NoCall, QuotaType, QuotaTypeOK
    <3>2. CASE k \in DOMAIN inbox
      BY <1>6, <1>7, <3>2 DEF Put, InboxOwn, QuotaType, QuotaTypeOK
    <3> QED
      BY <1>6, <3>1, <3>2
  <2>3. ASSUME NEW j \in DOMAIN inbox', NEW k \in DOMAIN inbox', inbox'[j].from = inbox'[k].from
        PROVE  j = k
    BY <1>0, <1>6, <1>7, <2>3 DEF InboxOwn
  <2>4. ASSUME NEW q \in asked', call'[q].pc = "off"
        PROVE  \E k \in DOMAIN inbox' : inbox'[k].from = q
    <3>1. CASE q = p
      BY <1>0, <1>6, <3>1
    <3>2. CASE q # p
      <4>1. PICK k \in DOMAIN inbox : inbox[k].from = q
        BY <1>0, <2>4, <3>2 DEF Put, InboxOwn, QuotaType, QuotaTypeOK
      <4> QED
        BY <1>6, <4>1
    <3> QED
      BY <3>1, <3>2
  <2> QED
    BY <2>1, <2>2, <2>3, <2>4 DEF InboxOwn
<1>5. BackOffKept'
  <2>1. ASSUME NEW q \in Providers, NEW k \in DOMAIN inbox', inbox'[k].from = q
        PROVE  notBefore[q] <= now + Delay(inbox'[k].result)
    <3>1. CASE k = Len(inbox) + 1
      BY <1>0, <1>6, <2>1, <3>1 DEF Put, BackOffKept
    <3>2. CASE k \in DOMAIN inbox
      BY <1>0, <1>6, <2>1, <3>2 DEF BackOffKept
    <3> QED
      BY <1>6, <3>1, <3>2
  <2> QED
    BY <1>0, <2>1 DEF Put, BackOffKept, NoCall, QuotaType, QuotaTypeOK
<1> QED
  BY <1>1, <1>2, <1>3, <1>4, <1>5

LEMMA AnswerCancel == ASSUME AnswerInv, CancelRefresh PROVE AnswerInv'
<1> USE DEF AnswerInv
<1>1. QuotaType'
  BY DEF CancelRefresh, QuotaType, QuotaTypeOK, NoCall, RefreshesOrdered
<1>2. RefreshesOrdered'
  BY DEF CancelRefresh, RefreshesOrdered, QuotaType, QuotaTypeOK, Shown
<1>3. CallsOwn'
  BY DEF CancelRefresh, CallsOwn, QuotaType, QuotaTypeOK, NoCall
<1>4. InboxOwn'
  BY DEF CancelRefresh, InboxOwn, QuotaType, QuotaTypeOK, NoCall
<1>5. BackOffKept'
  BY DEF CancelRefresh, BackOffKept
<1> QED
  BY <1>1, <1>2, <1>3, <1>4, <1>5

LEMMA AnswerEndCancel == ASSUME AnswerInv, EndCancel PROVE AnswerInv'
<1> USE DEF AnswerInv
<1>1. QuotaType'
  BY DEF EndCancel, QuotaType, QuotaTypeOK
<1>2. RefreshesOrdered'
  BY DEF EndCancel, RefreshesOrdered
<1>3. CallsOwn'
  BY DEF EndCancel, AllEnded, CallsOwn
<1>4. InboxOwn'
  BY DEF EndCancel, InboxOwn
<1>5. BackOffKept'
  BY DEF EndCancel, BackOffKept, QuotaType, QuotaTypeOK
<1> QED
  BY <1>1, <1>2, <1>3, <1>4, <1>5

LEMMA AnswerQuiet == ASSUME AnswerInv, Tick \/ Persist \/ UNCHANGED quotaVars PROVE AnswerInv'
<1> USE DEF AnswerInv
<1>1. CASE Tick
  <2>1. QuotaType'
    BY <1>1 DEF Tick, QuotaType, QuotaTypeOK
  <2>2. RefreshesOrdered' /\ CallsOwn' /\ InboxOwn'
    BY <1>1 DEF Tick, RefreshesOrdered, CallsOwn, InboxOwn
  <2>3. ASSUME NEW r \in Results, NEW n \in Nat, n <= now + Delay(r) PROVE n <= now' + Delay(r)
    BY <1>1, <2>3, DelayType DEF Tick, QuotaType, QuotaTypeOK
  <2>4. BackOffKept'
    <3>1. ASSUME NEW q \in Providers, stage = "gather", call[q].pc \in {"reap", "put"}
          PROVE  notBefore[q] <= now' + Delay(call[q].result)
      BY <2>3, <3>1 DEF BackOffKept, CallsOwn, QuotaType, QuotaTypeOK
    <3>2. ASSUME NEW q \in Providers, NEW k \in DOMAIN inbox, inbox[k].from = q, stage = "gather"
          PROVE  notBefore[q] <= now' + Delay(inbox[k].result)
      <4>1. inbox[k].result \in Results
        <5>1. inbox \in Seq(Entries)
          BY DEF QuotaType, QuotaTypeOK, Entries
        <5>2. inbox[k] \in Entries
          BY <5>1
        <5> QED
          BY <5>2 DEF Entries
      <4> QED
        BY <2>3, <3>2, <4>1 DEF BackOffKept, QuotaType, QuotaTypeOK
    <3> QED
      BY <1>1, <3>1, <3>2 DEF Tick, BackOffKept
  <2> QED
    BY <2>1, <2>2, <2>4
<1>2. CASE Persist
  BY <1>2 DEF Persist, QuotaType, QuotaTypeOK, RefreshesOrdered, CallsOwn, InboxOwn, BackOffKept
<1>3. CASE UNCHANGED quotaVars
  BY <1>3 DEF quotaVars, clocks, QuotaType, QuotaTypeOK, RefreshesOrdered, CallsOwn, InboxOwn, BackOffKept
<1> QED
  BY <1>1, <1>2, <1>3

\* Publishing an answer keeps the type of what is shown.
LEMMA PublishType ==
  ASSUME NEW old \in Shown, NEW r \in Results, r.of = of, of \in 1 .. MaxCalls
  PROVE  Publish(old, r) \in Shown /\ Publish(old, r).of \in {old.of, of}
<1>1. CASE r.kind = "ok"
  BY <1>1 DEF Publish, Shown
<1>2. CASE r.kind = "denied"
  BY <1>2 DEF Publish, Shown
<1>3. CASE r.kind \notin {"ok", "denied"}
  <2>1. Publish(old, r) = [old EXCEPT !.state = IF old.updated THEN "stale" ELSE "unavailable"]
    BY <1>3 DEF Publish
  <2> QED
    BY <2>1 DEF Shown
<1> QED
  BY <1>1, <1>2, <1>3

\* When all calls have ended, every provider that was asked has one answer in the inbox.
LEMMA InboxComplete ==
  ASSUME AnswerInv, stage = "gather", AllEnded
  PROVE  Cardinality(asked) = Len(inbox)
<1> DEFINE N == Len(inbox)
           from == [k \in 1 .. N |-> inbox[k].from]
<1>1. N \in Nat /\ DOMAIN inbox = 1 .. N
  BY DEF AnswerInv, QuotaType, QuotaTypeOK
<1>2. from \in [1 .. N -> asked]
  BY <1>1 DEF AnswerInv, InboxOwn
<1>3. \A j, k \in 1 .. N : from[j] = from[k] => j = k
  BY <1>1 DEF AnswerInv, InboxOwn
<1>4. \A p \in asked : \E k \in 1 .. N : from[k] = p
  <2>1. \A p \in asked : call[p].pc = "off"
    BY DEF AllEnded, AnswerInv, QuotaType, QuotaTypeOK
  <2> QED
    BY <1>1, <2>1 DEF AnswerInv, InboxOwn
<1>5. ExistsBijection(1 .. N, asked)
  <2> HIDE DEF from
  <2>1. from \in Bijection(1 .. N, asked)
    BY <1>2, <1>3, <1>4 DEF Bijection, Injection, Surjection, IsInjective
  <2> QED
    BY <2>1 DEF ExistsBijection
<1> QED
  BY <1>1, <1>5, FS_CountingElements

\* What is shown and when a provider is due after k answers.
ViewAfter(k) ==
  /\ Taken[k].shown \in [Providers -> Shown] /\ Taken[k].due \in [Providers -> Nat]
  /\ \A p \in Providers :
       /\ Taken[k].shown[p].of \in {published[p].of, of}
       /\ \/ Taken[k].due[p] = due[p] /\ \A j \in 1 .. k : inbox[j].from # p
          \/ \E j \in 1 .. k : inbox[j].from = p /\ Taken[k].due[p] = now + Delay(inbox[j].result)

LEMMA TakenViews ==
  ASSUME AnswerInv, stage = "gather", NEW N \in Nat, Len(inbox) = N
  PROVE  \A k \in 0 .. N : ViewAfter(k)
<1> USE DEF AnswerInv
<1>1. \A k \in 0 .. N : Taken[k] = IF k = 0 THEN [shown |-> published, due |-> due]
                                            ELSE Take(Taken[k - 1], inbox[k])
  BY TakenEquation
<1> DEFINE S == {k \in Nat : k <= N => ViewAfter(k)}
<1>2. 0 \in S
  <2>1. Taken[0] = [shown |-> published, due |-> due]
    BY <1>1
  <2> QED
    BY <2>1 DEF ViewAfter, QuotaType, QuotaTypeOK
<1>3. ASSUME NEW k \in Nat, k \in S PROVE k + 1 \in S
  <2> SUFFICES ASSUME k + 1 <= N PROVE ViewAfter(k + 1)
    OBVIOUS
  <2>1. ViewAfter(k)
    BY <1>3
  <2> DEFINE m == inbox[k + 1]
             p == m.from
  <2>2. inbox \in Seq(Entries)
    BY DEF QuotaType, QuotaTypeOK, Entries
  <2>3. m \in Entries /\ k + 1 \in DOMAIN inbox
    BY <2>2
  <2>4. p \in Providers /\ m.result \in Results /\ m.result.of = of
    BY <2>3 DEF Entries, InboxOwn
  <2>5. Delay(m.result) \in Nat
    BY <2>4, DelayType
  <2>6. of \in 1 .. MaxCalls
    BY DEF RefreshesOrdered
  <2>7. Taken[k + 1] = Take(Taken[k], m)
    BY <1>1
  <2>8. /\ Taken[k + 1].shown = [Taken[k].shown EXCEPT ![p] = Publish(@, m.result)]
        /\ Taken[k + 1].due = [Taken[k].due EXCEPT ![p] = now + Delay(m.result)]
    BY <2>7 DEF Take
  <2>9. /\ Publish(Taken[k].shown[p], m.result) \in Shown
        /\ Publish(Taken[k].shown[p], m.result).of \in {published[p].of, of}
    <3>1. Taken[k].shown[p] \in Shown
      BY <2>1, <2>4 DEF ViewAfter
    <3> QED
      BY <2>1, <2>4, <2>6, <3>1, PublishType DEF ViewAfter
  <2>10. Taken[k + 1].shown \in [Providers -> Shown]
    BY <2>1, <2>4, <2>8, <2>9 DEF ViewAfter
  <2>11. Taken[k + 1].due \in [Providers -> Nat]
    <3>1. now + Delay(m.result) \in Nat
      BY <2>5 DEF QuotaType, QuotaTypeOK
    <3> HIDE DEF m
    <3> QED
      BY <2>1, <2>4, <2>8, <3>1 DEF ViewAfter
  <2>12. ASSUME NEW q \in Providers PROVE Taken[k + 1].shown[q].of \in {published[q].of, of}
    BY <2>1, <2>8, <2>9 DEF ViewAfter
  <2>13. ASSUME NEW q \in Providers
         PROVE  \/ Taken[k + 1].due[q] = due[q] /\ \A j \in 1 .. k + 1 : inbox[j].from # q
                \/ \E j \in 1 .. k + 1 : inbox[j].from = q
                                           /\ Taken[k + 1].due[q] = now + Delay(inbox[j].result)
    <3>1. CASE q = p
      BY <2>1, <2>8, <3>1 DEF ViewAfter
    <3>2. CASE q # p
      <4>1. Taken[k + 1].due[q] = Taken[k].due[q]
        BY <2>1, <2>8, <3>2 DEF ViewAfter
      <4>2. \A j \in 1 .. k + 1 : j \in 1 .. k \/ j = k + 1
        OBVIOUS
      <4>3. \A j \in 1 .. k : j \in 1 .. k + 1
        OBVIOUS
      <4> QED
        BY <2>1, <3>2, <4>1, <4>2, <4>3 DEF ViewAfter
    <3> QED
      BY <3>1, <3>2
  <2> QED
    BY <2>10, <2>11, <2>12, <2>13 DEF ViewAfter
<1>4. Nat \subseteq S
  <2> HIDE DEF S
  <2> QED
    BY <1>2, <1>3, Induction
<1> QED
  BY <1>4

LEMMA AnswerApply == ASSUME AnswerInv, Apply PROVE AnswerInv'
<1> USE DEF AnswerInv
<1> DEFINE N == Len(inbox)
<1>1. stage = "gather" /\ AllEnded /\ Cardinality(asked) = N /\ N \in Nat
  BY InboxComplete DEF Apply, QuotaType, QuotaTypeOK
<1>2. ViewAfter(N)
  BY <1>1, TakenViews
<1>3. /\ published' = Taken[N].shown /\ due' = Taken[N].due
      /\ inbox' = <<>>
  <2>1. inbox' = SubSeq(inbox, N + 1, N)
    BY <1>1 DEF Apply
  <2> QED
    BY <1>1, <2>1 DEF Apply, QuotaType, QuotaTypeOK
<1>4. QuotaType'
  <2>1. published' \in [Providers -> Shown] /\ due' \in [Providers -> Nat]
    BY <1>1, <1>2, <1>3 DEF ViewAfter
  <2>2. inbox' \in Seq(Entries)
    BY <1>3
  <2> QED
    BY <2>1, <2>2 DEF Apply, QuotaType, QuotaTypeOK, Entries
<1>5. RefreshesOrdered'
  <2>1. \A p \in Providers : published'[p].of \in {published[p].of, of}
    BY <1>2, <1>3 DEF ViewAfter
  <2>2. \A p \in Providers : /\ published'[p].of <= of /\ published'[p].of \notin dropped
    <3> of \in Nat
      BY DEF QuotaType, QuotaTypeOK
    <3> QED
      BY <1>1, <2>1 DEF RefreshesOrdered
  <2> QED
    BY <1>1, <2>2 DEF Apply, RefreshesOrdered
<1>6. CallsOwn'
  BY <1>1 DEF Apply, AllEnded, CallsOwn
<1>7. InboxOwn'
  <2> DOMAIN inbox' = {}
    BY <1>3
  <2> QED
    BY <1>3 DEF Apply, InboxOwn
<1>8. BackOffKept'
  <2>1. ASSUME NEW p \in Providers PROVE notBefore[p] <= due'[p]
    <3>1. CASE due'[p] = due[p] /\ \A j \in 1 .. N : inbox[j].from # p
      <4>1. DOMAIN inbox = 1 .. N
        BY DEF QuotaType, QuotaTypeOK
      <4>2. p \notin asked
        BY <1>1, <3>1, <4>1 DEF AllEnded, InboxOwn
      <4> QED
        BY <1>1, <3>1, <4>2 DEF BackOffKept
    <3>2. CASE \E j \in 1 .. N : inbox[j].from = p /\ due'[p] = now + Delay(inbox[j].result)
      <4>1. DOMAIN inbox = 1 .. N
        BY DEF QuotaType, QuotaTypeOK
      <4> QED
        BY <1>1, <3>2, <4>1 DEF BackOffKept
    <3> QED
      BY <1>2, <1>3, <3>1, <3>2 DEF ViewAfter
  <2> QED
    BY <2>1 DEF Apply, BackOffKept
<1> QED
  BY <1>4, <1>5, <1>6, <1>7, <1>8

LEMMA AnswerStep == AnswerInv /\ [QuotaNext]_quotaVars => AnswerInv'
<1> SUFFICES ASSUME AnswerInv, [QuotaNext]_quotaVars PROVE AnswerInv'
  OBVIOUS
<1>1. ASSUME NEW p \in Providers, Reply(p) \/ Timeout(p) PROVE AnswerInv'
  <2>1. \E kind \in Kinds, wait \in Retries \cup {1} :
          (kind # "limited" => wait = 1) /\ Ended(p, kind, wait)
    BY <1>1 DEF Reply, Timeout, Kinds
  <2> QED
    BY <2>1, AnswerEnded
<1> QED
  BY <1>1, AnswerBegin, AnswerReap, AnswerInterrupt, AnswerPut, AnswerCancel, AnswerEndCancel,
     AnswerApply, AnswerQuiet DEF QuotaNext

\* RefreshSafe for any providers, refreshes and cancellations: the state keeps its types, a refresh
\* finds its own answers only, and what a cancelled one had asked for is never shown.
THEOREM RefreshOwnsAnswers == QuotaSpec => []RefreshSafe
<1>1. AnswerInv => RefreshSafe
  BY DEF AnswerInv, RefreshSafe, OnlyOwnAnswers, QuotaType, RefreshesOrdered, InboxOwn
<1> QED
  BY AnswerInit, AnswerStep, <1>1, PTL DEF QuotaSpec

\* BackOffRespected for any providers and waits: a provider is not asked before the time it named.
THEOREM NobodyAskedEarly == QuotaSpec => BackOffRespected
<1> DEFINE A == \A p \in Providers : (call[p].pc = "off" /\ call'[p].pc = "ask") => now >= notBefore[p]
<1>1. AnswerInv /\ [QuotaNext]_quotaVars => A
  <2> SUFFICES ASSUME AnswerInv, [QuotaNext]_quotaVars, NEW p \in Providers,
                      call[p].pc = "off", call'[p].pc = "ask"
               PROVE  now >= notBefore[p]
    OBVIOUS
  <2>1. CASE Begin
    <3>1. stage = "off" /\ now >= due[p]
      BY <2>1 DEF Begin, NoCall, AnswerInv, QuotaType
    <3> QED
      BY <3>1 DEF AnswerInv, BackOffKept, QuotaType, QuotaTypeOK
  <2>2. ASSUME NEW q \in Providers, NEW kind, NEW wait, Ended(q, kind, wait) PROVE FALSE
    BY <2>2 DEF Ended, AnswerInv, QuotaType
  <2>3. ASSUME NEW q \in Providers, Reply(q) \/ Timeout(q) PROVE FALSE
    BY <2>2, <2>3 DEF Reply, Timeout
  <2>4. ASSUME NEW q \in Providers, Reap(q) \/ Interrupt(q) \/ Put(q) PROVE FALSE
    BY <2>4 DEF Reap, Resumed, Interrupt, Put, NoCall, AnswerInv, QuotaType
  <2>5. CASE CancelRefresh
    BY <2>5 DEF CancelRefresh, NoCall
  <2>6. CASE Tick \/ Apply \/ Persist \/ EndCancel \/ UNCHANGED quotaVars
    BY <2>6 DEF Tick, Apply, Persist, EndCancel, quotaVars
  <2> QED
    BY <2>1, <2>3, <2>4, <2>5, <2>6 DEF QuotaNext
<1> QED
  BY AnswerInit, AnswerStep, <1>1, PTL DEF QuotaSpec, BackOffRespected
=============================================================================
