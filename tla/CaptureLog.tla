----------------------------- MODULE CaptureLog -----------------------------
(***************************************************************************)
(* What the capture corpus promises, whatever the recorder does inside: a  *)
(* log that only grows, holds each event at most once, in the order in     *)
(* which the events were handed over, and an acknowledgement that is given *)
(* only for an event of the log.  An event that is never acknowledged may  *)
(* be in the log or not, and may get there late.                           *)
(***************************************************************************)
EXTENDS Naturals, Sequences

CONSTANT Events

VARIABLES
  submitted,  \* events handed over, in order
  log,        \* events of the corpus, in order
  acked       \* acknowledged events

vars == <<submitted, log, acked>>

In(s, e) == \E k \in DOMAIN s : s[k] = e

Init == submitted = <<>> /\ log = <<>> /\ acked = {}

Submit(e) ==
  /\ ~In(submitted, e)
  /\ submitted' = Append(submitted, e)
  /\ UNCHANGED <<log, acked>>

\* No event that was handed over later is already in the log.
Commit(e) ==
  /\ \E i \in DOMAIN submitted :
       /\ submitted[i] = e
       /\ \A j \in i .. Len(submitted) : ~In(log, submitted[j])
  /\ log' = Append(log, e)
  /\ UNCHANGED <<submitted, acked>>

Acknowledge(e) ==
  /\ In(log, e)
  /\ acked' = acked \cup {e}
  /\ UNCHANGED <<submitted, log>>

Next == \E e \in Events : Submit(e) \/ Commit(e) \/ Acknowledge(e)

Spec == Init /\ [][Next]_vars
=============================================================================
