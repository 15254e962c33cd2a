----------------------------- MODULE QuotaActor -----------------------------
(***************************************************************************)
(* QuotaActor of llm_log/quotas.py: refresh() asks the providers whose     *)
(* time has come, one task each, collects what they answer in a bounded    *)
(* inbox and publishes it.  The loop of run() and other callers of         *)
(* refresh() take turns under a lock and may be cancelled, each once.  One *)
(* provider is a web service, the other a Codex child on pipes that has to *)
(* end with the call.                                                      *)
(***************************************************************************)
EXTENDS Naturals, Sequences, FiniteSets

CONSTANTS
  Providers, \* keys of the adapters
  Children,  \* those that are a child process
  None,
  Retries,   \* what a provider may ask to wait, in intervals
  MaxTime,   \* bound on the clock, in intervals
  MaxCalls   \* bound on the calls of refresh()

\* ok: a snapshot; denied: login or credentials are missing; limited: the provider wants to be
\* left alone; broken: any other error, or no answer.
Kinds   == {"ok", "denied", "limited", "broken"}
Results == [kind : Kinds, wait : Retries \cup {1}, of : 1 .. MaxCalls]

ASSUME QuotaActorAssumption ==
  /\ IsFiniteSet(Providers) /\ Children \subseteq Providers /\ None \notin Results
  /\ Retries \subseteq Nat \ {0} /\ MaxTime \in Nat \ {0} /\ MaxCalls \in Nat

VARIABLES
  now,         \* the clock
  published,   \* per provider, what snapshot() shows
  due,         \* next_due
  stage,       \* of the refresh that has the lock: gather, cancelling, persist; else off
  of,          \* its number, or the number of the last one
  asked,       \* the providers whose answers it collects
  call,        \* per provider, its task
  child,       \* per provider, the refreshes whose child is alive
  inbox,       \* answers in the order in which they came
  dropped,     \* history: refreshes that were cancelled before they published anything
  interrupted, \* history: refreshes that were interrupted while they ended their child
  notBefore    \* history: when a provider may be asked again after it answered

clocks == <<due, notBefore>>
quotaVars == <<now, published, clocks, stage, of, asked, call, child, inbox, dropped, interrupted>>

Shown   == [state : {"unavailable", "ok", "stale"}, updated : BOOLEAN, of : 0 .. MaxCalls]

QuotaTypeOK ==
  /\ now \in 1 .. MaxTime
  /\ published \in [Providers -> Shown]
  /\ due \in [Providers -> Nat] /\ notBefore \in [Providers -> Nat]
  /\ stage \in {"off", "gather", "cancelling", "persist"}
  /\ of \in 0 .. MaxCalls
  /\ dropped \subseteq 1 .. MaxCalls /\ interrupted \subseteq 1 .. MaxCalls
  /\ asked \subseteq Providers
  /\ \A p \in Providers : /\ call[p].pc \in {"off", "ask", "reap", "put"}
                          /\ call[p].result \in Results \cup {None}
  /\ child \in [Providers -> SUBSET (1 .. MaxCalls)]
  /\ inbox \in Seq([from : Providers, result : Results])

NoCall == [pc |-> "off", result |-> None]

QuotaInit ==
  /\ now = 1
  /\ published = [p \in Providers |-> [state |-> "unavailable", updated |-> FALSE, of |-> 0]]
  /\ due = [p \in Providers |-> 0] /\ notBefore = [p \in Providers |-> 0]
  /\ stage = "off" /\ of = 0 /\ asked = {}
  /\ call = [p \in Providers |-> NoCall] /\ child = [p \in Providers |-> {}]
  /\ inbox = <<>> /\ dropped = {} /\ interrupted = {}

Tick ==
  /\ now < MaxTime /\ now' = now + 1
  /\ UNCHANGED <<published, clocks, stage, of, asked, call, child, inbox, dropped, interrupted>>

-----------------------------------------------------------------------------
(* refresh(), and the calls of the adapters.                               *)

Begin ==
  /\ stage = "off" /\ of < MaxCalls
  /\ stage' = "gather" /\ of' = of + 1
  /\ asked' = {p \in Providers : now >= due[p]}
  /\ call' = [p \in Providers |-> IF p \in asked' THEN [pc |-> "ask", result |-> None] ELSE NoCall]
  /\ child' = [p \in Providers |-> IF p \in asked' \cap Children THEN child[p] \cup {of'}
                                                                ELSE child[p]]
  /\ UNCHANGED <<now, published, clocks, inbox, dropped, interrupted>>

\* The adapter has an answer, or knows that there is none; a child is ended next.
Ended(p, kind, wait) ==
  /\ call[p].pc = "ask"
  /\ call' = [call EXCEPT ![p] = [pc |-> IF p \in Children THEN "reap" ELSE "put",
                                  result |-> [kind |-> kind, wait |-> wait, of |-> of]]]
  /\ notBefore' = [notBefore EXCEPT ![p] = now + wait]
  /\ UNCHANGED <<now, published, due, stage, of, asked, child, inbox, dropped, interrupted>>

Reply(p) ==
  \/ \E kind \in Kinds \ {"limited"} : Ended(p, kind, 1)
  \/ \E wait \in Retries : Ended(p, "limited", wait)

\* Mutant of Timeout: none, neither within the adapter nor around it.
TimeoutNever(p) == FALSE /\ Ended(p, "broken", 1)

Timeout(p) == Ended(p, "broken", 1)

\* After the finally of the adapter: its result is put, or it was cancelled.
Resumed(p) == IF call[p].result = None THEN NoCall ELSE [call[p] EXCEPT !.pc = "put"]

\* Mutant of Reap: a child that does not end at once is left alone.
ReapPolitely(p) ==
  /\ call[p].pc = "reap"
  /\ child' = child \/ child' = [child EXCEPT ![p] = @ \ {of}]
  /\ call' = [call EXCEPT ![p] = Resumed(p)]
  /\ UNCHANGED <<now, published, clocks, stage, of, asked, inbox, dropped, interrupted>>

\* The finally of read_codex_account: terminate, wait, kill, wait.
Reap(p) ==
  /\ call[p].pc = "reap"
  /\ child' = [child EXCEPT ![p] = @ \ {of}]
  /\ call' = [call EXCEPT ![p] = Resumed(p)]
  /\ UNCHANGED <<now, published, clocks, stage, of, asked, inbox, dropped, interrupted>>

\* The limit around the adapter runs out while it waits for its child, because starting the
\* child took long: the child was asked to end and is not killed any more, so it may stay.
Interrupt(p) ==
  /\ call[p].pc = "reap" /\ call[p].result # None
  /\ call' = [call EXCEPT ![p] = [pc |-> "put",
                                  result |-> [kind |-> "broken", wait |-> 1, of |-> of]]]
  /\ interrupted' = interrupted \cup {of}
  /\ notBefore' = [notBefore EXCEPT ![p] = now + 1]
  /\ UNCHANGED <<now, published, due, stage, of, asked, child, inbox, dropped>>

\* inbox.put, which waits for room.
Put(p) ==
  /\ call[p].pc = "put" /\ Len(inbox) < Cardinality(Providers)
  /\ inbox' = Append(inbox, [from |-> p, result |-> call[p].result])
  /\ call' = [call EXCEPT ![p] = NoCall]
  /\ UNCHANGED <<now, published, clocks, stage, of, asked, child, dropped, interrupted>>

AllEnded == \A p \in Providers : call[p].pc = "off"

\* Mutant of Delay: every provider is asked again after an interval.
DelayOfInterval(result) == 1

Delay(result) == IF result.kind = "limited" THEN result.wait ELSE 1

Publish(old, result) ==
  CASE result.kind = "ok"     -> [state |-> "ok", updated |-> TRUE, of |-> result.of]
    [] result.kind = "denied" -> [state |-> "unavailable", updated |-> FALSE, of |-> result.of]
    [] OTHER -> [old EXCEPT !.state = IF old.updated THEN "stale" ELSE "unavailable"]

Take(view, m) ==
  [shown |-> [view.shown EXCEPT ![m.from] = Publish(@, m.result)],
   due   |-> [view.due EXCEPT ![m.from] = now + Delay(m.result)]]

\* After the first k answers.
Taken[k \in 0 .. Len(inbox)] ==
  IF k = 0 THEN [shown |-> published, due |-> due] ELSE Take(Taken[k - 1], inbox[k])

\* All tasks have ended: as many answers are taken from the inbox as providers were asked.
Apply ==
  /\ stage = "gather" /\ AllEnded
  /\ LET n == Cardinality(asked) IN
       /\ published' = Taken[n].shown /\ due' = Taken[n].due
       /\ inbox' = SubSeq(inbox, n + 1, Len(inbox))
  /\ stage' = "persist"
  /\ UNCHANGED <<now, of, asked, call, child, dropped, interrupted, notBefore>>

\* The snapshot is written to a file, which may fail without effect.  A caller that is cancelled
\* here gives up the lock and has published.
Persist ==
  /\ stage = "persist"
  /\ stage' = "off"
  /\ UNCHANGED <<now, published, clocks, of, asked, call, child, inbox, dropped, interrupted>>

\* The caller is cancelled and with it the tasks; one that was ending its child stops waiting.
CancelRefresh ==
  /\ stage = "gather"
  /\ stage' = "cancelling" /\ dropped' = dropped \cup {of}
  /\ call' = [p \in Providers |-> IF call[p].pc = "ask" /\ p \in Children
                                    THEN [pc |-> "reap", result |-> None] ELSE NoCall]
  /\ interrupted' = IF \E p \in Providers : call[p].pc = "reap"
                      THEN interrupted \cup {of} ELSE interrupted
  /\ UNCHANGED <<now, published, clocks, of, asked, child, inbox>>

\* Mutant of EndCancel: the answers that came before are left in the inbox.
EndCancelAtOnce ==
  /\ stage = "cancelling" /\ AllEnded
  /\ stage' = "off" /\ notBefore' = due
  /\ UNCHANGED <<now, published, due, of, asked, call, child, inbox, dropped, interrupted>>

\* The handler of refresh(): the inbox is emptied, then the lock is given up.
EndCancel ==
  /\ stage = "cancelling" /\ AllEnded
  /\ inbox' = <<>> /\ stage' = "off" /\ notBefore' = due
  /\ UNCHANGED <<now, published, due, of, asked, call, child, dropped, interrupted>>

QuotaNext ==
  \/ Tick \/ Begin \/ Apply \/ Persist \/ CancelRefresh \/ EndCancel
  \/ \E p \in Providers : Reply(p) \/ Timeout(p) \/ Reap(p) \/ Interrupt(p) \/ Put(p)

QuotaSpec == QuotaInit /\ [][QuotaNext]_quotaVars

\* The event loop runs what is ready, timers fire, a killed child ends and a write returns; the
\* providers need not answer.
FairQuotaSpec ==
  /\ QuotaSpec
  /\ WF_quotaVars(Apply) /\ WF_quotaVars(Persist) /\ WF_quotaVars(EndCancel)
  /\ \A p \in Providers : WF_quotaVars(Timeout(p)) /\ WF_quotaVars(Reap(p)) /\ WF_quotaVars(Put(p))

-----------------------------------------------------------------------------
(* Properties.                                                             *)

\* What a cancelled refresh had asked for is never published, by it or by a later one, and a
\* later one finds its own answers only: nobody waits for room in the inbox.
OnlyOwnAnswers ==
  /\ \A p \in Providers : published[p].of \notin dropped
  /\ \A k \in DOMAIN inbox : inbox[k].result.of = of /\ inbox[k].from \in asked

\* The state keeps its types and the inbox mixes no two refreshes.
RefreshSafe == QuotaTypeOK /\ OnlyOwnAnswers

\* A provider that wants to be left alone is not asked before that time, however its answer
\* was delayed by the other provider and whoever refreshes; a cancelled refresh forgets it.
BackOffRespected ==
  [][\A p \in Providers : (call[p].pc = "off" /\ call'[p].pc = "ask") => now >= notBefore[p]]_quotaVars

\* When a call has ended, so has its child, in spite of timeouts and cancellation; the
\* exception the code has is an interruption while it waits for the child to end.
NoChildLeft ==
  \A p \in Providers : call[p].pc \in {"off", "put"} => child[p] \subseteq interrupted

\* A refresh ends, although a provider never answers, so every provider is asked again.
RefreshEnds == stage # "off" ~> stage = "off"
=============================================================================
