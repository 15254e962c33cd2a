---------------------------- MODULE KnowledgeBase ----------------------------
(***************************************************************************)
(* The host of the expert service (expert/host.lisp), its documents        *)
(* (storage.lisp, outcome.lisp) and the operations of the service that     *)
(* write them (service.lisp, outcome-dispatch.lisp).  The host serves one  *)
(* request at a time; a request is several transactions of the Tek9 store, *)
(* and the process may be killed between any two: the adapter kills it     *)
(* when an answer is late, and clients ask again.  A transaction that      *)
(* signals an error leaves nothing behind.                                 *)
(***************************************************************************)
EXTENDS Naturals, Sequences, FiniteSets

CONSTANTS
  Events,       \* stable ids of requests
  Contents,     \* what the fields, the message or a piece of evidence may say
  Labels,       \* dimension, value and rule: what names an assertion of the classifier
  Scopes,       \* requests and tasks that outcomes are about
  EvidenceIds,
  None,
  Faults,       \* what may go wrong, see FaultKinds
  MaxLabels,    \* bound on the assertions of a classification (32)
  MaxRequests   \* bound on the requests

FaultKinds == {"crash",     \* the process is killed
               "reasoner"}  \* the reasoner fails, or its result is rejected

ASSUME KnowledgeBaseAssumption ==
  /\ Faults \subseteq FaultKinds
  /\ None \notin Contents /\ None \notin Scopes \X Events
  /\ MaxLabels \in Nat \ {0} /\ MaxRequests \in Nat

VARIABLES
  host,       \* down, opening (the migration of the index), idle, or the next transaction
  request,    \* the request that is served
  left,       \* assertions of the classifier that are still to be stored
  reply,      \* the last reply, until the next request
  events,     \* event:<id>
  sources,    \* classification-source:<id>
  labels,     \* assertion:classification:<id>:<label>
  evidence,   \* outcome-evidence:<id>
  outcomes,   \* outcome-assertion:<scope>:<id>
  revision,   \* meta:kb-revision; 0: absent
  index,      \* outcomes that the index outcome-assertion-outcome lists
  marker,     \* the marker of its migration
  derived,    \* what the rules make of the source of an event, once they were asked
  asked,      \* number of requests so far
  accepted    \* history: requests answered with ok

docs    == <<events, sources, labels, evidence, outcomes>>
control == <<host, request, left, reply>>
vars    == <<control, docs, revision, index, marker, derived, asked, accepted>>

Outcomes == Scopes \X Events     \* %outcome-assertion-id
Derived  == [label : Labels, says : Contents]
Pieces   == UNION {[S -> Contents] : S \in SUBSET EvidenceIds \ {{}}}
Outcome  == [evidence : Pieces, supersedes : Outcomes \cup {None}]
Requests ==
  [op : {"observe"}, event : Events, fields : Contents]
    \cup [op : {"classify"}, event : Events, fields : Contents, message : Contents]
    \cup [op : {"outcome"}, event : Events, scope : Scopes, evidence : Pieces,
          supersedes : Outcomes \cup {None}]

\* That there is no document is no document.
ASSUME NoneAssumption == None \notin Outcome

TypeOK ==
  /\ host \in {"down", "rebuild", "mark", "open", "idle", "event", "source", "rules",
               "labels", "outcome"}
  /\ request \in Requests \cup {None}
  /\ left \in Seq(Derived)
  /\ reply \in {"none", "ok", "refused", "reasoner"}
  /\ events \in [Events -> Contents \cup {None}]
  /\ sources \in [Events -> Contents \cup {None}]
  /\ labels \in [Events \X Labels -> Contents \cup {None}]
  /\ evidence \in [EvidenceIds -> Contents \cup {None}]
  /\ outcomes \in [Outcomes -> Outcome \cup {None}]
  /\ revision \in Nat /\ asked \in Nat
  /\ index \subseteq Outcomes
  /\ marker \in BOOLEAN
  /\ derived \in [Events -> Seq(Derived)]
  /\ accepted \subseteq Requests

Stored(f) == {k \in DOMAIN f : f[k] # None}

\* A new store, or one that an older version has written, before the index existed.
Init ==
  /\ host = "down" /\ request = None /\ left = <<>> /\ reply = "none"
  /\ events = [e \in Events |-> None]
  /\ sources = [e \in Events |-> None]
  /\ labels = [l \in Events \X Labels |-> None]
  /\ \/ /\ evidence = [v \in EvidenceIds |-> None]
        /\ outcomes = [o \in Outcomes |-> None]
        /\ revision = 0
     \/ \E o \in Outcomes, p \in Pieces :
          /\ evidence = [v \in EvidenceIds |-> IF v \in DOMAIN p THEN p[v] ELSE None]
          /\ outcomes = [q \in Outcomes |->
                           IF q = o THEN [evidence |-> p, supersedes |-> None] ELSE None]
          /\ revision = 2
  /\ index = {} /\ marker = FALSE
  /\ derived = [e \in Events |-> <<>>]
  /\ asked = 0
  /\ accepted = {}

-----------------------------------------------------------------------------
(* start-expert-host.                                                      *)

NoRequest == UNCHANGED <<request, left, reply, derived, asked, accepted>>

\* Mutant of Rebuild: the marker is written first.
MarkFirst ==
  /\ host = "rebuild"
  /\ marker' = TRUE
  /\ host' = "mark"
  /\ UNCHANGED <<docs, revision, index>> /\ NoRequest

\* The indexes are registered; the marker decides whether this one is rebuilt.
Start ==
  /\ host = "down"
  /\ host' = IF marker THEN "open" ELSE "rebuild"
  /\ UNCHANGED <<docs, revision, index, marker>> /\ NoRequest

\* Mutant of Rebuild: projections of another kind get into the index.
RebuildUnfiltered ==
  /\ host = "rebuild"
  /\ index' = Stored(outcomes) \cup Stored(evidence)
  /\ host' = "mark"
  /\ UNCHANGED <<docs, revision, marker>> /\ NoRequest

Rebuild ==
  /\ host = "rebuild"
  /\ index' = Stored(outcomes)
  /\ host' = "mark"
  /\ UNCHANGED <<docs, revision, marker>> /\ NoRequest

Mark ==
  /\ host = "mark"
  /\ marker' = TRUE
  /\ host' = "open"
  /\ UNCHANGED <<docs, revision, index>> /\ NoRequest

\* %ensure-kb-revision, and the worker of the reasoner; without it the store is closed.
Open ==
  /\ host = "open"
  /\ revision' = IF revision = 0 THEN 1 ELSE revision
  /\ host' = "idle" \/ ("reasoner" \in Faults /\ host' = "down")
  /\ UNCHANGED <<docs, index, marker>> /\ NoRequest

\* The process is killed.  A rebuild may have got anywhere.
Crash ==
  /\ "crash" \in Faults /\ host # "down"
  /\ host' = "down" /\ request' = None /\ left' = <<>> /\ reply' = "none"
  /\ IF host = "rebuild"
       THEN \E part \in SUBSET Stored(outcomes) : index' = index \cup part
       ELSE UNCHANGED index
  /\ UNCHANGED <<docs, revision, marker, derived, asked, accepted>>

-----------------------------------------------------------------------------
(* Requests.                                                               *)

Ask(r) ==
  /\ host = "idle" /\ asked < MaxRequests
  /\ asked' = asked + 1
  /\ request' = r
  /\ host' = IF r.op = "outcome" THEN "outcome" ELSE "event"
  /\ reply' = "none"
  /\ UNCHANGED <<left, docs, revision, index, marker, derived, accepted>>

Reply(how) ==
  /\ reply' = how
  /\ host' = "idle" /\ request' = None /\ left' = <<>>
  /\ accepted' = IF how = "ok" THEN accepted \cup {request} ELSE accepted

\* The next transaction of the same request.
Proceed(step) == host' = step /\ UNCHANGED <<request, reply, accepted>>

\* Mutant of Created: the revision is that of the last start.
CreatedQuietly == UNCHANGED revision

Created == revision' = revision + 1

\* Create a document, find it as it is, or refuse to change it.
Fits(f, k, doc) == f[k] = None \/ f[k] = doc

Store(f, k, doc) == [f EXCEPT ![k] = doc]

Note(f, k) == IF f[k] = None THEN Created ELSE UNCHANGED revision

\* project-request-event: the first transaction of observe and of classify.
ProjectEvent ==
  /\ host = "event"
  /\ LET e == request.event IN
       \/ /\ Fits(events, e, request.fields)
          /\ events' = Store(events, e, request.fields)
          /\ Note(events, e)
          /\ IF request.op = "observe" THEN Reply("ok")
                                       ELSE Proceed("source") /\ UNCHANGED left
       \/ /\ ~Fits(events, e, request.fields)
          /\ Reply("refused")
          /\ UNCHANGED <<events, revision>>
  /\ UNCHANGED <<sources, labels, evidence, outcomes, index, marker, derived, asked>>

\* project-classification-source.
ProjectSource ==
  /\ host = "source"
  /\ LET e == request.event IN
       \/ /\ Fits(sources, e, request.message)
          /\ sources' = Store(sources, e, request.message)
          /\ Note(sources, e)
          /\ Proceed("rules") /\ UNCHANGED left
       \/ /\ ~Fits(sources, e, request.message)
          /\ Reply("refused")
          /\ UNCHANGED <<sources, revision>>
  /\ UNCHANGED <<events, labels, evidence, outcomes, index, marker, derived, asked>>

\* The rules are a function of the source, and the source of an event never changes: what
\* they make of it is chosen when they are first asked.  They may name a label twice.
Classifications == UNION {[1 .. n -> Derived] : n \in 1 .. MaxLabels}

Derive ==
  /\ host = "rules"
  /\ LET e == request.event IN
       \/ /\ \E d \in Classifications :
               /\ derived[e] \in {<<>>, d}
               /\ derived' = [derived EXCEPT ![e] = d]
               /\ left' = d
          /\ Proceed("labels")
       \/ "reasoner" \in Faults /\ Reply("reasoner") /\ UNCHANGED derived
  /\ UNCHANGED <<docs, revision, index, marker, asked>>

\* Mutant of StoreLabel: what is there is not compared.
StoreLabelOver ==
  /\ host = "labels"
  /\ LET l == <<request.event, Head(left).label>> IN
       /\ labels' = Store(labels, l, Head(left).says)
       /\ Note(labels, l)
       /\ IF Tail(left) = <<>> THEN Reply("ok")
                               ELSE Proceed("labels") /\ left' = Tail(left)
  /\ UNCHANGED <<events, sources, evidence, outcomes, index, marker, derived, asked>>

\* The loop of derive-request-classification: an assertion is validated and stored, then
\* the next; what was stored before one that is refused or rejected stays.
StoreLabel ==
  /\ host = "labels"
  /\ LET l == <<request.event, Head(left).label>> IN
       \/ /\ Fits(labels, l, Head(left).says)
          /\ labels' = Store(labels, l, Head(left).says)
          /\ Note(labels, l)
          /\ IF Tail(left) = <<>> THEN Reply("ok")
                                  ELSE Proceed("labels") /\ left' = Tail(left)
       \/ /\ ~Fits(labels, l, Head(left).says)
          /\ Reply("refused")
          /\ UNCHANGED <<labels, revision>>
       \/ "reasoner" \in Faults /\ Reply("reasoner") /\ UNCHANGED <<labels, revision>>
  /\ UNCHANGED <<events, sources, evidence, outcomes, index, marker, derived, asked>>

-----------------------------------------------------------------------------
(* record_outcome_evidence.                                                *)

Successors(o) == {q \in Stored(outcomes) : outcomes[q].supersedes = o}

\* Mutants of MaySupersede: other successors are not looked for; the assertion itself is
\* taken for one of them.
MaySupersedeAgain(q, o) == q # o /\ o \in Stored(outcomes) /\ q[1] = o[1]
MaySupersedeOnce(q, o) ==
  q # o /\ o \in Stored(outcomes) /\ q[1] = o[1] /\ Successors(o) = {}

\* %validate-outcome-supersession: the assertion exists, in the same scope, and has no
\* other successor.
MaySupersede(q, o) ==
  q # o /\ o \in Stored(outcomes) /\ q[1] = o[1] /\ Successors(o) \subseteq {q}

\* Mutant of Gather: the evidence is left to another transaction.
GatherLater(p) == UNCHANGED evidence

Gather(p) == evidence' = [v \in EvidenceIds |-> IF v \in DOMAIN p THEN p[v] ELSE evidence[v]]

\* The rules decide, then one transaction stores evidence and decision and counts up the
\* revision even if all is there already.  The rules decide by the evidence alone, so the
\* document is told by its evidence.
RecordOutcome ==
  /\ host = "outcome"
  /\ LET o == <<request.scope, request.event>>
         p == request.evidence
         q == request.supersedes
         doc  == [evidence |-> p, supersedes |-> q]
         fits == /\ q = None \/ MaySupersede(o, q)
                 /\ \A v \in DOMAIN p : Fits(evidence, v, p[v])
                 /\ Fits(outcomes, o, doc) IN
       \/ /\ fits
          /\ Gather(p)
          /\ outcomes' = Store(outcomes, o, doc)
          /\ index' = index \cup {o}
          /\ Created
          /\ Reply("ok")
       \/ ~fits /\ Reply("refused") /\ UNCHANGED <<evidence, outcomes, index, revision>>
       \/ /\ "reasoner" \in Faults /\ Reply("reasoner")
          /\ UNCHANGED <<evidence, outcomes, index, revision>>
  /\ UNCHANGED <<events, sources, labels, marker, derived, asked>>

Next ==
  \/ Start \/ Rebuild \/ Mark \/ Open \/ Crash
  \/ \E r \in Requests : Ask(r)
  \/ ProjectEvent \/ ProjectSource \/ Derive \/ StoreLabel \/ RecordOutcome

Spec == Init /\ [][Next]_vars

-----------------------------------------------------------------------------
(* query-outcome-history.                                                  *)

\* Mutant of Depth: an assertion is older than those that supersede, and that is all.
DepthOfTwo(K) == [o \in K |-> IF outcomes[o].supersedes = None THEN 0 ELSE 1]

\* %outcome-history-depth of the assertions K, by which the history is sorted.
Depth(K) ==
  LET d[o \in K] == LET q == outcomes[o].supersedes IN
                      IF q = None THEN 0 ELSE IF q \in K THEN 1 + d[q] ELSE 1
  IN d

-----------------------------------------------------------------------------
(* Properties.                                                             *)

\* No document refers to one that is missing, whatever was interrupted: a classifier's
\* assertion has its event and its source, an outcome its evidence, as it was decided on,
\* and the assertion that it supersedes, of the same scope.
Grounded ==
  /\ \A l \in Stored(labels) : events[l[1]] # None /\ sources[l[1]] # None
  /\ \A o \in Stored(outcomes) :
       /\ \A v \in DOMAIN outcomes[o].evidence : evidence[v] = outcomes[o].evidence[v]
       /\ outcomes[o].supersedes # None =>
            outcomes[o].supersedes \in {q \in Stored(outcomes) : q[1] = o[1]}

\* Supersession makes chains: nothing is superseded twice, so a history names at most one
\* assertion that replaces another, and the latest of a chain is unambiguous.
NoForks == \A o \in Stored(outcomes) : Cardinality(Successors(o)) <= 1

\* An answer that carries a revision is an answer about this revision: no document is
\* added without a new one.
RevisionTellsChanges == [][docs' # docs => revision' > revision]_vars

\* A dataset query that uses the index sees every outcome, those an older version wrote
\* included, although the migration may have been interrupted anywhere.
IndexComplete ==
  host \notin {"down", "rebuild", "mark"} => index = Stored(outcomes)

\* What was answered with ok is in the store and stays there as it was accepted.
AcceptedIsStored ==
  \A r \in accepted :
    CASE r.op = "observe"  -> events[r.event] = r.fields
      [] r.op = "classify" ->
           /\ events[r.event] = r.fields /\ sources[r.event] = r.message
           /\ \A i \in DOMAIN derived[r.event] : LET d == derived[r.event][i] IN
                labels[<<r.event, d.label>>] = d.says
      [] r.op = "outcome"  ->
           outcomes[<<r.scope, r.event>>] =
             [evidence |-> r.evidence, supersedes |-> r.supersedes]

\* A request that was accepted may be asked again, by a backfill or after a lost answer:
\* it is not refused, whatever has been recorded since.
ReplayAccepted ==
  [][(request \in accepted /\ request' = None /\ host' = "idle") => reply' # "refused"]_vars

\* The history of a scope, asked for without a filter and no longer than the bound on its
\* candidates, shows what replaced an assertion before the assertion itself, over any number
\* of steps: the limit of the query never cuts off the latest of a chain.
HistoryFollowsChains ==
  \A s \in Scopes :
    LET K == {o \in Stored(outcomes) : o[1] = s} IN
      \A o, q \in K : outcomes[o].supersedes = q => Depth(K)[q] < Depth(K)[o]

\* The state is well formed; the chains of supersession have one latest assertion each, and the
\* history of a scope is ordered along them.
ChainsSafe == TypeOK /\ NoForks /\ HistoryFollowsChains

\* An answer can be relied on: its revision tells every later change, and it can be had again.
AnswersHold == RevisionTellsChanges /\ ReplayAccepted
=============================================================================
