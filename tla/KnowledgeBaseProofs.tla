------------------------ MODULE KnowledgeBaseProofs -------------------------
(***************************************************************************)
(* Proofs about KnowledgeBase for any constants: what documents refer to   *)
(* exists, the index of the outcomes misses none, and what was accepted is *)
(* stored and may be asked again.                                          *)
(***************************************************************************)
EXTENDS KnowledgeBase, FiniteSetTheorems, WellFoundedInduction, TLAPS

USE KnowledgeBaseAssumption, NoneAssumption

\* The documents that others refer to keep their type.
DocTypes ==
  /\ events \in [Events -> Contents \cup {None}]
  /\ sources \in [Events -> Contents \cup {None}]
  /\ evidence \in [EvidenceIds -> Contents \cup {None}]
  /\ outcomes \in [Outcomes -> Outcome \cup {None}]
  /\ DOMAIN labels = Events \X Labels /\ labels = [l \in Events \X Labels |-> labels[l]]

\* The transaction that is next belongs to the request, and its documents are there.
RequestServed ==
  /\ host \in {"event", "source", "rules", "labels", "outcome"} => request \in Requests
  /\ host = "outcome" <=> host \in {"event", "source", "rules", "labels", "outcome"} /\ request.op = "outcome"
  /\ host \in {"source", "rules", "labels"} => request.op = "classify" /\ events[request.event] # None
  /\ host \in {"rules", "labels"} => sources[request.event] # None

\* The index is complete once it was rebuilt, and the marker says only that.
IndexBuilt ==
  /\ host = "rebuild" => ~marker
  /\ marker \/ host \notin {"down", "rebuild"} => index = Stored(outcomes)

\* An outcome has one successor.
OneSuccessor ==
  \A o, q \in Stored(outcomes) :
    outcomes[o].supersedes = outcomes[q].supersedes /\ outcomes[o].supersedes # None => o = q

KbInv == DocTypes /\ RequestServed /\ IndexBuilt /\ Grounded /\ OneSuccessor /\ revision \in Nat

-----------------------------------------------------------------------------
\* The fields of a request.
LEMMA RequestFields ==
  ASSUME NEW r \in Requests
  PROVE  /\ r.op \in {"observe", "classify", "outcome"} /\ r.event \in Events
         /\ r.op # "outcome" => r.fields \in Contents
         /\ r.op = "classify" => r.message \in Contents
         /\ r.op = "outcome" => /\ r.scope \in Scopes /\ r.evidence \in Pieces
                                /\ r.supersedes \in Outcomes \cup {None}
<1> DEFINE O == [op : {"observe"}, event : Events, fields : Contents]
           C == [op : {"classify"}, event : Events, fields : Contents, message : Contents]
           R == [op : {"outcome"}, event : Events, scope : Scopes, evidence : Pieces,
                 supersedes : Outcomes \cup {None}]
<1>1. r \in O \/ r \in C \/ r \in R
  BY DEF Requests
<1>2. CASE r \in O
  BY <1>2
<1>3. CASE r \in C
  BY <1>3
<1>4. CASE r \in R
  BY <1>4
<1> QED
  BY <1>1, <1>2, <1>3, <1>4

LEMMA PieceContents ==
  ASSUME NEW p \in Pieces
  PROVE  DOMAIN p \subseteq EvidenceIds /\ \A v \in DOMAIN p : p[v] \in Contents
BY DEF Pieces

LEMMA KbInit == Init => KbInv
<1> SUFFICES ASSUME Init PROVE KbInv
  OBVIOUS
<1>1. CASE /\ evidence = [v \in EvidenceIds |-> None] /\ outcomes = [o \in Outcomes |-> None]
  <2>1. DocTypes
    BY <1>1 DEF Init, DocTypes
  <2>2. Stored(outcomes) = {}
    BY <1>1 DEF Stored
  <2>3. Grounded
    BY <2>2 DEF Init, Grounded, Stored
  <2> QED
    BY <2>1, <2>2, <2>3 DEF Init, KbInv, RequestServed, IndexBuilt, OneSuccessor
<1>2. ASSUME NEW o \in Outcomes, NEW p \in Pieces,
             evidence = [v \in EvidenceIds |-> IF v \in DOMAIN p THEN p[v] ELSE None],
             outcomes = [q \in Outcomes |-> IF q = o THEN [evidence |-> p, supersedes |-> None] ELSE None]
      PROVE  KbInv
  <2> DEFINE doc == [evidence |-> p, supersedes |-> None]
  <2>1. doc \in Outcome /\ doc.evidence = p /\ doc.supersedes = None
    BY DEF Outcome
  <2>2. DOMAIN p \subseteq EvidenceIds /\ \A v \in DOMAIN p : p[v] \in Contents
    BY PieceContents
  <2>3. outcomes = [q \in Outcomes |-> IF q = o THEN doc ELSE None]
    BY <1>2
  <2> HIDE DEF doc
  <2>4. DocTypes
    BY <1>2, <2>1, <2>2, <2>3 DEF Init, DocTypes
  <2>5. \A q \in Stored(outcomes) : q = o /\ outcomes[q] = doc
    BY <2>3 DEF Stored
  <2>6. Grounded
    <3>1. Stored(labels) = {}
      BY DEF Init, Stored
    <3>2. \A v \in DOMAIN p : evidence[v] = p[v]
      BY <1>2, <2>2
    <3> QED
      BY <2>1, <2>5, <3>1, <3>2 DEF Grounded
  <2> QED
    BY <2>4, <2>5, <2>6 DEF Init, KbInv, RequestServed, IndexBuilt, OneSuccessor
<1> QED
  BY <1>1, <1>2 DEF Init

\* Documents stay: what referred to them still finds them.
LEMMA GroundStays ==
  ASSUME DocTypes, Grounded, UNCHANGED <<labels, evidence, outcomes>>,
         \A e \in Events : events[e] # None => events'[e] = events[e],
         \A e \in Events : sources[e] # None => sources'[e] = sources[e]
  PROVE  Grounded' /\ (OneSuccessor => OneSuccessor')
<1>1. \A l \in Stored(labels) : l[1] \in Events
  BY DEF DocTypes, Stored
<1> QED
  BY <1>1 DEF Grounded, Stored, OneSuccessor

\* What a transaction does to the revision.
LEMMA RevisionStep ==
  ASSUME KbInv, [Next]_vars
  PROVE  revision' \in Nat /\ (docs' # docs => revision' > revision)
<1>1. revision \in Nat
  BY DEF KbInv
<1>2. CASE Start \/ Rebuild \/ Mark \/ Open \/ Crash \/ (\E r \in Requests : Ask(r)) \/ Derive \/ UNCHANGED vars
  BY <1>1, <1>2 DEF Start, Rebuild, Mark, Open, Crash, Ask, Derive, vars
<1>3. CASE ProjectEvent
  <2>1. \/ revision' = revision + 1 /\ events[request.event] = None
        \/ revision' = revision /\ events' = events
    <3>1. CASE Fits(events, request.event, request.fields) /\ events' = Store(events, request.event, request.fields)
               /\ Note(events, request.event)
      BY <3>1 DEF Fits, Store, Note, Created, KbInv, DocTypes
    <3> QED
      BY <1>3, <3>1 DEF ProjectEvent
  <2> QED
    BY <1>1, <1>3, <2>1 DEF ProjectEvent, docs
<1>4. CASE ProjectSource
  <2>1. \/ revision' = revision + 1 /\ sources[request.event] = None
        \/ revision' = revision /\ sources' = sources
    <3>1. CASE Fits(sources, request.event, request.message) /\ sources' = Store(sources, request.event, request.message)
               /\ Note(sources, request.event)
      BY <3>1 DEF Fits, Store, Note, Created, KbInv, DocTypes
    <3> QED
      BY <1>4, <3>1 DEF ProjectSource
  <2> QED
    BY <1>1, <1>4, <2>1 DEF ProjectSource, docs
<1>5. CASE StoreLabel
  <2> DEFINE l == <<request.event, Head(left).label>>
             says == Head(left).says
  <2>1. \/ revision' = revision + 1
        \/ revision' = revision /\ labels' = labels
    <3>1. CASE Fits(labels, l, says) /\ labels' = Store(labels, l, says) /\ Note(labels, l)
      <4>1. labels[l] = None \/ labels[l] = says
        BY <3>1 DEF Fits
      <4>2. labels' = [labels EXCEPT ![l] = says] /\ labels = [x \in DOMAIN labels |-> labels[x]]
        BY <3>1 DEF Store, KbInv, DocTypes
      <4>3. revision' = IF labels[l] = None THEN revision + 1 ELSE revision
        BY <3>1 DEF Note, Created
      <4> HIDE DEF l, says
      <4> QED
        BY <4>1, <4>2, <4>3
    <3> QED
      BY <1>5, <3>1 DEF StoreLabel
  <2> QED
    BY <1>1, <1>5, <2>1 DEF StoreLabel, docs
<1>6. CASE RecordOutcome
  BY <1>1, <1>6 DEF RecordOutcome, Created, docs
<1> QED
  BY <1>2, <1>3, <1>4, <1>5, <1>6 DEF Next

\* Starting, serving a question of the rules, and dying write no document that refers to another.
LEMMA QuietStep ==
  ASSUME KbInv, Start \/ Rebuild \/ Mark \/ Open \/ Crash \/ (\E r \in Requests : Ask(r)) \/ Derive
  PROVE  KbInv'
<1> USE DEF KbInv
<1>1. UNCHANGED <<events, sources, labels, evidence, outcomes>>
  BY DEF Start, Rebuild, Mark, Open, Crash, Ask, Derive, docs
<1>2. DocTypes' /\ Grounded' /\ OneSuccessor' /\ revision' \in Nat
  BY <1>1, GroundStays, RevisionStep DEF DocTypes, Next
<1>3. RequestServed'
  <2>1. CASE Start \/ Rebuild \/ Mark \/ Open \/ Crash
    BY <1>1, <2>1 DEF RequestServed, Start, Rebuild, Mark, Open, Crash
  <2>2. ASSUME NEW r \in Requests, Ask(r) PROVE RequestServed'
    BY <1>1, <2>2 DEF RequestServed, Ask
  <2>3. CASE Derive
    BY <1>1, <2>3 DEF RequestServed, Derive, Reply, Proceed
  <2> QED
    BY <2>1, <2>2, <2>3
<1>4. IndexBuilt'
  <2>1. Stored(outcomes)' = Stored(outcomes)
    BY <1>1 DEF Stored
  <2>2. CASE Start \/ Rebuild \/ Mark \/ Open
    BY <2>1, <2>2 DEF IndexBuilt, Start, Rebuild, Mark, Open
  <2>3. CASE Crash
    BY <2>1, <2>3 DEF IndexBuilt, Crash
  <2>4. CASE (\E r \in Requests : Ask(r)) \/ Derive
    BY <2>1, <2>4 DEF IndexBuilt, Ask, Derive, Reply, Proceed
  <2> QED
    BY <2>2, <2>3, <2>4
<1> QED
  BY <1>2, <1>3, <1>4

LEMMA ProjectStep == ASSUME KbInv, ProjectEvent \/ ProjectSource PROVE KbInv'
<1> USE DEF KbInv
<1> DEFINE e == request.event
<1>1. /\ host \in {"event", "source"} /\ request \in Requests /\ e \in Events /\ request.fields \in Contents
      /\ host = "source" => request.message \in Contents
  BY RequestFields DEF ProjectEvent, ProjectSource, RequestServed
<1>2. UNCHANGED <<labels, evidence, outcomes, index, marker>>
  BY DEF ProjectEvent, ProjectSource
<1>3. /\ events' \in [Events -> Contents \cup {None}] /\ sources' \in [Events -> Contents \cup {None}]
      /\ \A x \in Events : events[x] # None => events'[x] = events[x]
      /\ \A x \in Events : sources[x] # None => sources'[x] = sources[x]
      /\ host' = "source" => events'[e] # None /\ request.op # "observe" /\ host = "event"
      /\ host' = "rules" => sources'[e] # None /\ events' = events
      /\ host' \in {"idle", "source", "rules"}
      /\ host' # "idle" => request' = request
  <2>1. CASE ProjectEvent
    BY <1>1, <2>1 DEF ProjectEvent, Fits, Store, Reply, Proceed, DocTypes
  <2>2. CASE ProjectSource
    BY <1>1, <2>2 DEF ProjectSource, Fits, Store, Reply, Proceed, DocTypes
  <2> QED
    BY <2>1, <2>2
<1>4. DocTypes' /\ Grounded' /\ OneSuccessor' /\ IndexBuilt' /\ revision' \in Nat
  BY <1>1, <1>2, <1>3, GroundStays, RevisionStep DEF DocTypes, IndexBuilt, Stored, Next
<1>5. RequestServed'
  <2>1. request.op \in {"observe", "classify", "outcome"}
    BY <1>1, RequestFields
  <2>2. CASE host' = "source"
    BY <1>1, <1>3, <2>1, <2>2 DEF RequestServed
  <2>3. CASE host' = "rules"
    <3>1. host = "source"
      BY <2>3 DEF ProjectEvent, ProjectSource, Reply, Proceed
    <3> QED
      BY <1>1, <1>3, <2>1, <2>3, <3>1 DEF RequestServed
  <2>4. CASE host' = "idle"
    BY <2>4 DEF RequestServed
  <2> QED
    BY <1>3, <2>2, <2>3, <2>4
<1> QED
  BY <1>4, <1>5

\* An assertion of the classifier is stored after its event and its source.
LEMMA LabelStep == ASSUME KbInv, StoreLabel PROVE KbInv'
<1> USE DEF KbInv
<1>1. /\ host = "labels" /\ events[request.event] # None /\ sources[request.event] # None
      /\ UNCHANGED <<events, sources, evidence, outcomes, index, marker>>
  BY DEF StoreLabel, RequestServed
<1>2. \/ labels' = labels
      \/ \E k, says : labels' = [labels EXCEPT ![<<request.event, k>>] = says]
  BY DEF StoreLabel, Store
<1>3. \A l \in Stored(labels') : l \in Stored(labels) \/ l[1] = request.event
  <2>1. CASE labels' = labels
    BY <2>1 DEF Stored
  <2>2. ASSUME NEW k, NEW says, labels' = [labels EXCEPT ![<<request.event, k>>] = says]
        PROVE  \A l \in Stored(labels') : l \in Stored(labels) \/ l[1] = request.event
    <3> DEFINE l0 == <<request.event, k>>
    <3>1. l0[1] = request.event
      OBVIOUS
    <3>2. labels' = [labels EXCEPT ![l0] = says]
      BY <2>2
    <3> HIDE DEF l0
    <3> QED
      BY <3>1, <3>2 DEF Stored
  <2> QED
    BY <1>2, <2>1, <2>2
<1>4. Grounded'
  <2>1. \A l \in Stored(labels') : events'[l[1]] # None /\ sources'[l[1]] # None
    BY <1>1, <1>3 DEF Grounded
  <2> QED
    BY <1>1, <2>1 DEF Grounded, Stored
<1>5. DocTypes' /\ IndexBuilt'
  <2> DEFINE L == Events \X Labels
  <2>0. DOMAIN labels = L /\ labels = [l \in L |-> labels[l]]
    BY DEF DocTypes
  <2>1. DOMAIN labels' = L /\ labels' = [l \in L |-> labels'[l]]
    <3> HIDE DEF L
    <3>1. CASE labels' = labels
      BY <2>0, <3>1
    <3>2. ASSUME NEW k, NEW says, labels' = [labels EXCEPT ![<<request.event, k>>] = says]
          PROVE  DOMAIN labels' = L /\ labels' = [l \in L |-> labels'[l]]
      <4> DEFINE l0 == <<request.event, k>>
      <4>1. labels' = [labels EXCEPT ![l0] = says]
        BY <3>2
      <4> HIDE DEF l0
      <4>2. labels' = [l \in L |-> IF l = l0 THEN says ELSE labels[l]]
        BY <2>0, <4>1
      <4> QED
        BY <4>2
    <3> QED
      BY <1>2, <3>1, <3>2
  <2>2. IndexBuilt'
    BY <1>1 DEF IndexBuilt, Stored, StoreLabel, Reply, Proceed
  <2> QED
    BY <1>1, <2>1, <2>2 DEF DocTypes
<1>7. OneSuccessor' /\ revision' \in Nat
  BY <1>1, RevisionStep DEF OneSuccessor, Stored, Next
<1>6. RequestServed'
  BY <1>1 DEF RequestServed, StoreLabel, Reply, Proceed
<1> QED
  BY <1>4, <1>5, <1>6, <1>7

\* An outcome is stored with its evidence, after what it supersedes, and indexed.
LEMMA OutcomeStep == ASSUME KbInv, RecordOutcome PROVE KbInv'
<1> USE DEF KbInv
<1> DEFINE o == <<request.scope, request.event>>
           p == request.evidence
           q == request.supersedes
           doc == [evidence |-> p, supersedes |-> q]
<1>1. /\ host = "outcome" /\ host' = "idle" /\ UNCHANGED <<events, sources, labels, marker>>
  BY DEF RecordOutcome, Reply
<1>2. request \in Requests /\ request.op = "outcome"
  BY <1>1 DEF RequestServed
<1>3. o \in Outcomes /\ o[1] = request.scope /\ p \in Pieces /\ q \in Outcomes \cup {None} /\ doc \in Outcome
      /\ doc.evidence = p /\ doc.supersedes = q
  BY <1>2, RequestFields DEF Outcomes, Outcome
<1>4. RequestServed'
  BY <1>1 DEF RequestServed
<1>0. revision' \in Nat
  BY RevisionStep DEF Next
<1>5. CASE UNCHANGED <<evidence, outcomes, index>>
  BY <1>0, <1>1, <1>4, <1>5, GroundStays DEF DocTypes, IndexBuilt, Stored
<1>6. CASE /\ q = None \/ MaySupersede(o, q)
           /\ \A v \in DOMAIN p : Fits(evidence, v, p[v])
           /\ Fits(outcomes, o, doc)
           /\ Gather(p) /\ outcomes' = Store(outcomes, o, doc) /\ index' = index \cup {o}
  <2>1. DOMAIN p \subseteq EvidenceIds /\ \A v \in DOMAIN p : p[v] \in Contents
    BY <1>3, PieceContents
  <2>2. /\ q # None => q \in Stored(outcomes) /\ q[1] = o[1]
        /\ outcomes[o] = None \/ outcomes[o] = doc
        /\ outcomes' = [outcomes EXCEPT ![o] = doc]
        /\ \A v \in DOMAIN p : evidence[v] = None \/ evidence[v] = p[v]
        /\ evidence' = [v \in EvidenceIds |-> IF v \in DOMAIN p THEN p[v] ELSE evidence[v]]
    BY <1>6 DEF MaySupersede, Fits, Store, Gather
  <2>0. q # None => \A x \in Stored(outcomes) : outcomes[x].supersedes = q => x = o
    BY <1>6 DEF MaySupersede, Successors
  <2> HIDE DEF o, p, q, doc
  <2>3. doc # None
    BY <1>3
  <2>4. DocTypes'
    BY <1>1, <1>3, <2>1, <2>2 DEF DocTypes
  <2>5. /\ Stored(outcomes') = Stored(outcomes) \cup {o}
        /\ \A x \in Stored(outcomes) : outcomes'[x] = outcomes[x]
        /\ outcomes'[o] = doc
    BY <1>3, <2>2, <2>3 DEF DocTypes, Stored
  <2>6. \A v \in EvidenceIds : evidence[v] # None => evidence'[v] = evidence[v]
    BY <2>2
  <2>7. \A v \in DOMAIN p : evidence'[v] = p[v]
    BY <2>1, <2>2
  <2>8. ASSUME NEW x \in Stored(outcomes')
        PROVE  /\ \A v \in DOMAIN outcomes'[x].evidence : evidence'[v] = outcomes'[x].evidence[v]
               /\ outcomes'[x].supersedes # None =>
                    outcomes'[x].supersedes \in {y \in Stored(outcomes') : y[1] = x[1]}
    <3>1. CASE x \in Stored(outcomes)
      <4>1. outcomes[x] \in Outcome /\ outcomes'[x] = outcomes[x]
        BY <2>5, <3>1 DEF DocTypes, Stored
      <4>2. outcomes[x].evidence \in Pieces
        BY <4>1 DEF Outcome
      <4>3. \A v \in DOMAIN outcomes[x].evidence :
              /\ v \in EvidenceIds /\ outcomes[x].evidence[v] # None
              /\ evidence[v] = outcomes[x].evidence[v]
        BY <3>1, <4>2, PieceContents DEF Grounded
      <4>4. \A v \in DOMAIN outcomes'[x].evidence : evidence'[v] = outcomes'[x].evidence[v]
        BY <2>6, <4>1, <4>3
      <4>5. outcomes'[x].supersedes # None =>
              outcomes'[x].supersedes \in {y \in Stored(outcomes) : y[1] = x[1]}
        BY <3>1, <4>1 DEF Grounded
      <4> QED
        BY <2>5, <4>4, <4>5
    <3>2. CASE x = o
      BY <1>3, <2>2, <2>5, <2>7, <3>2
    <3> QED
      BY <2>5, <3>1, <3>2
  <2>9. Grounded'
    <3>1. \A l \in Stored(labels') : events'[l[1]] # None /\ sources'[l[1]] # None
      BY <1>1 DEF Grounded
    <3> QED
      BY <2>8, <3>1 DEF Grounded, Stored
  <2>10. IndexBuilt'
    <3>1. index = Stored(outcomes) /\ index' = index \cup {o}
      BY <1>1, <1>6 DEF IndexBuilt, o, p, q, doc
    <3>2. index' = Stored(outcomes')
      BY <2>5, <3>1
    <3> QED
      BY <1>1, <3>2 DEF IndexBuilt, Stored
  <2>11. OneSuccessor'
    <3>1. \A x \in Stored(outcomes') : x = o \/ (x \in Stored(outcomes) /\ outcomes'[x] = outcomes[x])
      BY <2>5
    <3>2. \A x \in Stored(outcomes') :
            outcomes'[x].supersedes = outcomes'[o].supersedes /\ outcomes'[x].supersedes # None => x = o
      BY <1>3, <2>0, <2>5, <3>1
    <3> QED
      BY <3>1, <3>2 DEF OneSuccessor, Stored
  <2> QED
    BY <1>0, <1>4, <2>4, <2>9, <2>10, <2>11
<1> QED
  BY <1>5, <1>6 DEF RecordOutcome

LEMMA KbInvariant == Spec => []KbInv
<1>1. KbInv /\ [Next]_vars => KbInv'
  <2> SUFFICES ASSUME KbInv, [Next]_vars PROVE KbInv'
    OBVIOUS
  <2>1. CASE UNCHANGED vars
    BY <2>1 DEF vars, control, docs, KbInv, DocTypes, RequestServed, IndexBuilt, Grounded, OneSuccessor, Stored
  <2> QED
    BY <2>1, QuietStep, ProjectStep, LabelStep, OutcomeStep DEF Next
<1> QED
  BY <1>1, KbInit, PTL DEF Spec

\* Grounded for any ids, contents, rules and number of requests: whatever is interrupted or refused,
\* no document of the knowledge base refers to one that is missing or that has changed.
THEOREM DocumentsRefer == Spec => []Grounded
<1>1. KbInv => Grounded
  BY DEF KbInv
<1> QED
  BY <1>1, KbInvariant, PTL

\* IndexComplete for any store of an older version: however often its migration was interrupted, a
\* service that answers has every outcome in the index.
THEOREM IndexMissesNothing == Spec => []IndexComplete
<1>1. KbInv => IndexComplete
  BY DEF KbInv, IndexBuilt, IndexComplete
<1> QED
  BY <1>1, KbInvariant, PTL

\* NoForks, a part of ChainsSafe, for any scopes: an outcome is superseded at most once.
LEMMA ChainsDoNotFork == Spec => []NoForks
<1>1. ASSUME KbInv, NEW o \in Stored(outcomes) PROVE Cardinality(Successors(o)) <= 1
  <2>1. o # None
    BY <1>1 DEF KbInv, DocTypes, Stored, Outcomes
  <2>2. \A x, y \in Successors(o) : x = y
    BY <1>1, <2>1 DEF KbInv, OneSuccessor, Successors
  <2>3. CASE Successors(o) = {}
    BY <2>3, FS_EmptySet
  <2>4. CASE Successors(o) # {}
    <3>1. PICK x : x \in Successors(o)
      BY <2>4
    <3>2. Successors(o) = {x}
      BY <2>2, <3>1
    <3> QED
      BY <3>2, FS_Singleton
  <2> QED
    BY <2>3, <2>4
<1>2. KbInv => NoForks
  BY <1>1 DEF NoForks
<1> QED
  BY <1>2, KbInvariant, PTL

\* RevisionTellsChanges, a part of AnswersHold, for any request and any interruption: no document is
\* written without a new revision.
THEOREM RevisionsTell == Spec => RevisionTellsChanges
<1>1. KbInv /\ [Next]_vars => [docs' # docs => revision' > revision]_vars
  BY RevisionStep
<1> QED
  BY <1>1, KbInvariant, PTL DEF Spec, RevisionTellsChanges

-----------------------------------------------------------------------------
(* What was accepted.                                                      *)

\* The rest of the types.
RuleTypes == derived \in [Events -> Seq(Derived)] /\ accepted \subseteq Requests

\* The documents that the request has stored so far: its event, its source, and the assertions
\* of the rules but for those that are left.
Behind == Len(derived[request.event]) - Len(left)
Progress ==
  /\ host \in {"source", "rules", "labels"} => events[request.event] = request.fields
  /\ host \in {"rules", "labels"} => sources[request.event] = request.message
  /\ host = "labels" => LET d == derived[request.event] IN
       /\ left \in Seq(Derived) /\ left # <<>> /\ Behind \in Nat
       /\ \A i \in 1 .. Len(left) : left[i] = d[Behind + i]
       /\ \A i \in 1 .. Behind : labels[<<request.event, d[i].label>>] = d[i].says

\* A service that starts has answered nothing, and no outcome supersedes itself.
StartQuiet == host \in {"down", "rebuild", "mark", "open"} => reply = "none"
NotItself  == \A o \in Stored(outcomes) : outcomes[o].supersedes # o

\* All documents of a request are stored, and the rules have been asked.
Fulfilled(r) ==
  /\ r.op = "observe" => events[r.event] = r.fields
  /\ r.op = "classify" => LET d == derived[r.event] IN
       /\ events[r.event] = r.fields /\ sources[r.event] = r.message /\ d # <<>>
       /\ \A i \in 1 .. Len(d) : labels[<<r.event, d[i].label>>] = d[i].says
  /\ r.op = "outcome" =>
       outcomes[<<r.scope, r.event>>] = [evidence |-> r.evidence, supersedes |-> r.supersedes]

AcceptInv ==
  /\ KbInv /\ RuleTypes /\ Progress /\ StartQuiet /\ NotItself
  /\ \A r \in accepted : Fulfilled(r)

\* A document that is stored, and what the rules have made of a source, never change.
DocsKept ==
  /\ \A e \in Events : /\ events[e] # None => events'[e] = events[e]
                       /\ sources[e] # None => sources'[e] = sources[e]
                       /\ derived[e] # <<>> => derived'[e] = derived[e]
  /\ \A l \in Events \X Labels : labels[l] # None => labels'[l] = labels[l]
  /\ \A o \in Outcomes : outcomes[o] # None => outcomes'[o] = outcomes[o]

LEMMA DerivedFields ==
  ASSUME NEW d \in Seq(Derived), NEW i \in 1 .. Len(d)
  PROVE  d[i] \in Derived /\ d[i].label \in Labels /\ d[i].says \in Contents
<1>1. d[i] \in Derived
  OBVIOUS
<1>2. \A x \in Derived : x.label \in Labels /\ x.says \in Contents
  BY DEF Derived
<1> QED
  BY <1>1, <1>2

LEMMA FulfilledStays ==
  ASSUME RuleTypes, DocsKept, NEW r \in Requests, Fulfilled(r)
  PROVE  Fulfilled(r)'
<1>1. r.event \in Events
  BY RequestFields
<1>2. CASE r.op = "observe"
  <2>1. r.fields # None
    BY <1>2, RequestFields
  <2> QED
    BY <1>1, <1>2, <2>1 DEF Fulfilled, DocsKept
<1>3. CASE r.op = "classify"
  <2> DEFINE d == derived[r.event]
  <2>1. r.fields # None /\ r.message # None
    BY <1>3, RequestFields
  <2>2. d \in Seq(Derived) /\ d # <<>> /\ d' = d
    BY <1>1, <1>3 DEF Fulfilled, DocsKept, RuleTypes
  <2>3. \A i \in 1 .. Len(d) : labels[<<r.event, d[i].label>>] = d[i].says
    BY <1>3 DEF Fulfilled
  <2> HIDE DEF d
  <2>4. ASSUME NEW i \in 1 .. Len(d) PROVE labels'[<<r.event, d[i].label>>] = d[i].says
    <3>1. <<r.event, d[i].label>> \in Events \X Labels /\ d[i].says # None
      BY <1>1, <2>2, DerivedFields
    <3> QED
      BY <2>3, <3>1 DEF DocsKept
  <2>5. events'[r.event] = r.fields /\ sources'[r.event] = r.message
    BY <1>1, <1>3, <2>1 DEF Fulfilled, DocsKept
  <2> QED
    BY <1>3, <2>2, <2>4, <2>5 DEF Fulfilled, d
<1>4. CASE r.op = "outcome"
  <2>1. <<r.scope, r.event>> \in Outcomes
    BY <1>1, <1>4, RequestFields DEF Outcomes
  <2>2. [evidence |-> r.evidence, supersedes |-> r.supersedes] \in Outcome
    BY <1>4, RequestFields DEF Outcome
  <2> QED
    BY <1>4, <2>1, <2>2 DEF Fulfilled, DocsKept
<1> QED
  BY <1>2, <1>3, <1>4, RequestFields

LEMMA AcceptInit == Init => AcceptInv
<1> SUFFICES ASSUME Init PROVE AcceptInv
  OBVIOUS
<1>1. RuleTypes /\ Progress /\ StartQuiet /\ \A r \in accepted : Fulfilled(r)
  BY DEF Init, RuleTypes, Progress, StartQuiet
<1>2. NotItself
  <2>1. CASE outcomes = [o \in Outcomes |-> None]
    BY <2>1 DEF NotItself, Stored
  <2>2. ASSUME NEW o \in Outcomes, NEW p \in Pieces,
               outcomes = [q \in Outcomes |-> IF q = o THEN [evidence |-> p, supersedes |-> None] ELSE None]
        PROVE  NotItself
    BY <2>2 DEF NotItself, Stored, Outcomes
  <2> QED
    BY <2>1, <2>2 DEF Init
<1> QED
  BY <1>1, <1>2, KbInit DEF AcceptInv

\* Steps that store nothing and answer nothing with ok.
LEMMA IdleKeeps ==
  ASSUME AcceptInv, KbInv', UNCHANGED <<docs, derived, accepted>>,
         host' \notin {"source", "rules", "labels"},
         host' \in {"down", "rebuild", "mark", "open"} => reply' = "none"
  PROVE  AcceptInv'
<1>1. DocsKept
  BY DEF DocsKept, docs
<1>2. \A r \in accepted' : Fulfilled(r)'
  BY <1>1, FulfilledStays DEF AcceptInv, RuleTypes
<1> QED
  BY <1>2 DEF AcceptInv, RuleTypes, Progress, StartQuiet, NotItself, Stored, docs

LEMMA QuietAccepts ==
  ASSUME AcceptInv, KbInv',
         Start \/ Rebuild \/ Mark \/ Open \/ Crash \/ (\E r \in Requests : Ask(r)) \/ UNCHANGED vars
  PROVE  AcceptInv'
<1>1. CASE Start \/ Rebuild \/ Mark \/ Open \/ Crash \/ \E r \in Requests : Ask(r)
  <2>1. UNCHANGED <<docs, derived, accepted>> /\ host' \notin {"source", "rules", "labels"}
    BY <1>1 DEF Start, Rebuild, Mark, Open, Crash, Ask, NoRequest
  <2>2. host' \in {"down", "rebuild", "mark", "open"} => reply' = "none"
    BY <1>1 DEF AcceptInv, StartQuiet, Start, Rebuild, Mark, Open, Crash, Ask, NoRequest
  <2> QED
    BY <2>1, <2>2, IdleKeeps
<1>2. CASE UNCHANGED vars
  <2>1. UNCHANGED <<control, docs, derived, accepted>>
    BY <1>2 DEF vars
  <2>2. DocsKept
    BY <2>1 DEF DocsKept, docs
  <2>3. \A r \in accepted' : Fulfilled(r)'
    BY <2>1, <2>2, FulfilledStays DEF AcceptInv, RuleTypes
  <2> QED
    BY <2>1, <2>3 DEF AcceptInv, RuleTypes, Progress, Behind, StartQuiet, NotItself, Stored, docs, control
<1> QED
  BY <1>1, <1>2

LEMMA EventAccepts == ASSUME AcceptInv, KbInv', ProjectEvent PROVE AcceptInv'
<1> DEFINE e == request.event
<1>1. /\ host = "event" /\ request \in Requests /\ e \in Events /\ request.fields \in Contents
      /\ request.op \in {"observe", "classify"}
  BY RequestFields DEF ProjectEvent, AcceptInv, KbInv, RequestServed
<1>2. UNCHANGED <<sources, labels, evidence, outcomes, derived>> /\ events \in [Events -> Contents \cup {None}]
  BY DEF ProjectEvent, AcceptInv, KbInv, DocTypes
<1>3. CASE /\ Fits(events, e, request.fields) /\ events' = Store(events, e, request.fields)
           /\ IF request.op = "observe" THEN Reply("ok") ELSE Proceed("source") /\ UNCHANGED left
  <2>1. events'[e] = request.fields /\ \A x \in Events : events[x] # None => events'[x] = events[x]
    BY <1>1, <1>2, <1>3 DEF Fits, Store
  <2>2. DocsKept
    BY <1>2, <2>1 DEF DocsKept
  <2>3. \A r \in accepted : Fulfilled(r)'
    BY <2>2, FulfilledStays DEF AcceptInv, RuleTypes
  <2>4. CASE request.op = "observe"
    <3>1. accepted' = accepted \cup {request} /\ host' = "idle"
      BY <1>3, <2>4 DEF Reply
    <3>2. \A r \in Requests : r = request => Fulfilled(r)'
      BY <2>1, <2>4 DEF Fulfilled
    <3> QED
      BY <1>1, <1>2, <2>3, <3>1, <3>2 DEF AcceptInv, RuleTypes, Progress, StartQuiet, NotItself, Stored
  <2>5. CASE request.op = "classify"
    <3>1. host' = "source" /\ request' = request /\ accepted' = accepted
      BY <1>3, <2>5 DEF Proceed
    <3>2. Progress'
      BY <2>1, <3>1 DEF Progress
    <3> QED
      BY <1>2, <2>3, <3>1, <3>2 DEF AcceptInv, RuleTypes, StartQuiet, NotItself, Stored
  <2> QED
    BY <1>1, <2>4, <2>5
<1>4. CASE Reply("refused") /\ UNCHANGED events
  BY <1>2, <1>4, IdleKeeps DEF Reply, docs
<1> QED
  BY <1>3, <1>4 DEF ProjectEvent

LEMMA SourceAccepts == ASSUME AcceptInv, KbInv', ProjectSource PROVE AcceptInv'
<1> DEFINE e == request.event
<1>1. /\ host = "source" /\ request \in Requests /\ e \in Events /\ request.message \in Contents
      /\ events[e] = request.fields
  BY RequestFields DEF ProjectSource, AcceptInv, KbInv, RequestServed, Progress
<1>2. UNCHANGED <<events, labels, evidence, outcomes, derived>> /\ sources \in [Events -> Contents \cup {None}]
  BY DEF ProjectSource, AcceptInv, KbInv, DocTypes
<1>3. CASE /\ Fits(sources, e, request.message) /\ sources' = Store(sources, e, request.message)
           /\ Proceed("rules")
  <2>1. sources'[e] = request.message /\ \A x \in Events : sources[x] # None => sources'[x] = sources[x]
    BY <1>1, <1>2, <1>3 DEF Fits, Store
  <2>2. DocsKept
    BY <1>2, <2>1 DEF DocsKept
  <2>3. \A r \in accepted : Fulfilled(r)'
    BY <2>2, FulfilledStays DEF AcceptInv, RuleTypes
  <2>4. host' = "rules" /\ request' = request /\ accepted' = accepted
    BY <1>3 DEF Proceed
  <2> QED
    BY <1>1, <1>2, <2>1, <2>3, <2>4 DEF AcceptInv, RuleTypes, Progress, StartQuiet, NotItself, Stored
<1>4. CASE Reply("refused") /\ UNCHANGED sources
  BY <1>2, <1>4, IdleKeeps DEF Reply, docs
<1> QED
  BY <1>3, <1>4 DEF ProjectSource

\* The rules are asked once per source: later they say the same.
LEMMA DeriveAccepts == ASSUME AcceptInv, KbInv', Derive PROVE AcceptInv'
<1> DEFINE e == request.event
<1>1. /\ host = "rules" /\ request \in Requests /\ e \in Events /\ derived \in [Events -> Seq(Derived)]
      /\ events[e] = request.fields /\ sources[e] = request.message
  BY RequestFields DEF Derive, AcceptInv, KbInv, RequestServed, Progress, RuleTypes
<1>2. UNCHANGED docs
  BY DEF Derive
<1>3. ASSUME NEW d \in Classifications, derived[e] \in {<<>>, d},
             derived' = [derived EXCEPT ![e] = d], left' = d, Proceed("labels")
      PROVE  AcceptInv'
  <2>1. d \in Seq(Derived) /\ d # <<>> /\ Len(d) \in Nat
    <3>1. PICK n \in 1 .. MaxLabels : d \in [1 .. n -> Derived]
      BY DEF Classifications
    <3> QED
      BY <3>1
  <2>2. derived' \in [Events -> Seq(Derived)] /\ derived'[e] = d
        /\ \A x \in Events : derived[x] # <<>> => derived'[x] = derived[x]
    BY <1>1, <1>3, <2>1
  <2>3. DocsKept
    BY <1>2, <2>2 DEF DocsKept, docs
  <2>4. \A r \in accepted : Fulfilled(r)'
    BY <2>3, FulfilledStays DEF AcceptInv, RuleTypes
  <2>5. host' = "labels" /\ request' = request /\ accepted' = accepted
    BY <1>3 DEF Proceed
  <2>6. Progress'
    <3>1. Behind' = 0 /\ left' = derived'[request'.event] /\ derived'[request'.event] = d
      BY <1>3, <2>1, <2>2, <2>5 DEF Behind
    <3>2. \A i \in 1 .. Len(d) : d[i] = d[0 + i]
      OBVIOUS
    <3> QED
      BY <1>1, <1>2, <2>1, <2>5, <3>1, <3>2 DEF Progress, docs
  <2> QED
    BY <1>2, <2>2, <2>4, <2>5, <2>6 DEF AcceptInv, RuleTypes, StartQuiet, NotItself, Stored, docs
<1>4. CASE Reply("reasoner") /\ UNCHANGED derived
  BY <1>2, <1>4, IdleKeeps DEF Reply
<1> QED
  BY <1>3, <1>4 DEF Derive

LEMMA LabelAccepts == ASSUME AcceptInv, KbInv', StoreLabel PROVE AcceptInv'
<1> DEFINE e == request.event
           d == derived[e]
           k == Behind
           a == Head(left)
<1>1. /\ host = "labels" /\ request \in Requests /\ request.op = "classify" /\ e \in Events
      /\ events[e] = request.fields /\ sources[e] = request.message
  BY RequestFields DEF StoreLabel, AcceptInv, KbInv, RequestServed, Progress
<1>2. UNCHANGED <<events, sources, evidence, outcomes, derived>>
  BY DEF StoreLabel
<1>3. /\ d \in Seq(Derived) /\ left \in Seq(Derived) /\ left # <<>> /\ k \in Nat /\ k = Len(d) - Len(left)
      /\ \A i \in 1 .. Len(left) : left[i] = d[k + i]
      /\ \A i \in 1 .. k : labels[<<e, d[i].label>>] = d[i].says
  <2>1. d \in Seq(Derived)
    BY <1>1 DEF AcceptInv, RuleTypes
  <2> QED
    BY <1>1, <2>1 DEF AcceptInv, Progress, Behind
<1>4. DOMAIN labels = Events \X Labels /\ labels = [l \in Events \X Labels |-> labels[l]]
  BY DEF AcceptInv, KbInv, DocTypes
<1> HIDE DEF e, d, k
<1>5. /\ Len(left) \in Nat \ {0} /\ Len(d) = k + Len(left) /\ k + 1 \in 1 .. Len(d) /\ a = d[k + 1]
      /\ Tail(left) \in Seq(Derived) /\ Len(Tail(left)) = Len(left) - 1
      /\ \A i \in 1 .. Len(Tail(left)) : Tail(left)[i] = left[i + 1]
  <2>1. Len(left) \in Nat \ {0} /\ Len(d) \in Nat /\ a = left[1]
    BY <1>3
  <2>2. 1 \in 1 .. Len(left)
    BY <2>1
  <2>3. a = d[k + 1] /\ Len(d) = k + Len(left)
    BY <1>3, <2>1, <2>2
  <2>4. k + 1 \in 1 .. Len(d)
    BY <1>3, <2>1, <2>3
  <2>5. /\ Tail(left) \in Seq(Derived) /\ Len(Tail(left)) = Len(left) - 1
        /\ \A i \in 1 .. Len(Tail(left)) : Tail(left)[i] = left[i + 1]
    BY <1>3
  <2> QED
    BY <2>1, <2>3, <2>4, <2>5
<1>6. a.label \in Labels /\ a.says \in Contents
  BY <1>3, <1>5, DerivedFields
<1>7. CASE /\ Fits(labels, <<e, a.label>>, a.says) /\ labels' = Store(labels, <<e, a.label>>, a.says)
           /\ IF Tail(left) = <<>> THEN Reply("ok") ELSE Proceed("labels") /\ left' = Tail(left)
  <2> DEFINE l0 == <<e, a.label>>
  <2> HIDE DEF a
  <2>1. l0 \in Events \X Labels
    BY <1>1, <1>6 DEF e
  <2> HIDE DEF l0
  <2>2. /\ labels'[l0] = a.says /\ labels[l0] \in {None, a.says}
        /\ \A l \in Events \X Labels : labels[l] # None => labels'[l] = labels[l]
    BY <1>4, <1>7, <2>1 DEF Fits, Store, l0
  <2>3. DocsKept
    BY <1>2, <2>2 DEF DocsKept
  <2>4. \A r \in accepted : Fulfilled(r)'
    BY <2>3, FulfilledStays DEF AcceptInv, RuleTypes
  <2>5. \A i \in 1 .. k + 1 : labels'[<<e, d[i].label>>] = d[i].says
    <3>1. ASSUME NEW i \in 1 .. k PROVE labels'[<<e, d[i].label>>] = d[i].says
      <4>1. i \in 1 .. Len(d)
        BY <1>3, <1>5
      <4>2. d[i].label \in Labels /\ d[i].says # None
        BY <1>3, <4>1, DerivedFields
      <4>3. <<e, d[i].label>> \in Events \X Labels
        BY <1>1, <4>2 DEF e
      <4> QED
        BY <1>3, <2>2, <4>2, <4>3
    <3>2. labels'[<<e, d[k + 1].label>>] = d[k + 1].says
      BY <1>5, <2>2 DEF l0
    <3>3. \A i \in 1 .. k + 1 : i \in 1 .. k \/ i = k + 1
      BY <1>3
    <3> QED
      BY <3>1, <3>2, <3>3
  <2>6. CASE Tail(left) = <<>>
    <3>1. accepted' = accepted \cup {request} /\ host' = "idle"
      BY <1>7, <2>6 DEF Reply
    <3>2. Len(d) = k + 1 /\ d # <<>>
      <4>1. Len(<<>>) = 0 /\ Len(Tail(left)) = Len(<<>>)
        BY <2>6
      <4>2. Len(left) = 1
        <5>1. Len(left) - 1 = 0 /\ Len(left) \in Nat
          BY <1>5, <4>1
        <5> QED
          BY <5>1
      <4>3. Len(d) = k + 1 /\ k + 1 # 0
        BY <1>3, <1>5, <4>2
      <4> QED
        BY <4>3
    <3>3. \A r \in Requests : r = request => Fulfilled(r)'
      BY <1>1, <1>2, <2>5, <3>2 DEF Fulfilled, e, d
    <3> QED
      BY <1>1, <1>2, <2>4, <3>1, <3>3 DEF AcceptInv, RuleTypes, Progress, StartQuiet, NotItself, Stored
  <2>7. CASE Tail(left) # <<>>
    <3>1. host' = "labels" /\ request' = request /\ accepted' = accepted /\ left' = Tail(left)
      BY <1>7, <2>7 DEF Proceed
    <3>2. Behind' = k + 1 /\ k + 1 \in Nat
      <4>1. derived'[request'.event] = d
        BY <1>2, <3>1 DEF d, e
      <4> QED
        BY <1>3, <1>5, <3>1, <4>1 DEF Behind
    <3>3. \A i \in 1 .. Len(left') : left'[i] = d[(k + 1) + i]
      <4> SUFFICES ASSUME NEW i \in 1 .. Len(Tail(left)) PROVE Tail(left)[i] = d[(k + 1) + i]
        BY <3>1
      <4>1. i + 1 \in 1 .. Len(left) /\ k + (i + 1) = (k + 1) + i
        BY <1>3, <1>5
      <4>2. Tail(left)[i] = left[i + 1] /\ left[i + 1] = d[k + (i + 1)]
        BY <1>3, <1>5, <4>1
      <4> QED
        BY <4>1, <4>2
    <3>4. Progress'
      <4>1. derived'[request'.event] = d /\ request'.event = e
        BY <1>2, <3>1 DEF d, e
      <4>2. events'[e] = request'.fields /\ sources'[e] = request'.message
        BY <1>1, <1>2, <3>1
      <4> QED
        BY <1>5, <2>5, <2>7, <3>1, <3>2, <3>3, <4>1, <4>2 DEF Progress
    <3> QED
      BY <1>2, <2>4, <3>1, <3>4 DEF AcceptInv, RuleTypes, StartQuiet, NotItself, Stored
  <2> QED
    BY <2>6, <2>7
<1>8. CASE (Reply("refused") \/ Reply("reasoner")) /\ UNCHANGED labels
  <2>1. UNCHANGED <<docs, derived, accepted>> /\ host' = "idle"
    BY <1>2, <1>8 DEF Reply, docs
  <2> QED
    BY <2>1, IdleKeeps
<1> QED
  BY <1>7, <1>8 DEF StoreLabel, e

LEMMA OutcomeAccepts == ASSUME AcceptInv, KbInv', RecordOutcome PROVE AcceptInv'
<1> DEFINE o == <<request.scope, request.event>>
           q == request.supersedes
           doc == [evidence |-> request.evidence, supersedes |-> q]
<1>1. host = "outcome" /\ host' = "idle" /\ request \in Requests /\ request.op = "outcome"
  BY DEF RecordOutcome, AcceptInv, KbInv, RequestServed, Reply
<1>2. /\ o \in Outcomes /\ doc \in Outcome /\ doc.supersedes = q
      /\ outcomes \in [Outcomes -> Outcome \cup {None}]
  BY <1>1, RequestFields DEF Outcomes, Outcome, AcceptInv, KbInv, DocTypes
<1>3. UNCHANGED <<events, sources, labels, derived>>
  BY DEF RecordOutcome
<1>4. CASE /\ q = None \/ MaySupersede(o, q)
           /\ Fits(outcomes, o, doc) /\ outcomes' = Store(outcomes, o, doc) /\ Reply("ok")
  <2>0. o # None /\ (q = None \/ q # o) /\ outcomes[o] \in {None, doc} /\ outcomes' = [outcomes EXCEPT ![o] = doc]
        /\ accepted' = accepted \cup {request}
    <3>1. o # None
      BY <1>2 DEF Outcomes
    <3> QED
      BY <1>4, <3>1 DEF MaySupersede, Fits, Store, Reply
  <2> HIDE DEF o, q, doc
  <2>1. outcomes'[o] = doc /\ \A x \in Outcomes : outcomes[x] # None => outcomes'[x] = outcomes[x]
    BY <1>2, <2>0
  <2>2. DocsKept
    BY <1>3, <2>1 DEF DocsKept
  <2>3. \A r \in accepted : Fulfilled(r)'
    BY <2>2, FulfilledStays DEF AcceptInv, RuleTypes
  <2>4. \A r \in Requests : r = request => Fulfilled(r)'
    BY <1>1, <2>1 DEF Fulfilled, o, q, doc
  <2>5. NotItself'
    <3>1. \A x \in Stored(outcomes') : x = o \/ (x \in Stored(outcomes) /\ outcomes'[x] = outcomes[x])
      BY <1>2, <2>0 DEF Stored
    <3>2. outcomes'[o].supersedes # o
      BY <1>2, <2>0, <2>1
    <3> QED
      BY <3>1, <3>2 DEF NotItself, Stored, AcceptInv
  <2> QED
    BY <1>1, <1>3, <2>0, <2>3, <2>4, <2>5 DEF AcceptInv, RuleTypes, Progress, StartQuiet
<1>5. CASE UNCHANGED <<evidence, outcomes, accepted>>
  <2>1. UNCHANGED <<docs, derived, accepted>>
    BY <1>3, <1>5 DEF docs
  <2> QED
    BY <1>1, <2>1, IdleKeeps
<1> QED
  BY <1>4, <1>5 DEF RecordOutcome, Reply

LEMMA AcceptInvariant == Spec => []AcceptInv
<1>1. AcceptInv /\ KbInv' /\ [Next]_vars => AcceptInv'
  <2> SUFFICES ASSUME AcceptInv, KbInv', [Next]_vars PROVE AcceptInv'
    OBVIOUS
  <2> QED
    BY QuietAccepts, EventAccepts, SourceAccepts, DeriveAccepts, LabelAccepts, OutcomeAccepts DEF Next
<1> QED
  BY <1>1, AcceptInit, KbInvariant, PTL DEF Spec

\* AcceptedIsStored for any requests and rules: what was answered with ok is in the knowledge base as
\* it was asked, with all assertions of the rules, whatever came later.
THEOREM AcceptedStaysStored == Spec => []AcceptedIsStored
<1>1. ASSUME AcceptInv, NEW r \in accepted
      PROVE  CASE r.op = "observe"  -> events[r.event] = r.fields
               [] r.op = "classify" ->
                    /\ events[r.event] = r.fields /\ sources[r.event] = r.message
                    /\ \A i \in DOMAIN derived[r.event] : LET d == derived[r.event][i] IN
                         labels[<<r.event, d.label>>] = d.says
               [] r.op = "outcome"  ->
                    outcomes[<<r.scope, r.event>>] =
                      [evidence |-> r.evidence, supersedes |-> r.supersedes]
  <2>1. r \in Requests /\ Fulfilled(r) /\ r.op \in {"observe", "classify", "outcome"} /\ r.event \in Events
    BY <1>1, RequestFields DEF AcceptInv, RuleTypes
  <2>2. derived[r.event] \in Seq(Derived)
    BY <1>1, <2>1 DEF AcceptInv, RuleTypes
  <2>3. DOMAIN derived[r.event] = 1 .. Len(derived[r.event])
    BY <2>2
  <2>4. CASE r.op = "observe"
    BY <2>1, <2>4 DEF Fulfilled
  <2>5. CASE r.op = "classify"
    BY <2>1, <2>3, <2>5 DEF Fulfilled
  <2>6. CASE r.op = "outcome"
    BY <2>1, <2>6 DEF Fulfilled
  <2> QED
    BY <2>1, <2>4, <2>5, <2>6
<1>2. AcceptInv => AcceptedIsStored
  BY <1>1 DEF AcceptedIsStored
<1> QED
  BY <1>2, AcceptInvariant, PTL

\* A request that is stored as it was accepted is not refused when it is asked again: each of its
\* transactions finds what it would write.
LEMMA ReplayStep ==
  ASSUME AcceptInv, Next, request \in accepted, host' = "idle"
  PROVE  reply' # "refused"
<1> DEFINE e == request.event
<1>1. request \in Requests /\ Fulfilled(request) /\ e \in Events
  BY RequestFields DEF AcceptInv, RuleTypes
<1>2. CASE Start \/ Rebuild \/ Mark \/ Open \/ Crash \/ \E r \in Requests : Ask(r)
  BY <1>2 DEF AcceptInv, StartQuiet, Start, Rebuild, Mark, Open, Crash, Ask, NoRequest
<1>3. CASE ProjectEvent
  <2>1. request.op \in {"observe", "classify"}
    BY <1>1, <1>3, RequestFields DEF ProjectEvent, AcceptInv, KbInv, RequestServed
  <2>2. Fits(events, e, request.fields)
    BY <1>1, <2>1 DEF Fulfilled, Fits
  <2>3. IF request.op = "observe" THEN Reply("ok") ELSE Proceed("source")
    BY <1>3, <2>2 DEF ProjectEvent
  <2> QED
    BY <1>3, <2>3 DEF Reply, Proceed
<1>4. CASE ProjectSource
  <2>1. request.op = "classify"
    BY <1>4 DEF ProjectSource, AcceptInv, KbInv, RequestServed
  <2>2. Fits(sources, e, request.message)
    BY <1>1, <2>1 DEF Fulfilled, Fits
  <2>3. Proceed("rules")
    BY <1>4, <2>2 DEF ProjectSource
  <2> QED
    BY <2>3 DEF Proceed
<1>5. CASE Derive
  BY <1>5 DEF Derive, Reply, Proceed
<1>6. CASE StoreLabel
  <2> DEFINE d == derived[e]
             a == Head(left)
             k == Behind
  <2>1. request.op = "classify" /\ host = "labels"
    BY <1>6 DEF StoreLabel, AcceptInv, KbInv, RequestServed
  <2>2. /\ d \in Seq(Derived) /\ left \in Seq(Derived) /\ left # <<>> /\ k \in Nat /\ k = Len(d) - Len(left)
        /\ \A i \in 1 .. Len(left) : left[i] = d[k + i]
        /\ \A i \in 1 .. Len(d) : labels[<<e, d[i].label>>] = d[i].says
    BY <1>1, <2>1 DEF AcceptInv, RuleTypes, Progress, Behind, Fulfilled
  <2> HIDE DEF d, k
  <2>3. Len(left) \in Nat \ {0} /\ Len(d) \in Nat /\ a = left[1] /\ Len(d) = k + Len(left)
    BY <2>2
  <2>4. k + 1 \in 1 .. Len(d) /\ 1 \in 1 .. Len(left)
    BY <2>2, <2>3
  <2>5. labels[<<e, a.label>>] = a.says
    <3>1. a = d[k + 1]
      BY <2>2, <2>3, <2>4
    <3> HIDE DEF a
    <3> QED
      BY <2>2, <2>4, <3>1
  <2>6. Reply("ok") \/ Reply("reasoner") \/ Proceed("labels")
    BY <1>6, <2>5 DEF StoreLabel, Fits
  <2> QED
    BY <2>6 DEF Reply, Proceed
<1>7. CASE RecordOutcome
  <2> DEFINE o == <<request.scope, request.event>>
             p == request.evidence
             q == request.supersedes
             doc == [evidence |-> p, supersedes |-> q]
  <2>1. request.op = "outcome"
    BY <1>1, <1>7 DEF RecordOutcome, AcceptInv, KbInv, RequestServed
  <2>2. o \in Outcomes /\ doc \in Outcome /\ o[1] = request.scope /\ p \in Pieces
    BY <1>1, <2>1, RequestFields DEF Outcomes, Outcome
  <2>3. outcomes[o] = doc /\ doc.evidence = p /\ doc.supersedes = q
    BY <1>1, <2>1 DEF Fulfilled
  <2> HIDE DEF doc
  <2>4. o \in Stored(outcomes)
    BY <2>2, <2>3 DEF Stored, AcceptInv, KbInv, DocTypes
  <2> HIDE DEF o
  <2>5. \A v \in DOMAIN p : Fits(evidence, v, p[v])
    BY <2>3, <2>4 DEF AcceptInv, KbInv, Grounded, Fits
  <2>6. q = None \/ MaySupersede(o, q)
    <3> SUFFICES ASSUME q # None PROVE MaySupersede(o, q)
      OBVIOUS
    <3>1. q \in Stored(outcomes) /\ q[1] = o[1]
      BY <2>3, <2>4 DEF AcceptInv, KbInv, Grounded
    <3>2. q # o
      BY <2>3, <2>4 DEF AcceptInv, NotItself
    <3>3. Successors(q) \subseteq {o}
      BY <2>3, <2>4 DEF AcceptInv, KbInv, OneSuccessor, Successors
    <3> QED
      BY <3>1, <3>2, <3>3 DEF MaySupersede
  <2>7. Fits(outcomes, o, doc)
    BY <2>3 DEF Fits
  <2>8. Reply("ok") \/ Reply("reasoner")
    BY <1>7, <2>5, <2>6, <2>7 DEF RecordOutcome, o, doc
  <2> QED
    BY <2>8 DEF Reply
<1> QED
  BY <1>2, <1>3, <1>4, <1>5, <1>6, <1>7 DEF Next

\* AnswersHold, for any requests and interruptions: no document is written without a new revision,
\* and what was accepted once is not refused when it is asked again.
THEOREM AnswersAreReliable == Spec => AnswersHold
<1>1. ASSUME AcceptInv, [Next]_vars
      PROVE  [(request \in accepted /\ request' = None /\ host' = "idle") => reply' # "refused"]_vars
  BY <1>1, ReplayStep
<1>2. Spec => ReplayAccepted
  BY <1>1, AcceptInvariant, PTL DEF Spec, ReplayAccepted
<1> QED
  BY <1>2, RevisionsTell DEF AnswersHold


-----------------------------------------------------------------------------
(* The history of a scope.                                                 *)

\* The rest of TypeOK.
HostType ==
  /\ host \in {"down", "rebuild", "mark", "open", "idle", "event", "source", "rules",
               "labels", "outcome"}
  /\ request \in Requests \cup {None}
  /\ left \in Seq(Derived)
  /\ reply \in {"none", "ok", "refused", "reasoner"}
  /\ labels \in [Events \X Labels -> Contents \cup {None}]
  /\ asked \in Nat /\ index \subseteq Outcomes /\ marker \in BOOLEAN

LEMMA HostTypeStep == ASSUME AcceptInv, HostType, [Next]_vars PROVE HostType'
<1> USE DEF HostType
<1>1. outcomes \in [Outcomes -> Outcome \cup {None}] /\ Stored(outcomes) \subseteq Outcomes
  BY DEF AcceptInv, KbInv, DocTypes, Stored
<1>2. \A how \in {"ok", "refused", "reasoner"} :
        Reply(how) => /\ host' = "idle" /\ request' = None /\ left' = <<>> /\ reply' = how
                      /\ left' \in Seq(Derived)
  BY DEF Reply
<1>3. CASE Start \/ Mark \/ Open
  BY <1>3 DEF Start, Mark, Open, NoRequest, docs
<1>4. CASE Rebuild
  BY <1>1, <1>4 DEF Rebuild, NoRequest, docs
<1>5. CASE Crash
  BY <1>1, <1>5 DEF Crash, docs
<1>6. ASSUME NEW r \in Requests, Ask(r) PROVE HostType'
  BY <1>6 DEF Ask, docs
<1>7. CASE ProjectEvent
  BY <1>2, <1>7 DEF ProjectEvent, Proceed
<1>8. CASE ProjectSource
  BY <1>2, <1>8 DEF ProjectSource, Proceed
<1>9. CASE Derive
  <2>1. \A d \in Classifications : d \in Seq(Derived)
    BY DEF Classifications
  <2> QED
    BY <1>2, <1>9, <2>1 DEF Derive, Proceed, docs
<1>10. CASE StoreLabel
  <2> DEFINE l == <<request.event, Head(left).label>>
  <2>1. l \in Events \X Labels /\ Head(left).says \in Contents /\ Tail(left) \in Seq(Derived)
    <3>1. request.event \in Events /\ left # <<>>
      BY <1>10, RequestFields DEF StoreLabel, AcceptInv, KbInv, RequestServed, Progress
    <3>2. Head(left) \in Derived /\ Tail(left) \in Seq(Derived)
      BY <3>1
    <3> QED
      BY <3>1, <3>2 DEF Derived
  <2>2. labels' = Store(labels, l, Head(left).says) \/ labels' = labels
    BY <1>10 DEF StoreLabel
  <2>3. labels' \in [Events \X Labels -> Contents \cup {None}]
    BY <2>1, <2>2 DEF Store
  <2>4. /\ host' \in {"idle", "labels"} /\ request' \in {request, None}
        /\ left' \in Seq(Derived) /\ reply' \in {"ok", "refused", "reasoner", reply}
        /\ UNCHANGED <<asked, index, marker>>
    BY <1>2, <1>10, <2>1 DEF StoreLabel, Proceed
  <2> QED
    BY <2>3, <2>4
<1>11. CASE RecordOutcome
  <2>1. <<request.scope, request.event>> \in Outcomes
    BY <1>11, RequestFields DEF RecordOutcome, AcceptInv, KbInv, RequestServed, Outcomes
  <2> QED
    BY <1>2, <1>11, <2>1 DEF RecordOutcome
<1>12. CASE UNCHANGED vars
  BY <1>12 DEF vars, control, docs
<1> QED
  BY <1>3, <1>4, <1>5, <1>6, <1>7, <1>8, <1>9, <1>10, <1>11, <1>12 DEF Next

\* A number for every outcome of how many it replaces, one after the other: there is one because
\* an outcome is superseded only once it is stored, and then never changes.
Counts(f) ==
  /\ f \in [Outcomes -> Nat]
  /\ \A o \in Stored(outcomes) :
       f[o] = IF outcomes[o].supersedes = None THEN 0 ELSE 1 + f[outcomes[o].supersedes]
Counted == \E f : Counts(f)

LEMMA CountedInit == Init => Counted
<1> SUFFICES ASSUME Init PROVE Counted
  OBVIOUS
<1> DEFINE f == [o \in Outcomes |-> 0]
<1>1. \A o \in Stored(outcomes) : o \in Outcomes /\ outcomes[o].supersedes = None
  <2>1. CASE outcomes = [o \in Outcomes |-> None]
    BY <2>1 DEF Stored
  <2>2. ASSUME NEW o \in Outcomes, NEW p \in Pieces,
               outcomes = [q \in Outcomes |-> IF q = o THEN [evidence |-> p, supersedes |-> None] ELSE None]
        PROVE  \A q \in Stored(outcomes) : q \in Outcomes /\ outcomes[q].supersedes = None
    BY <2>2 DEF Stored
  <2> QED
    BY <2>1, <2>2 DEF Init
<1>2. Counts(f)
  BY <1>1 DEF Counts
<1> QED
  BY <1>2 DEF Counted

LEMMA CountedStep == ASSUME AcceptInv, Counted, [Next]_vars PROVE Counted'
<1>1. outcomes \in [Outcomes -> Outcome \cup {None}] /\ Grounded /\ NotItself
  BY DEF AcceptInv, KbInv, DocTypes
<1>2. CASE outcomes' = outcomes
  BY <1>2 DEF Counted, Counts, Stored
<1>3. ASSUME RecordOutcome, outcomes' # outcomes PROVE Counted'
  <2> DEFINE o == <<request.scope, request.event>>
             q == request.supersedes
             doc == [evidence |-> request.evidence, supersedes |-> q]
  <2>1. /\ o \in Outcomes /\ doc \in Outcome /\ doc.supersedes = q /\ q \in Outcomes \cup {None}
    <3>1. request \in Requests /\ request.op = "outcome"
      BY <1>3 DEF RecordOutcome, AcceptInv, KbInv, RequestServed
    <3> QED
      BY <3>1, RequestFields DEF Outcomes, Outcome
  <2>2. /\ outcomes' = Store(outcomes, o, doc) /\ Fits(outcomes, o, doc)
        /\ q # None => q # o /\ q \in Stored(outcomes)
    BY <1>3 DEF RecordOutcome, MaySupersede
  <2> HIDE DEF o, q, doc
  <2>3. outcomes[o] = None
    <3>1. outcomes[o] = doc => outcomes' = outcomes
      BY <1>1, <2>1, <2>2 DEF Store
    <3> QED
      BY <1>3, <2>2, <3>1 DEF Fits
  <2>4. /\ \A x \in Stored(outcomes) : x \in Outcomes /\ x # o /\ outcomes'[x] = outcomes[x]
        /\ \A x \in Stored(outcomes)' : x = o \/ x \in Stored(outcomes)
        /\ outcomes'[o] = doc
    BY <1>1, <2>1, <2>2, <2>3 DEF Store, Stored
  <2>5. \A x \in Stored(outcomes) :
          outcomes[x].supersedes # None => outcomes[x].supersedes \in Stored(outcomes)
    BY <1>1 DEF Grounded
  <2>6. PICK f : Counts(f)
    BY DEF Counted
  <2> DEFINE n == IF q = None THEN 0 ELSE 1 + f[q]
  <2>0. PICK g : g = [f EXCEPT ![o] = n]
    OBVIOUS
  <2>7. f \in [Outcomes -> Nat] /\ n \in Nat
    BY <2>1, <2>6 DEF Counts
  <2>8. g \in [Outcomes -> Nat] /\ g[o] = n /\ \A x \in Stored(outcomes) : g[x] = f[x]
    BY <2>0, <2>1, <2>4, <2>7
  <2>9. n = IF q = None THEN 0 ELSE 1 + g[q]
    BY <2>2, <2>8
  <2> HIDE DEF n
  <2>10. ASSUME NEW x \in Stored(outcomes)
         PROVE  g[x] = IF outcomes'[x].supersedes = None THEN 0 ELSE 1 + g[outcomes'[x].supersedes]
    <3>1. f[x] = IF outcomes[x].supersedes = None THEN 0 ELSE 1 + f[outcomes[x].supersedes]
      BY <2>6 DEF Counts
    <3>2. outcomes[x].supersedes # None => g[outcomes[x].supersedes] = f[outcomes[x].supersedes]
      BY <2>5, <2>8
    <3> QED
      BY <2>4, <2>8, <3>1, <3>2
  <2>11. g[o] = IF outcomes'[o].supersedes = None THEN 0 ELSE 1 + g[outcomes'[o].supersedes]
    BY <2>1, <2>4, <2>8, <2>9
  <2>12. ASSUME NEW x \in Stored(outcomes)'
         PROVE  g[x] = IF outcomes'[x].supersedes = None THEN 0 ELSE 1 + g[outcomes'[x].supersedes]
    BY <2>4, <2>10, <2>11, <2>12
  <2>13. Counts(g)'
    BY <2>8, <2>12 DEF Counts
  <2> QED
    BY <2>13 DEF Counted
<1>4. CASE outcomes' # outcomes
  <2>1. RecordOutcome
    BY <1>4 DEF Next, Start, Rebuild, Mark, Open, Crash, Ask, ProjectEvent, ProjectSource, Derive,
                StoreLabel, vars, docs
  <2> QED
    BY <1>3, <1>4, <2>1
<1> QED
  BY <1>2, <1>4

\* The depth of the assertions of a scope is this number.
LEMMA DepthCounts ==
  ASSUME Grounded, NEW s, NEW f, Counts(f), Stored(outcomes) \subseteq Outcomes
  PROVE  LET K == {o \in Stored(outcomes) : o[1] = s} IN
           \A o \in K : Depth(K)[o] = f[o]
<1> DEFINE K == {o \in Stored(outcomes) : o[1] = s}
           Next_(d, o) == LET q == outcomes[o].supersedes IN
                            IF q = None THEN 0 ELSE IF q \in K THEN 1 + d[q] ELSE 1
           Solves(d) == d = [o \in K |-> Next_(d, o)]
<1>1. \A o \in K : outcomes[o].supersedes # None => outcomes[o].supersedes \in K
  BY DEF Grounded
<1>2. \A o \in K : f[o] \in Nat
                   /\ f[o] = IF outcomes[o].supersedes = None THEN 0 ELSE 1 + f[outcomes[o].supersedes]
  BY DEF Counts
<1>3. Depth(K) = CHOOSE d : Solves(d)
  BY DEF Depth
<1> HIDE DEF K
<1>4. \E d : Solves(d)
  <2> DEFINE d == [o \in K |-> f[o]]
  <2>1. ASSUME NEW o \in K PROVE f[o] = Next_(d, o)
    BY <1>1, <1>2
  <2>2. Solves(d)
    BY <2>1
  <2> QED
    BY <2>2
<1>5. Solves(Depth(K))
  <2> HIDE DEF Solves
  <2> QED
    BY <1>3, <1>4
<1>6. \A o \in K : Depth(K)[o] = Next_(Depth(K), o)
  BY <1>5
<1> DEFINE T == {f[o] : o \in {x \in K : Depth(K)[x] # f[x]}}
           R == OpToRel(<, Nat)
<1>7. ASSUME T # {} PROVE FALSE
  <2>1. T \subseteq Nat
    BY <1>2
  <2>2. \E n \in T : \A m \in T : ~(<<m, n>> \in R)
    <3>1. IsWellFoundedOn(R, Nat)
      BY NatLessThanWellFounded
    <3> HIDE DEF R, T
    <3> QED
      BY <1>7, <2>1, <3>1, WFMin
  <2>3. PICK n \in T : \A m \in T : ~(<<m, n>> \in R)
    BY <2>2
  <2>4. PICK o \in K : f[o] = n /\ Depth(K)[o] # f[o]
    OBVIOUS
  <2> DEFINE q == outcomes[o].supersedes
  <2>5. q # None
    BY <1>2, <1>6, <2>4
  <2>6. q \in K /\ f[o] = 1 + f[q] /\ f[q] \in Nat /\ f[o] \in Nat
    BY <1>1, <1>2, <2>4, <2>5
  <2>7. <<f[q], n>> \in R
    BY <2>4, <2>6 DEF OpToRel
  <2>8. Depth(K)[q] = f[q]
    BY <2>3, <2>6, <2>7
  <2> HIDE DEF R
  <2>9. Depth(K)[o] = 1 + f[q]
    BY <1>6, <2>4, <2>5, <2>6, <2>8
  <2> QED
    BY <2>4, <2>6, <2>9
<1> QED
  BY <1>7 DEF K

\* ChainsSafe for any requests and interruptions: the state keeps its types, supersession does not
\* fork, and the recursive depth by which a history is sorted grows with every replacement.
THEOREM HistoriesFollowChains == Spec => []ChainsSafe
<1>1. Init => HostType
  <2> SUFFICES ASSUME Init PROVE HostType
    OBVIOUS
  <2>1. labels \in [Events \X Labels -> Contents \cup {None}]
    BY DEF Init
  <2>2. left \in Seq(Derived) /\ asked \in Nat /\ index \subseteq Outcomes
    BY DEF Init
  <2> QED
    BY <2>1, <2>2 DEF Init, HostType
<1>2. AcceptInv /\ Counted => HistoryFollowsChains
  <2> SUFFICES ASSUME AcceptInv, Counted, NEW s \in Scopes
               PROVE  LET K == {o \in Stored(outcomes) : o[1] = s} IN
                        \A o, q \in K : outcomes[o].supersedes = q => Depth(K)[q] < Depth(K)[o]
    BY DEF HistoryFollowsChains
  <2> DEFINE K == {o \in Stored(outcomes) : o[1] = s}
  <2>1. Grounded /\ Stored(outcomes) \subseteq Outcomes /\ None \notin Stored(outcomes)
    BY DEF AcceptInv, KbInv, DocTypes, Stored, Outcomes
  <2>2. PICK f : Counts(f)
    BY DEF Counted
  <2>3. \A o \in K : Depth(K)[o] = f[o]
    BY <2>1, <2>2, DepthCounts
  <2>4. \A o, q \in K : outcomes[o].supersedes = q => f[o] = 1 + f[q] /\ f[q] \in Nat /\ f[o] \in Nat
    BY <2>1, <2>2 DEF Counts
  <2>5. \A o, q \in K : outcomes[o].supersedes = q => f[q] < f[o]
    BY <2>4
  <2> QED
    BY <2>3, <2>5
<1>3. AcceptInv /\ HostType => TypeOK
  BY DEF AcceptInv, KbInv, DocTypes, RuleTypes, HostType, TypeOK
<1>4. AcceptInv /\ HostType /\ Counted /\ [Next]_vars => HostType' /\ Counted'
  BY HostTypeStep, CountedStep
<1> QED
  BY <1>1, <1>2, <1>3, <1>4, CountedInit, AcceptInvariant, ChainsDoNotFork, PTL DEF Spec, ChainsSafe
=============================================================================
