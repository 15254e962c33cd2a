---------------------------- MODULE HttpExchange ----------------------------
(***************************************************************************)
(* The HTTP handler of build_app in llm_log/proxy.py together with the     *)
(* FallbackPolicy of llm_log/routing.py.  An exchange is sent to its own   *)
(* provider, or to the fallback provider when a circuit is open or when    *)
(* the provider reports a typed exhaustion; the answer is streamed to the  *)
(* client and captured, then one event is recorded.  Exchanges run         *)
(* concurrently on one event loop and share the circuits.                  *)
(*                                                                         *)
(* Bodies are sequences of chunks; a chunk is named by the attempt that    *)
(* delivered it, 0 being the error text that the proxy makes itself.       *)
(***************************************************************************)
EXTENDS Naturals, Sequences, FiniteSets, SequencesExt

CONSTANTS
  Exchanges,    \* requests of clients
  Keys,         \* circuits: account scope, provider and model
  Faults,       \* what may go wrong, see FaultKinds
  MaxCircuits,  \* max_circuits
  Cooldown,     \* cooldown_seconds
  BufferLimit,  \* chunks of an error body that are inspected (65536 bytes)
  MaxChunks,    \* bound on the chunks of a body
  MaxTime       \* bound on the clock

FaultKinds == {"transport",  \* a connection fails or exceeds the total timeout
               "budget",     \* no credential, or the budget hook denies or raises
               "record",     \* the recorder raises
               "shutdown"}   \* the handler is cancelled when the server stops

ASSUME HttpExchangeAssumption ==
  /\ Faults \subseteq FaultKinds
  /\ MaxCircuits \in Nat \ {0}
  /\ Cooldown \in Nat /\ BufferLimit \in Nat /\ MaxChunks \in Nat /\ MaxTime \in Nat

VARIABLES
  pc,         \* new, contact (no response headers yet), buffer, stream, record, done
  key,        \* the circuit of the exchange
  mapped,     \* fallback is not None
  route,      \* using_fallback: "direct" or "fallback"
  status,     \* response_status
  headers,    \* the attempt whose headers response_headers holds; 0: none
  body,       \* response_body
  committed,  \* downstream is prepared
  sent,       \* chunks given to the client
  attempts,   \* attempt records
  corpus,     \* events that record() has acknowledged, per exchange
  circuits,   \* _circuits: expiry per key
  now,        \* time.monotonic()
  contacts,   \* history: the requests sent to providers, per exchange
  budget,     \* history: why the budget was asked and what it said, per exchange
  exhausted   \* history: when each key was last marked exhausted, shifted by the cooldown

local == <<key, mapped, route, status, headers, body, committed, sent, attempts>>
vars  == <<pc, local, corpus, circuits, now, contacts, budget, exhausted>>

Routes   == {"direct", "fallback"}
Statuses == {"ok", "error", "limit", "none"}   \* limit: 402 or 429; none: 502 of the proxy
Attempt  == [provider : Routes, class : {"success", "upstream_error", "exhaustion",
              "transport_failure", "midstream_failure"}, committed : BOOLEAN, meta : 0 .. 2]
Chunks   == Seq(0 .. 2)

TypeOK ==
  /\ pc \in [Exchanges -> {"new", "contact", "buffer", "stream", "record", "done"}]
  /\ key \in [Exchanges -> Keys]
  /\ mapped \in [Exchanges -> BOOLEAN] /\ committed \in [Exchanges -> BOOLEAN]
  /\ route \in [Exchanges -> Routes]
  /\ status \in [Exchanges -> Statuses]
  /\ headers \in [Exchanges -> 0 .. 2]
  /\ body \in [Exchanges -> Chunks] /\ sent \in [Exchanges -> Chunks]
  /\ attempts \in [Exchanges -> Seq(Attempt)]
  /\ corpus \in [Exchanges -> Seq([attempts : Seq(Attempt), body : Chunks, final : Routes])]
  /\ DOMAIN circuits \subseteq Keys /\ \A k \in DOMAIN circuits : circuits[k] \in Nat
  /\ now \in 0 .. MaxTime
  /\ contacts \in [Exchanges -> Seq(Routes)]
  /\ budget \in [Exchanges -> Seq([why : {"circuit", "exhausted"}, granted : BOOLEAN])]
  /\ exhausted \in [Keys -> Nat]

Init ==
  /\ pc = [x \in Exchanges |-> "new"]
  /\ key \in [Exchanges -> Keys]
  /\ mapped \in [Exchanges -> BOOLEAN]   \* what fallback_policy.request makes of the body
  /\ route = [x \in Exchanges |-> "direct"]
  /\ status = [x \in Exchanges |-> "none"]
  /\ headers = [x \in Exchanges |-> 0]
  /\ body = [x \in Exchanges |-> <<>>] /\ sent = [x \in Exchanges |-> <<>>]
  /\ committed = [x \in Exchanges |-> FALSE]
  /\ attempts = [x \in Exchanges |-> <<>>]
  /\ corpus = [x \in Exchanges |-> <<>>]
  /\ \E K \in SUBSET Keys :   \* of exchanges that were over before
       IsFiniteSet(K) /\ Cardinality(K) <= MaxCircuits /\ circuits \in [K -> 1 .. Cooldown]
  /\ now = 0
  /\ contacts = [x \in Exchanges |-> <<>>]
  /\ budget = [x \in Exchanges |-> <<>>]
  /\ exhausted = [k \in Keys |-> IF k \in DOMAIN circuits THEN circuits[k] ELSE 0]

-----------------------------------------------------------------------------
(* FallbackPolicy.                                                         *)

Open(k)   == k \in DOMAIN circuits /\ circuits[k] > now
Without(f, S) == [k \in DOMAIN f \ S |-> f[k]]

\* circuit_open drops the circuit it finds expired.
CircuitOpen(k) == circuits' = IF Open(k) THEN circuits ELSE Without(circuits, {k})

Unexpired == Without(circuits, {k \in DOMAIN circuits : circuits[k] <= now})

\* Mutants of MarkExhausted: the circuit that expires last is evicted; none is.
MarkEvictingLast(k) ==
  \E victims \in {{}} \cup {{v} : v \in DOMAIN Unexpired} :
    /\ IF k \notin DOMAIN Unexpired /\ Cardinality(DOMAIN Unexpired) >= MaxCircuits
         THEN \E v \in victims : \A w \in DOMAIN Unexpired : Unexpired[v] >= Unexpired[w]
         ELSE victims = {}
    /\ circuits' = [j \in (DOMAIN Unexpired \ victims) \cup {k} |->
                      IF j = k THEN now + Cooldown ELSE Unexpired[j]]
MarkUnbounded(k) ==
  circuits' = [j \in DOMAIN Unexpired \cup {k} |->
                 IF j = k THEN now + Cooldown ELSE Unexpired[j]]

\* mark_exhausted: drop what has expired; a new key evicts, when the table is full, a
\* circuit that expires first.
MarkExhausted(k) ==
  \E victims \in {{}} \cup {{v} : v \in DOMAIN Unexpired} :
    /\ IF k \notin DOMAIN Unexpired /\ Cardinality(DOMAIN Unexpired) >= MaxCircuits
         THEN \E v \in victims : \A w \in DOMAIN Unexpired : Unexpired[v] <= Unexpired[w]
         ELSE victims = {}
    /\ circuits' = [j \in (DOMAIN Unexpired \ victims) \cup {k} |->
                      IF j = k THEN now + Cooldown ELSE Unexpired[j]]

\* Mutant of Granted: request() is called with check_budget=False.
GrantedUnasked(x, why, yes) == yes /\ UNCHANGED budget

\* request() with check_budget: credential and budget hook decide; denied is None.
Granted(x, why, yes) ==
  /\ yes \/ "budget" \in Faults
  /\ budget' = [budget EXCEPT ![x] = Append(@, [why |-> why, granted |-> yes])]

-----------------------------------------------------------------------------
(* The handler, from one suspension to the next.                           *)

\* session.request() is entered.
Contact(x, r) ==
  /\ route' = [route EXCEPT ![x] = r]
  /\ contacts' = [contacts EXCEPT ![x] = Append(@, r)]
  /\ pc' = [pc EXCEPT ![x] = "contact"]

\* The body has been read: consult the circuit of a mapped request, send it on.
Begin(x) ==
  /\ pc[x] = "new"
  /\ IF ~mapped[x]
       THEN Contact(x, "direct") /\ UNCHANGED <<circuits, mapped, budget>>
       ELSE /\ CircuitOpen(key[x])
            /\ IF Open(key[x])
                 THEN \E yes \in BOOLEAN :
                        /\ Granted(x, "circuit", yes)
                        /\ mapped' = [mapped EXCEPT ![x] = yes]
                        /\ Contact(x, IF yes THEN "fallback" ELSE "direct")
                 ELSE Contact(x, "direct") /\ UNCHANGED <<mapped, budget>>
  /\ UNCHANGED <<key, status, headers, body, committed, sent, attempts, corpus, now,
                 exhausted>>

\* Mutant of Inspects: the answer of the fallback provider may start another fallback.
InspectsAlways(x, s) == s = "limit" /\ mapped[x]

\* Only a 402 or 429 of the provider itself is inspected, when there is a fallback.
Inspects(x, s) == s = "limit" /\ route[x] = "direct" /\ mapped[x]

\* The response headers arrive; unless the body is inspected first, prepare() commits.
Headers(x) ==
  /\ pc[x] = "contact"
  /\ headers' = [headers EXCEPT ![x] = Len(contacts[x])]
  /\ \E s \in Statuses \ {"none"} :
       /\ status' = [status EXCEPT ![x] = s]
       /\ IF Inspects(x, s)
            THEN pc' = [pc EXCEPT ![x] = "buffer"] /\ UNCHANGED committed
            ELSE pc' = [pc EXCEPT ![x] = "stream"]
                 /\ committed' = [committed EXCEPT ![x] = TRUE]
  /\ UNCHANGED <<key, mapped, route, body, sent, attempts, corpus, circuits, now,
                 contacts, budget, exhausted>>

Receive(x) == /\ Len(body[x]) < MaxChunks
              /\ body' = [body EXCEPT ![x] = Append(@, Len(contacts[x]))]

\* One read of the error body, at most one chunk more than will be inspected.
Buffer(x) ==
  /\ pc[x] = "buffer" /\ Len(body[x]) <= BufferLimit
  /\ Receive(x)
  /\ UNCHANGED <<pc, key, mapped, route, status, headers, committed, sent, attempts,
                 corpus, circuits, now, contacts, budget, exhausted>>

Record(x, class, isCommitted) ==
  [provider |-> route[x], class |-> class, committed |-> isCommitted, meta |-> headers[x]]

\* Mutants: the abandoned attempt leaves no record; what was captured of it is kept.
AbandonSilently(x)  == UNCHANGED attempts
DiscardNothing(x) == UNCHANGED body

Abandon(x) == attempts' = [attempts EXCEPT ![x] = Append(@, Record(x, "exhaustion", FALSE))]
Discard(x) == body' = [body EXCEPT ![x] = <<>>]

Retry(x) ==
  /\ Abandon(x)
  /\ MarkExhausted(key[x])
  /\ exhausted' = [exhausted EXCEPT ![key[x]] = now + Cooldown]
  /\ Discard(x)
  /\ Contact(x, "fallback")
  /\ UNCHANGED <<mapped, committed, sent>>

\* prepare() and the buffered part of the body: the client gets the original answer.
Forward(x) ==
  /\ committed' = [committed EXCEPT ![x] = TRUE]
  /\ sent' = [sent EXCEPT ![x] = body[x]]
  /\ pc' = [pc EXCEPT ![x] = "stream"]
  /\ UNCHANGED <<route, body, attempts, circuits, contacts, exhausted>>

\* The error body is complete, or too long to be inspected.
Decide(x) ==
  /\ pc[x] = "buffer"
  /\ \/ UNCHANGED <<mapped, budget>> /\ Forward(x)    \* no typed exhaustion
     \/ /\ Len(body[x]) <= BufferLimit
        /\ \E yes \in BOOLEAN :
             /\ Granted(x, "exhausted", yes)
             /\ IF yes THEN Retry(x)
                       ELSE Forward(x) /\ mapped' = [mapped EXCEPT ![x] = FALSE]
  /\ UNCHANGED <<key, status, headers, corpus, now>>

\* A chunk is captured, then written to the client.
Stream(x) ==
  /\ pc[x] = "stream"
  /\ Receive(x)
  /\ sent' = [sent EXCEPT ![x] = Append(@, Len(contacts[x]))]
  /\ UNCHANGED <<pc, key, mapped, route, status, headers, committed, attempts, corpus,
                 circuits, now, contacts, budget, exhausted>>

Finish(x) ==
  /\ pc[x] = "stream"
  /\ LET class == IF status[x] = "ok" THEN "success" ELSE "upstream_error" IN
       attempts' = [attempts EXCEPT ![x] = Append(@, Record(x, class, TRUE))]
  /\ pc' = [pc EXCEPT ![x] = "record"]
  /\ UNCHANGED <<key, mapped, route, status, headers, body, committed, sent, corpus,
                 circuits, now, contacts, budget, exhausted>>

\* Mutant of Fail: a failed connection is retried with the fallback provider.
FailReplays(x) ==
  /\ "transport" \in Faults
  /\ pc[x] \in {"contact", "stream"} /\ route[x] = "direct"
  /\ Contact(x, "fallback")
  /\ UNCHANGED <<key, mapped, status, headers, body, committed, sent, attempts, corpus,
                 circuits, now, budget, exhausted>>

\* An exception of either connection; the chunk being written may be captured already.
\* Before the commit the client gets an answer of the proxy itself.
Fail(x) ==
  /\ "transport" \in Faults
  /\ pc[x] \in {"contact", "buffer", "stream"}
  /\ LET class == IF committed[x] THEN "midstream_failure" ELSE "transport_failure" IN
       attempts' = [attempts EXCEPT ![x] = Append(@, Record(x, class, committed[x]))]
  /\ IF committed[x]
       THEN (Receive(x) \/ UNCHANGED body) /\ UNCHANGED <<status, headers>>
       ELSE /\ body' = [body EXCEPT ![x] = <<0>>]
            /\ status' = [status EXCEPT ![x] = "none"]
            /\ headers' = [headers EXCEPT ![x] = 0]
  /\ pc' = [pc EXCEPT ![x] = "record"]
  /\ UNCHANGED <<key, mapped, route, committed, sent, corpus, circuits, now, contacts,
                 budget, exhausted>>

\* record() returns and the response is handed over, or it raises and the client gets
\* what was committed or a 500.
Capture(x) ==
  /\ pc[x] = "record"
  /\ pc' = [pc EXCEPT ![x] = "done"]
  /\ \/ /\ corpus' = [corpus EXCEPT ![x] = Append(@,
             [attempts |-> attempts[x], body |-> body[x], final |-> route[x]])]
        /\ sent' = [sent EXCEPT ![x] = IF committed[x] THEN @ ELSE body[x]]
     \/ "record" \in Faults /\ UNCHANGED <<corpus, sent>>
  /\ UNCHANGED <<key, mapped, route, status, headers, body, committed, attempts, circuits,
                 now, contacts, budget, exhausted>>

\* CancelledError is not an Exception: no event is recorded.
Cancel(x) ==
  /\ "shutdown" \in Faults
  /\ pc[x] \notin {"new", "done"}
  /\ pc' = [pc EXCEPT ![x] = "done"]
  /\ UNCHANGED <<local, corpus, circuits, now, contacts, budget, exhausted>>

Tick ==
  /\ now < MaxTime
  /\ now' = now + 1
  /\ UNCHANGED <<pc, local, corpus, circuits, contacts, budget, exhausted>>

Next ==
  \/ \E x \in Exchanges : \/ Begin(x) \/ Headers(x) \/ Buffer(x) \/ Decide(x) \/ Stream(x)
                          \/ Finish(x) \/ Fail(x) \/ Capture(x) \/ Cancel(x)
  \/ Tick

Spec == Init /\ [][Next]_vars

-----------------------------------------------------------------------------
(* Properties.                                                             *)

\* No request is replayed after the downstream commit, and the bytes of an answer that
\* was abandoned never reach the client: all it gets is of the last attempt.
OneAnswer ==
  [][\A x \in Exchanges :
       /\ committed[x] => contacts'[x] = contacts[x]
       /\ \A i \in DOMAIN sent'[x] : sent'[x][i] \in {0, Len(contacts'[x])}]_<<contacts, sent>>

\* The event is what happened: one attempt per request sent, in order; the first of two
\* is an uncommitted exhaustion; the final provider is the one asked last.
AttemptsMatchContacts ==
  \A x \in Exchanges : \A i \in DOMAIN corpus[x] : LET e == corpus[x][i] IN
    /\ [j \in DOMAIN e.attempts |-> e.attempts[j].provider] = contacts[x]
    /\ e.final = contacts[x][Len(contacts[x])]
    /\ Len(e.attempts) \in {1, 2}
    /\ Len(e.attempts) = 2 => e.attempts[1].class = "exhaustion" /\ ~e.attempts[1].committed

\* The recorded body is what the client received; when the answer broke off it holds at
\* most one chunk more, the one whose write failed.
CaptureFidelity ==
  \A x \in Exchanges : \A i \in DOMAIN corpus[x] :
    LET e    == corpus[x][i]
        last == e.attempts[Len(e.attempts)]
    IN IF last.class = "midstream_failure"
         THEN IsPrefix(sent[x], e.body) /\ Len(e.body) <= Len(sent[x]) + 1
         ELSE e.body = sent[x]

\* The fallback provider is asked after the budget hook has agreed, at most once per
\* exchange, and only when the client's own provider has reported an exhaustion: to this
\* exchange, or before to one of the same account, provider and model.
FallbackAuthorised ==
  \A x \in Exchanges :
    /\ Len(budget[x]) <= 1
    /\ "fallback" \in ToSet(contacts[x]) =>
         /\ budget[x] # <<>> /\ budget[x][1].granted
         /\ \/ contacts[x] = <<"fallback">> /\ exhausted[key[x]] > 0
            \/ contacts[x] = <<"direct", "fallback">> /\ attempts[x][1].class = "exhaustion"

\* At most MaxCircuits circuits are kept, and each is younger than its last exhaustion.
CircuitsBounded ==
  /\ Cardinality(DOMAIN circuits) <= MaxCircuits
  /\ \A k \in DOMAIN circuits : circuits[k] = exhausted[k]

\* A circuit that is open is forgotten early only to make room in a table full of open
\* circuits, and then one that expires first.
EvictsOnlyForRoom ==
  [][\A k \in DOMAIN circuits \ DOMAIN circuits' :
       Open(k) => /\ Cardinality({j \in DOMAIN circuits : Open(j)}) = MaxCircuits
                  /\ \A j \in DOMAIN circuits : Open(j) => circuits[k] <= circuits[j]]_circuits

\* The event tells what was sent, to whom and in which order, and what the client received.
RecordFaithful == AttemptsMatchContacts /\ CaptureFidelity

\* The state is well formed; the table of circuits keeps its bound, and what it and the budget
\* hook say decides who is asked.
FallbackSafe == TypeOK /\ FallbackAuthorised /\ CircuitsBounded
=============================================================================
