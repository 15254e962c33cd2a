------------------------- MODULE HttpExchangeProofs -------------------------
(***************************************************************************)
(* Proofs about HttpExchange for any exchanges, keys, faults and bounds.   *)
(***************************************************************************)
EXTENDS HttpExchange, FiniteSetTheorems, SequenceTheorems, TLAPS

USE HttpExchangeAssumption

\* Whom the exchange asked: nobody, one provider, or the fallback after its own.
Asked(x) ==
  /\ pc[x] = "new" => contacts[x] = <<>> /\ attempts[x] = <<>> /\ budget[x] = <<>>
  /\ pc[x] # "new" => /\ contacts[x] \in {<<"direct">>, <<"fallback">>, <<"direct", "fallback">>}
                      /\ route[x] = contacts[x][Len(contacts[x])]

\* An attempt is recorded when it is over; the first of two was an exhaustion.
Tried(x) ==
  /\ pc[x] \in {"contact", "buffer", "stream"} => Len(attempts[x]) = Len(contacts[x]) - 1
  /\ pc[x] = "record" => Len(attempts[x]) = Len(contacts[x])
  /\ \A i \in 1 .. Len(attempts[x]) : i <= Len(contacts[x]) /\ attempts[x][i].provider = contacts[x][i]
  /\ contacts[x] = <<"direct", "fallback">> =>
       attempts[x] # <<>> /\ attempts[x][1].class = "exhaustion" /\ ~attempts[x][1].committed

\* What the client has, and what was captured.
Covers(last, isCommitted, given, kept) ==
  IF ~isCommitted THEN last = "transport_failure" /\ given = <<>>
  ELSE IF last = "midstream_failure" THEN IsPrefix(given, kept) /\ Len(kept) <= Len(given) + 1
  ELSE given = kept

Given(x) ==
  /\ pc[x] \in {"new", "contact"} => body[x] = <<>>
  /\ pc[x] \in {"new", "contact", "buffer"} => ~committed[x] /\ sent[x] = <<>>
  /\ pc[x] = "buffer" => mapped[x] /\ contacts[x] = <<"direct">>
  /\ pc[x] = "stream" => committed[x] /\ sent[x] = body[x]
  /\ pc[x] = "record" =>
       Covers(attempts[x][Len(attempts[x])].class, committed[x], sent[x], body[x])
  /\ \A i \in 1 .. Len(body[x]) : body[x][i] \in {0, Len(contacts[x])}
  /\ \A i \in 1 .. Len(sent[x]) : sent[x][i] \in {0, Len(contacts[x])}

\* The budget is asked once, before the fallback provider is.
Budgeted(x) ==
  /\ Len(budget[x]) \in {0, 1}
  /\ pc[x] \in {"contact", "buffer"} /\ mapped[x] /\ contacts[x] = <<"direct">> => budget[x] = <<>>
  /\ contacts[x] \in {<<"fallback">>, <<"direct", "fallback">>} => budget[x] # <<>> /\ budget[x][1].granted
  /\ contacts[x] = <<"fallback">> => exhausted[key[x]] > 0 /\ Cooldown > 0

\* What was recorded is the truth about the exchange.
EventTrue(x, e) ==
  /\ [j \in DOMAIN e.attempts |-> e.attempts[j].provider] = contacts[x]
  /\ e.final = contacts[x][Len(contacts[x])]
  /\ Len(e.attempts) \in {1, 2}
  /\ Len(e.attempts) = 2 => e.attempts[1].class = "exhaustion" /\ ~e.attempts[1].committed
  /\ IF e.attempts[Len(e.attempts)].class = "midstream_failure"
       THEN IsPrefix(sent[x], e.body) /\ Len(e.body) <= Len(sent[x]) + 1
       ELSE e.body = sent[x]

Recorded(x) ==
  /\ pc[x] # "done" => corpus[x] = <<>>
  /\ \A i \in 1 .. Len(corpus[x]) : EventTrue(x, corpus[x][i])

ExchangeOK(x) == Asked(x) /\ Tried(x) /\ Given(x) /\ Budgeted(x) /\ Recorded(x)

\* The table of circuits.
CircuitsOK ==
  /\ CircuitsBounded
  /\ IsFiniteSet(DOMAIN circuits)
  /\ \A k \in DOMAIN circuits : circuits[k] <= now + Cooldown

HttpInv == TypeOK /\ CircuitsOK /\ \A x \in Exchanges : ExchangeOK(x)

-----------------------------------------------------------------------------
(* Steps of other exchanges.                                               *)

SameAt(y) ==
  /\ pc'[y] = pc[y] /\ key'[y] = key[y] /\ mapped'[y] = mapped[y] /\ route'[y] = route[y]
  /\ status'[y] = status[y] /\ headers'[y] = headers[y] /\ body'[y] = body[y]
  /\ committed'[y] = committed[y] /\ sent'[y] = sent[y] /\ attempts'[y] = attempts[y]
  /\ corpus'[y] = corpus[y] /\ contacts'[y] = contacts[y] /\ budget'[y] = budget[y]

\* A key that was exhausted stays one that was exhausted.
StillExhausted == \A k \in Keys : exhausted[k] > 0 /\ Cooldown > 0 => exhausted'[k] > 0

LEMMA SameOK ==
  ASSUME TypeOK, NEW y \in Exchanges, ExchangeOK(y), SameAt(y), StillExhausted
  PROVE  ExchangeOK(y)'
<1>1. key[y] \in Keys
  BY DEF TypeOK
<1>2. Asked(y)' /\ Tried(y)' /\ Given(y)'
  BY DEF ExchangeOK, SameAt, Asked, Tried, Given
<1>3. Budgeted(y)'
  BY <1>1 DEF ExchangeOK, SameAt, Budgeted, StillExhausted
<1>4. Recorded(y)'
  BY DEF ExchangeOK, SameAt, Recorded, EventTrue
<1> QED
  BY <1>2, <1>3, <1>4 DEF ExchangeOK

LEMMA OneExchangeMoves ==
  ASSUME HttpInv, NEW x \in Exchanges, TypeOK', CircuitsOK', StillExhausted,
         \A y \in Exchanges \ {x} : SameAt(y), ExchangeOK(x)'
  PROVE  HttpInv'
<1>1. ASSUME NEW y \in Exchanges PROVE ExchangeOK(y)'
  BY SameOK DEF HttpInv
<1> QED
  BY <1>1 DEF HttpInv

LEMMA CircuitsSame ==
  ASSUME HttpInv, UNCHANGED <<circuits, exhausted, now>>
  PROVE  CircuitsOK' /\ StillExhausted
BY DEF HttpInv, CircuitsOK, CircuitsBounded, StillExhausted

\* The values of one exchange.
LEMMA Values ==
  ASSUME TypeOK, NEW x \in Exchanges
  PROVE  /\ key[x] \in Keys /\ mapped[x] \in BOOLEAN /\ route[x] \in Routes /\ status[x] \in Statuses
         /\ headers[x] \in 0 .. 2 /\ body[x] \in Seq(0 .. 2) /\ sent[x] \in Seq(0 .. 2)
         /\ committed[x] \in BOOLEAN /\ attempts[x] \in Seq(Attempt) /\ contacts[x] \in Seq(Routes)
         /\ corpus[x] \in Seq([attempts : Seq(Attempt), body : Seq(0 .. 2), final : Routes])
         /\ budget[x] \in Seq([why : {"circuit", "exhausted"}, granted : BOOLEAN])
BY DEF TypeOK, Chunks

LEMMA CircuitOpenStep ==
  ASSUME HttpInv, NEW k \in Keys, CircuitOpen(k), UNCHANGED <<exhausted, now>>
  PROVE  /\ CircuitsOK' /\ StillExhausted
         /\ DOMAIN circuits' \subseteq Keys /\ \A j \in DOMAIN circuits' : circuits'[j] \in Nat
<1>1. DOMAIN circuits' \subseteq DOMAIN circuits /\ \A j \in DOMAIN circuits' : circuits'[j] = circuits[j]
  BY DEF CircuitOpen, Without
<1>2. IsFiniteSet(DOMAIN circuits) /\ Cardinality(DOMAIN circuits) <= MaxCircuits
  BY DEF HttpInv, CircuitsOK, CircuitsBounded
<1>3. IsFiniteSet(DOMAIN circuits') /\ Cardinality(DOMAIN circuits') <= Cardinality(DOMAIN circuits)
  BY <1>1, <1>2, FS_Subset
<1>4. Cardinality(DOMAIN circuits') \in Nat /\ Cardinality(DOMAIN circuits) \in Nat
  BY <1>2, <1>3, FS_CardinalityType
<1>5. Cardinality(DOMAIN circuits') <= MaxCircuits
  BY <1>2, <1>3, <1>4
<1> QED
  BY <1>1, <1>3, <1>5 DEF HttpInv, TypeOK, CircuitsOK, CircuitsBounded, StillExhausted

\* What is counted as open when its circuit is found was exhausted.
LEMMA OpenExhausted ==
  ASSUME HttpInv, NEW k \in Keys, Open(k) PROVE exhausted[k] > 0 /\ Cooldown > 0
<1>1. k \in DOMAIN circuits /\ circuits[k] > now /\ circuits[k] = exhausted[k] /\ circuits[k] <= now + Cooldown
  BY DEF Open, HttpInv, CircuitsOK, CircuitsBounded
<1> QED
  BY <1>1 DEF HttpInv, TypeOK

\* The budget hook is asked for the first time.
LEMMA GrantedStep ==
  ASSUME TypeOK, NEW x \in Exchanges, budget[x] = <<>>, NEW why \in {"circuit", "exhausted"},
         NEW yes \in BOOLEAN, Granted(x, why, yes)
  PROVE  /\ budget' \in [Exchanges -> Seq([why : {"circuit", "exhausted"}, granted : BOOLEAN])]
         /\ Len(budget'[x]) = 1 /\ budget'[x] # <<>> /\ budget'[x][1].granted = yes
         /\ \A y \in Exchanges \ {x} : budget'[y] = budget[y]
<1> DEFINE Ask == [why : {"circuit", "exhausted"}, granted : BOOLEAN]
           ask == [why |-> why, granted |-> yes]
<1>1. budget \in [Exchanges -> Seq(Ask)] /\ budget' = [budget EXCEPT ![x] = Append(budget[x], ask)]
  BY DEF Granted, TypeOK
<1>2. ask \in Ask /\ ask.granted = yes
  OBVIOUS
<1> HIDE DEF Ask, ask
<1>3. Append(budget[x], ask) = <<ask>> /\ <<ask>> \in Seq(Ask)
  BY <1>2
<1>4. budget' \in [Exchanges -> Seq(Ask)] /\ budget'[x] = <<ask>> /\ \A y \in Exchanges \ {x} : budget'[y] = budget[y]
  BY <1>1, <1>3
<1>5. Len(budget'[x]) = 1 /\ budget'[x] # <<>> /\ budget'[x][1].granted = yes
  BY <1>2, <1>4
<1> QED
  BY <1>4, <1>5 DEF Ask

LEMMA Tuples ==
  /\ \A r : <<r>> # <<"direct", "fallback">> /\ Len(<<r>>) = 1 /\ <<r>>[1] = r
  /\ Len(<<"direct", "fallback">>) = 2 /\ <<"direct", "fallback">>[1] = "direct"
  /\ <<"direct", "fallback">>[2] = "fallback"
<1>1. \A r : Len(<<r>>) = 1 /\ <<r>>[1] = r
  OBVIOUS
<1>2. Len(<<"direct", "fallback">>) = 2 /\ <<"direct", "fallback">>[1] = "direct"
      /\ <<"direct", "fallback">>[2] = "fallback"
  OBVIOUS
<1>3. \A r : <<r>> # <<"direct", "fallback">>
  BY <1>1, <1>2
<1> QED
  BY <1>1, <1>2, <1>3

LEMMA BeginStep == ASSUME HttpInv, NEW x \in Exchanges, Begin(x) PROVE HttpInv'
<1>1. TypeOK /\ ExchangeOK(x) /\ pc[x] = "new" /\ key[x] \in Keys
  BY DEF HttpInv, Begin, TypeOK
<1>2. /\ contacts[x] = <<>> /\ attempts[x] = <<>> /\ budget[x] = <<>> /\ body[x] = <<>> /\ sent[x] = <<>>
      /\ ~committed[x] /\ corpus[x] = <<>>
  BY <1>1 DEF ExchangeOK, Asked, Given, Recorded
<1>3. UNCHANGED <<key, status, headers, body, committed, sent, attempts, corpus, now, exhausted>>
  BY DEF Begin
<1>4. PICK r \in Routes :
        /\ Contact(x, r)
        /\ \/ r = "direct" /\ UNCHANGED <<mapped, budget>>
           \/ \E yes \in BOOLEAN : /\ Open(key[x]) /\ Granted(x, "circuit", yes)
                                   /\ mapped' = [mapped EXCEPT ![x] = yes]
                                   /\ r = IF yes THEN "fallback" ELSE "direct"
  BY DEF Begin, Routes
<1>5. /\ pc'[x] = "contact" /\ route'[x] = r /\ contacts'[x] = <<r>>
      /\ pc' \in [Exchanges -> {"new", "contact", "buffer", "stream", "record", "done"}]
      /\ route' \in [Exchanges -> Routes] /\ contacts' \in [Exchanges -> Seq(Routes)]
      /\ \A y \in Exchanges \ {x} : pc'[y] = pc[y] /\ route'[y] = route[y] /\ contacts'[y] = contacts[y]
  BY <1>1, <1>2, <1>4 DEF Contact, TypeOK
<1>6. /\ mapped' \in [Exchanges -> BOOLEAN]
      /\ budget' \in [Exchanges -> Seq([why : {"circuit", "exhausted"}, granted : BOOLEAN])]
      /\ \A y \in Exchanges \ {x} : mapped'[y] = mapped[y] /\ budget'[y] = budget[y]
      /\ \/ r = "direct" /\ budget'[x] = <<>>
         \/ Open(key[x]) /\ r = "direct" /\ Len(budget'[x]) = 1 /\ ~mapped'[x]
         \/ Open(key[x]) /\ r = "fallback" /\ Len(budget'[x]) = 1 /\ budget'[x] # <<>>
            /\ budget'[x][1].granted
  <2>1. CASE r = "direct" /\ UNCHANGED <<mapped, budget>>
    BY <1>1, <1>2, <2>1 DEF TypeOK
  <2>2. ASSUME NEW yes \in BOOLEAN, Open(key[x]), Granted(x, "circuit", yes),
               mapped' = [mapped EXCEPT ![x] = yes], r = IF yes THEN "fallback" ELSE "direct"
        PROVE  /\ mapped' \in [Exchanges -> BOOLEAN]
               /\ budget' \in [Exchanges -> Seq([why : {"circuit", "exhausted"}, granted : BOOLEAN])]
               /\ \A y \in Exchanges \ {x} : mapped'[y] = mapped[y] /\ budget'[y] = budget[y]
               /\ \/ r = "direct" /\ budget'[x] = <<>>
                  \/ Open(key[x]) /\ r = "direct" /\ Len(budget'[x]) = 1 /\ ~mapped'[x]
                  \/ Open(key[x]) /\ r = "fallback" /\ Len(budget'[x]) = 1 /\ budget'[x] # <<>>
                     /\ budget'[x][1].granted
    <3>1. /\ budget' \in [Exchanges -> Seq([why : {"circuit", "exhausted"}, granted : BOOLEAN])]
          /\ Len(budget'[x]) = 1 /\ budget'[x] # <<>> /\ budget'[x][1].granted = yes
          /\ \A y \in Exchanges \ {x} : budget'[y] = budget[y]
      BY <1>1, <1>2, <2>2, GrantedStep
    <3>2. mapped' \in [Exchanges -> BOOLEAN] /\ mapped'[x] = yes
          /\ \A y \in Exchanges \ {x} : mapped'[y] = mapped[y]
      BY <1>1, <2>2 DEF TypeOK
    <3> QED
      BY <2>2, <3>1, <3>2
  <2> QED
    BY <1>4, <2>1, <2>2
<1>7. CircuitsOK' /\ StillExhausted /\ DOMAIN circuits' \subseteq Keys /\ \A j \in DOMAIN circuits' : circuits'[j] \in Nat
  <2>1. CASE UNCHANGED circuits
    BY <1>1, <1>3, <2>1, CircuitsSame DEF TypeOK
  <2>2. CASE CircuitOpen(key[x])
    BY <1>1, <1>3, <2>2, CircuitOpenStep
  <2> QED
    BY <2>1, <2>2 DEF Begin
<1>8. TypeOK'
  BY <1>1, <1>3, <1>5, <1>6, <1>7 DEF TypeOK
<1>9. ExchangeOK(x)'
  <2>1. Asked(x)' /\ Tried(x)' /\ Recorded(x)'
    BY <1>1, <1>2, <1>3, <1>5 DEF Asked, Tried, Recorded, Routes
  <2>2. Given(x)'
    BY <1>1, <1>2, <1>3, <1>5 DEF Given
  <2>3. Open(key[x]) => exhausted[key[x]] > 0 /\ Cooldown > 0
    BY <1>1, OpenExhausted
  <2>4. Budgeted(x)'
    <3>1. /\ key'[x] = key[x] /\ exhausted' = exhausted /\ Len(budget'[x]) \in {0, 1}
          /\ contacts'[x] = <<r>> /\ <<r>> # <<"direct", "fallback">>
      <4>1. Len(<<>>) = 0
        OBVIOUS
      <4>2. Len(budget'[x]) \in {0, 1}
        BY <1>6, <4>1
      <4> QED
        BY <1>3, <1>5, <4>2, Tuples
    <3>2. CASE r = "direct"
      <4>1. <<r>> # <<"fallback">> /\ (mapped'[x] => budget'[x] = <<>>)
        BY <1>6, <3>2
      <4> QED
        BY <3>1, <3>2, <4>1 DEF Budgeted
    <3>3. CASE r = "fallback"
      <4>1. <<r>> # <<"direct">> /\ budget'[x] # <<>> /\ budget'[x][1].granted /\ Open(key[x])
        BY <1>6, <3>3
      <4> QED
        BY <2>3, <3>1, <3>3, <4>1 DEF Budgeted
    <3> QED
      BY <3>2, <3>3 DEF Routes
  <2> QED
    BY <2>1, <2>2, <2>4 DEF ExchangeOK
<1>10. \A y \in Exchanges \ {x} : SameAt(y)
  BY <1>3, <1>5, <1>6 DEF SameAt
<1> QED
  BY <1>7, <1>8, <1>9, <1>10, OneExchangeMoves

\* Whom the exchange has asked by now.
LEMMA AskedShape ==
  ASSUME NEW x \in Exchanges, Asked(x), pc[x] # "new"
  PROVE  /\ Len(contacts[x]) \in {1, 2} /\ contacts[x] # <<>>
         /\ route[x] = "direct" => contacts[x] = <<"direct">>
         /\ route[x] \in {"direct", "fallback"}
         /\ contacts[x] = <<"direct">> => Len(contacts[x]) = 1
         /\ contacts[x] = <<"fallback">> => Len(contacts[x]) = 1
         /\ contacts[x] = <<"direct", "fallback">> => Len(contacts[x]) = 2
         /\ contacts[x] = <<"direct">> => route[x] = "direct" /\ contacts[x] # <<"fallback">>
<1>1. contacts[x] \in {<<"direct">>, <<"fallback">>, <<"direct", "fallback">>}
      /\ route[x] = contacts[x][Len(contacts[x])]
  BY DEF Asked
<1>2. CASE contacts[x] = <<"direct">>
  <2>1. Len(contacts[x]) = 1 /\ contacts[x][1] = "direct" /\ contacts[x] # <<>>
    BY <1>2, Tuples
  <2>2. <<"fallback">>[1] = "fallback"
    BY Tuples
  <2> QED
    BY <1>1, <1>2, <2>1, <2>2, Tuples
<1>3. CASE contacts[x] = <<"fallback">>
  <2>1. Len(contacts[x]) = 1 /\ contacts[x][1] = "fallback" /\ contacts[x] # <<>>
    BY <1>3, Tuples
  <2>2. <<"direct">>[1] = "direct"
    BY Tuples
  <2> QED
    BY <1>1, <1>3, <2>1, <2>2, Tuples
<1>4. CASE contacts[x] = <<"direct", "fallback">>
  <2>1. Len(contacts[x]) = 2 /\ contacts[x][2] = "fallback" /\ contacts[x] # <<>>
    BY <1>4, Tuples
  <2> QED
    BY <1>1, <1>4, <2>1, Tuples
<1> QED
  BY <1>1, <1>2, <1>3, <1>4

\* One more chunk of a body.
LEMMA OneMoreChunk ==
  ASSUME NEW s \in Seq(0 .. 2), NEW n \in 0 .. 2
  PROVE  /\ Append(s, n) \in Seq(0 .. 2) /\ Len(Append(s, n)) = Len(s) + 1 /\ Len(s) \in Nat
         /\ \A T : (\A i \in 1 .. Len(s) : s[i] \in T) /\ n \in T =>
                      \A i \in 1 .. Len(s) + 1 : Append(s, n)[i] \in T
         /\ IsPrefix(s, Append(s, n)) /\ IsPrefix(s, s)
<1>1. /\ Append(s, n) \in Seq(0 .. 2) /\ Len(Append(s, n)) = Len(s) + 1 /\ Len(s) \in Nat
      /\ Append(s, n)[Len(s) + 1] = n /\ \A i \in 1 .. Len(s) : Append(s, n)[i] = s[i]
  OBVIOUS
<1>2. IsPrefix(s, s)
  BY <1>1 DEF IsPrefix
<1>3. IsPrefix(s, Append(s, n))
  BY <1>1 DEF IsPrefix
<1>4. ASSUME NEW T, \A i \in 1 .. Len(s) : s[i] \in T, n \in T
      PROVE  \A i \in 1 .. Len(s) + 1 : Append(s, n)[i] \in T
  BY <1>1, <1>4
<1> QED
  BY <1>1, <1>2, <1>3, <1>4

LEMMA HeadersStep == ASSUME HttpInv, NEW x \in Exchanges, Headers(x) PROVE HttpInv'
<1>1. TypeOK /\ ExchangeOK(x) /\ pc[x] = "contact"
  BY DEF HttpInv, Headers
<1>2. UNCHANGED <<key, mapped, route, body, sent, attempts, corpus, circuits, now, contacts, budget, exhausted>>
  BY DEF Headers
<1>3. /\ pc'[x] \in {"buffer", "stream"} /\ (pc'[x] = "buffer" => mapped[x] /\ route[x] = "direct" /\ ~committed'[x])
      /\ (pc'[x] = "stream" => committed'[x])
      /\ \A y \in Exchanges \ {x} : pc'[y] = pc[y] /\ committed'[y] = committed[y]
                                      /\ status'[y] = status[y] /\ headers'[y] = headers[y]
  <2>1. ~committed[x]
    BY <1>1 DEF ExchangeOK, Given
  <2> QED
    BY <1>1, <2>1 DEF Headers, Inspects, TypeOK
<1>4. TypeOK'
  <2>1. Len(contacts[x]) \in 0 .. 2
    BY <1>1, AskedShape DEF ExchangeOK
  <2>2. headers' \in [Exchanges -> 0 .. 2]
    BY <1>1, <2>1 DEF Headers, TypeOK
  <2>3. /\ pc' \in [Exchanges -> {"new", "contact", "buffer", "stream", "record", "done"}]
        /\ status' \in [Exchanges -> Statuses] /\ committed' \in [Exchanges -> BOOLEAN]
    <3>1. pc' = [pc EXCEPT ![x] = "buffer"] \/ pc' = [pc EXCEPT ![x] = "stream"]
      BY DEF Headers
    <3>2. committed' = committed \/ committed' = [committed EXCEPT ![x] = TRUE]
      BY DEF Headers
    <3>3. \E s \in Statuses : status' = [status EXCEPT ![x] = s]
      BY DEF Headers
    <3>4. committed' \in [Exchanges -> BOOLEAN]
      BY <1>1, <3>2 DEF TypeOK
    <3>5. pc' \in [Exchanges -> {"new", "contact", "buffer", "stream", "record", "done"}]
      BY <1>1, <3>1 DEF TypeOK
    <3>6. status' \in [Exchanges -> Statuses]
      BY <1>1, <3>3 DEF TypeOK
    <3> QED
      BY <3>4, <3>5, <3>6
  <2> QED
    BY <1>1, <1>2, <2>2, <2>3 DEF TypeOK
<1>5. ExchangeOK(x)'
  <2>1. Asked(x)' /\ Tried(x)' /\ Recorded(x)' /\ Budgeted(x)'
    BY <1>1, <1>2, <1>3 DEF ExchangeOK, Asked, Tried, Recorded, Budgeted
  <2>2. Given(x)'
    BY <1>1, <1>2, <1>3, AskedShape DEF ExchangeOK, Given
  <2> QED
    BY <2>1, <2>2 DEF ExchangeOK
<1>6. \A y \in Exchanges \ {x} : SameAt(y)
  BY <1>2, <1>3 DEF SameAt
<1> QED
  BY <1>2, <1>4, <1>5, <1>6, CircuitsSame, OneExchangeMoves

LEMMA BufferStep == ASSUME HttpInv, NEW x \in Exchanges, Buffer(x) PROVE HttpInv'
<1>1. TypeOK /\ ExchangeOK(x) /\ pc[x] = "buffer" /\ body[x] \in Seq(0 .. 2) /\ Len(contacts[x]) \in 0 .. 2
  BY Values, AskedShape DEF HttpInv, Buffer, ExchangeOK
<1>2. UNCHANGED <<pc, key, mapped, route, status, headers, committed, sent, attempts, corpus, circuits, now,
                  contacts, budget, exhausted>>
  BY DEF Buffer
<1>3. /\ body' \in [Exchanges -> Chunks] /\ body'[x] = Append(body[x], Len(contacts[x]))
      /\ \A y \in Exchanges \ {x} : body'[y] = body[y]
  BY <1>1, OneMoreChunk DEF Buffer, Receive, TypeOK, Chunks
<1>4. TypeOK'
  BY <1>1, <1>2, <1>3 DEF TypeOK
<1>5. ExchangeOK(x)'
  <2>1. Asked(x)' /\ Tried(x)' /\ Budgeted(x)' /\ Recorded(x)'
    BY <1>1, <1>2 DEF ExchangeOK, Asked, Tried, Budgeted, Recorded
  <2>2. \A i \in 1 .. Len(body'[x]) : body'[x][i] \in {0, Len(contacts[x])}
    BY <1>1, <1>3, OneMoreChunk DEF ExchangeOK, Given
  <2>3. Given(x)'
    BY <1>1, <1>2, <2>2 DEF ExchangeOK, Given
  <2> QED
    BY <2>1, <2>3 DEF ExchangeOK
<1>6. \A y \in Exchanges \ {x} : SameAt(y)
  BY <1>2, <1>3 DEF SameAt
<1> QED
  BY <1>2, <1>4, <1>5, <1>6, CircuitsSame, OneExchangeMoves

LEMMA StreamStep == ASSUME HttpInv, NEW x \in Exchanges, Stream(x) PROVE HttpInv'
<1>0. TypeOK /\ ExchangeOK(x) /\ pc[x] = "stream"
  BY DEF HttpInv, Stream
<1>1. TypeOK /\ ExchangeOK(x) /\ pc[x] = "stream" /\ body[x] \in Seq(0 .. 2) /\ Len(contacts[x]) \in 0 .. 2
      /\ sent[x] = body[x]
  <2>1. sent[x] = body[x]
    BY <1>0 DEF ExchangeOK, Given
  <2> QED
    BY <1>0, <2>1, Values, AskedShape DEF ExchangeOK
<1>2. UNCHANGED <<pc, key, mapped, route, status, headers, committed, attempts, corpus, circuits, now,
                  contacts, budget, exhausted>>
  BY DEF Stream
<1>3. /\ body' \in [Exchanges -> Chunks] /\ body'[x] = Append(body[x], Len(contacts[x]))
      /\ sent' \in [Exchanges -> Chunks] /\ sent'[x] = Append(body[x], Len(contacts[x]))
      /\ \A y \in Exchanges \ {x} : body'[y] = body[y] /\ sent'[y] = sent[y]
  BY <1>1, OneMoreChunk DEF Stream, Receive, TypeOK, Chunks
<1>4. TypeOK'
  BY <1>1, <1>2, <1>3 DEF TypeOK
<1>5. ExchangeOK(x)'
  <2>1. Asked(x)' /\ Tried(x)' /\ Budgeted(x)' /\ Recorded(x)'
    BY <1>1, <1>2 DEF ExchangeOK, Asked, Tried, Budgeted, Recorded
  <2>2. \A i \in 1 .. Len(body'[x]) : body'[x][i] \in {0, Len(contacts[x])}
    <3>1. \A i \in 1 .. Len(body[x]) : body[x][i] \in {0, Len(contacts[x])}
      BY <1>1 DEF ExchangeOK, Given
    <3>2. Len(body'[x]) = Len(body[x]) + 1
      BY <1>1, <1>3, OneMoreChunk
    <3> QED
      BY <1>1, <1>3, <3>1, <3>2, OneMoreChunk
  <2>3. Given(x)'
    BY <1>1, <1>2, <1>3, <2>2 DEF ExchangeOK, Given
  <2> QED
    BY <2>1, <2>3 DEF ExchangeOK
<1>6. \A y \in Exchanges \ {x} : SameAt(y)
  BY <1>2, <1>3 DEF SameAt
<1> QED
  BY <1>2, <1>4, <1>5, <1>6, CircuitsSame, OneExchangeMoves

LEMMA CancelStep == ASSUME HttpInv, NEW x \in Exchanges, Cancel(x) PROVE HttpInv'
<1>1. TypeOK /\ ExchangeOK(x) /\ pc[x] \notin {"new", "done"}
  BY DEF HttpInv, Cancel
<1>2. UNCHANGED <<key, mapped, route, status, headers, body, committed, sent, attempts, corpus, circuits, now,
                  contacts, budget, exhausted>>
  BY DEF Cancel, local
<1>3. /\ pc' \in [Exchanges -> {"new", "contact", "buffer", "stream", "record", "done"}]
      /\ pc'[x] = "done" /\ \A y \in Exchanges \ {x} : pc'[y] = pc[y]
  BY <1>1 DEF Cancel, TypeOK
<1>4. TypeOK'
  BY <1>1, <1>2, <1>3 DEF TypeOK
<1>5. ExchangeOK(x)'
  <2>1. Asked(x)' /\ Tried(x)' /\ Budgeted(x)' /\ Given(x)'
    BY <1>1, <1>2, <1>3 DEF ExchangeOK, Asked, Tried, Budgeted, Given
  <2>2. Recorded(x)'
    BY <1>1, <1>2, <1>3 DEF ExchangeOK, Recorded, EventTrue
  <2> QED
    BY <2>1, <2>2 DEF ExchangeOK
<1>6. \A y \in Exchanges \ {x} : SameAt(y)
  BY <1>2, <1>3 DEF SameAt
<1> QED
  BY <1>2, <1>4, <1>5, <1>6, CircuitsSame, OneExchangeMoves

\* The record of an attempt that is over.
LEMMA OneMoreAttempt ==
  ASSUME TypeOK, NEW x \in Exchanges, NEW isCommitted \in BOOLEAN,
         NEW class \in {"success", "upstream_error", "exhaustion", "transport_failure", "midstream_failure"},
         attempts' = [attempts EXCEPT ![x] = Append(@, Record(x, class, isCommitted))]
  PROVE  /\ attempts' \in [Exchanges -> Seq(Attempt)] /\ \A y \in Exchanges \ {x} : attempts'[y] = attempts[y]
         /\ Len(attempts'[x]) = Len(attempts[x]) + 1 /\ Len(attempts[x]) \in Nat /\ attempts'[x] # <<>>
         /\ attempts'[x][Len(attempts[x]) + 1].class = class
         /\ attempts'[x][Len(attempts[x]) + 1].committed = isCommitted
         /\ attempts'[x][Len(attempts[x]) + 1].provider = route[x]
         /\ \A i \in 1 .. Len(attempts[x]) : attempts'[x][i] = attempts[x][i]
<1> DEFINE a == Record(x, class, isCommitted)
<1>1. a \in Attempt /\ a.class = class /\ a.committed = isCommitted /\ a.provider = route[x]
  BY Values DEF Record, Attempt
<1>2. attempts \in [Exchanges -> Seq(Attempt)] /\ attempts' = [attempts EXCEPT ![x] = Append(attempts[x], a)]
  BY DEF TypeOK
<1> HIDE DEF a
<1>3. /\ attempts' \in [Exchanges -> Seq(Attempt)] /\ \A y \in Exchanges \ {x} : attempts'[y] = attempts[y]
      /\ attempts'[x] = Append(attempts[x], a) /\ attempts[x] \in Seq(Attempt)
  BY <1>1, <1>2
<1>4. /\ Len(attempts'[x]) = Len(attempts[x]) + 1 /\ Len(attempts[x]) \in Nat /\ attempts'[x] # <<>>
      /\ attempts'[x][Len(attempts[x]) + 1] = a
      /\ \A i \in 1 .. Len(attempts[x]) : attempts'[x][i] = attempts[x][i]
  BY <1>1, <1>3
<1> QED
  BY <1>1, <1>3, <1>4

\* An attempt that ends adds its provider.
LEMMA TriedOneMore ==
  ASSUME TypeOK, NEW x \in Exchanges, ExchangeOK(x), pc[x] \in {"contact", "buffer", "stream"},
         NEW isCommitted \in BOOLEAN,
         NEW class \in {"success", "upstream_error", "exhaustion", "transport_failure", "midstream_failure"},
         attempts' = [attempts EXCEPT ![x] = Append(@, Record(x, class, isCommitted))],
         UNCHANGED contacts, pc'[x] = "record"
  PROVE  Tried(x)' /\ attempts'[x][Len(attempts'[x])].class = class
<1>1. /\ Len(attempts[x]) = Len(contacts[x]) - 1 /\ Len(contacts[x]) \in {1, 2}
      /\ route[x] = contacts[x][Len(contacts[x])]
      /\ contacts[x] = <<"direct", "fallback">> => Len(contacts[x]) = 2
  BY AskedShape DEF ExchangeOK, Tried, Asked
<1>2. /\ Len(attempts'[x]) = Len(attempts[x]) + 1
      /\ attempts'[x][Len(attempts[x]) + 1].class = class /\ attempts'[x] # <<>>
      /\ attempts'[x][Len(attempts[x]) + 1].provider = route[x]
      /\ \A i \in 1 .. Len(attempts[x]) : attempts'[x][i] = attempts[x][i]
  BY OneMoreAttempt
<1>3. \A i \in 1 .. Len(attempts'[x]) :
        i <= Len(contacts[x]) /\ attempts'[x][i].provider = contacts[x][i]
  <2>1. \A i \in 1 .. Len(attempts[x]) : i <= Len(contacts[x]) /\ attempts[x][i].provider = contacts[x][i]
    BY DEF ExchangeOK, Tried
  <2> QED
    BY <1>1, <1>2, <2>1
<1>4. contacts[x] = <<"direct", "fallback">> =>
        attempts'[x][1].class = "exhaustion" /\ ~attempts'[x][1].committed
  BY <1>1, <1>2 DEF ExchangeOK, Tried
<1>5. Len(attempts'[x]) = Len(contacts[x])
  BY <1>1, <1>2
<1> QED
  BY <1>2, <1>3, <1>4, <1>5 DEF Tried

LEMMA FinishStep == ASSUME HttpInv, NEW x \in Exchanges, Finish(x) PROVE HttpInv'
<1>1. TypeOK /\ ExchangeOK(x) /\ pc[x] = "stream"
  BY DEF HttpInv, Finish
<1>2. UNCHANGED <<key, mapped, route, status, headers, body, committed, sent, corpus, circuits, now, contacts,
                  budget, exhausted>>
  BY DEF Finish
<1>3. /\ pc' \in [Exchanges -> {"new", "contact", "buffer", "stream", "record", "done"}]
      /\ pc'[x] = "record" /\ \A y \in Exchanges \ {x} : pc'[y] = pc[y]
  BY <1>1 DEF Finish, TypeOK
<1>4. PICK class \in {"success", "upstream_error"} :
        attempts' = [attempts EXCEPT ![x] = Append(@, Record(x, class, TRUE))]
  BY DEF Finish
<1>5. /\ attempts' \in [Exchanges -> Seq(Attempt)] /\ \A y \in Exchanges \ {x} : attempts'[y] = attempts[y]
      /\ Tried(x)' /\ attempts'[x][Len(attempts'[x])].class = class
  BY <1>1, <1>2, <1>3, <1>4, OneMoreAttempt, TriedOneMore
<1>6. TypeOK'
  BY <1>1, <1>2, <1>3, <1>5 DEF TypeOK
<1>7. ExchangeOK(x)'
  <2>1. Asked(x)' /\ Budgeted(x)' /\ Recorded(x)'
    BY <1>1, <1>2, <1>3 DEF ExchangeOK, Asked, Budgeted, Recorded
  <2>2. Given(x)'
    BY <1>1, <1>2, <1>3, <1>5 DEF ExchangeOK, Given, Covers
  <2> QED
    BY <1>5, <2>1, <2>2 DEF ExchangeOK
<1>8. \A y \in Exchanges \ {x} : SameAt(y)
  BY <1>2, <1>3, <1>5 DEF SameAt
<1> QED
  BY <1>2, <1>6, <1>7, <1>8, CircuitsSame, OneExchangeMoves

LEMMA FailStep == ASSUME HttpInv, NEW x \in Exchanges, Fail(x) PROVE HttpInv'
<1>1. TypeOK /\ ExchangeOK(x) /\ pc[x] \in {"contact", "buffer", "stream"}
  BY DEF HttpInv, Fail
<1>2. UNCHANGED <<key, mapped, route, committed, sent, corpus, circuits, now, contacts, budget, exhausted>>
  BY DEF Fail
<1>3. /\ pc' \in [Exchanges -> {"new", "contact", "buffer", "stream", "record", "done"}]
      /\ pc'[x] = "record" /\ \A y \in Exchanges \ {x} : pc'[y] = pc[y]
  BY <1>1 DEF Fail, TypeOK
<1>4. PICK class \in {"midstream_failure", "transport_failure"} :
        /\ attempts' = [attempts EXCEPT ![x] = Append(@, Record(x, class, committed[x]))]
        /\ class = IF committed[x] THEN "midstream_failure" ELSE "transport_failure"
  BY DEF Fail
<1>5. body[x] \in Seq(0 .. 2) /\ sent[x] \in Seq(0 .. 2) /\ committed[x] \in BOOLEAN
      /\ Len(contacts[x]) \in 0 .. 2
  BY <1>1, Values, AskedShape DEF ExchangeOK
<1>6. /\ attempts' \in [Exchanges -> Seq(Attempt)] /\ \A y \in Exchanges \ {x} : attempts'[y] = attempts[y]
      /\ Tried(x)' /\ attempts'[x][Len(attempts'[x])].class = class
  BY <1>1, <1>2, <1>3, <1>4, <1>5, OneMoreAttempt, TriedOneMore
<1>7. /\ status' \in [Exchanges -> Statuses] /\ headers' \in [Exchanges -> 0 .. 2]
      /\ \A y \in Exchanges \ {x} : status'[y] = status[y] /\ headers'[y] = headers[y]
  <2>1. /\ status' = status \/ status' = [status EXCEPT ![x] = "none"]
        /\ headers' = headers \/ headers' = [headers EXCEPT ![x] = 0]
    BY DEF Fail
  <2>2. status' \in [Exchanges -> Statuses] /\ \A y \in Exchanges \ {x} : status'[y] = status[y]
    BY <1>1, <2>1 DEF TypeOK, Statuses
  <2>3. headers' \in [Exchanges -> 0 .. 2] /\ \A y \in Exchanges \ {x} : headers'[y] = headers[y]
    <3>1. headers \in [Exchanges -> 0 .. 2] /\ 0 \in 0 .. 2
      BY <1>1 DEF TypeOK
    <3>2. CASE headers' = headers
      BY <3>1, <3>2
    <3>3. CASE headers' = [headers EXCEPT ![x] = 0]
      BY <3>1, <3>3
    <3> QED
      BY <2>1, <3>2, <3>3
  <2> QED
    BY <2>2, <2>3
<1>8. /\ body' \in [Exchanges -> Chunks] /\ \A y \in Exchanges \ {x} : body'[y] = body[y]
      /\ committed[x] => body'[x] \in {body[x], Append(body[x], Len(contacts[x]))}
      /\ ~committed[x] => body'[x] = <<0>>
  <2>1. CASE body' = [body EXCEPT ![x] = Append(body[x], Len(contacts[x]))] /\ committed[x]
    BY <1>1, <1>5, <2>1, OneMoreChunk DEF TypeOK, Chunks
  <2>2. CASE body' = body /\ committed[x]
    BY <1>1, <2>2 DEF TypeOK
  <2>3. CASE body' = [body EXCEPT ![x] = <<0>>] /\ ~committed[x]
    <3>1. <<0>> \in Chunks
      BY DEF Chunks
    <3> QED
      BY <1>1, <2>3, <3>1 DEF TypeOK
  <2> QED
    BY <2>1, <2>2, <2>3 DEF Fail, Receive
<1>9. TypeOK'
  BY <1>1, <1>2, <1>3, <1>6, <1>7, <1>8 DEF TypeOK
<1>10. ExchangeOK(x)'
  <2>1. Asked(x)' /\ Budgeted(x)' /\ Recorded(x)'
    BY <1>1, <1>2, <1>3 DEF ExchangeOK, Asked, Budgeted, Recorded
  <2>2. \A i \in 1 .. Len(body'[x]) : body'[x][i] \in {0, Len(contacts[x])}
    <3>1. \A i \in 1 .. Len(body[x]) : body[x][i] \in {0, Len(contacts[x])}
      BY <1>1 DEF ExchangeOK, Given
    <3>2. CASE body'[x] = body[x]
      BY <3>1, <3>2
    <3>3. CASE body'[x] = Append(body[x], Len(contacts[x]))
      <4>1. Len(body'[x]) = Len(body[x]) + 1
        BY <1>5, <3>3, OneMoreChunk
      <4> QED
        BY <1>5, <3>1, <3>3, <4>1, OneMoreChunk
    <3>4. CASE body'[x] = <<0>>
      BY <3>4
    <3> QED
      BY <1>8, <3>2, <3>3, <3>4
  <2>3. Covers(class, committed[x], sent[x], body'[x])
    <3>1. CASE ~committed[x]
      <4>1. sent[x] = <<>>
        BY <1>1, <3>1 DEF ExchangeOK, Given
      <4> QED
        BY <1>4, <3>1, <4>1 DEF Covers
    <3>2. CASE committed[x]
      <4>1. sent[x] = body[x]
        BY <1>1, <3>2 DEF ExchangeOK, Given
      <4>2. IsPrefix(body[x], body'[x]) /\ Len(body'[x]) <= Len(body[x]) + 1
        <5>1. CASE body'[x] = body[x]
          <6>1. 0 \in 0 .. 2
            OBVIOUS
          <6>2. IsPrefix(body[x], body[x]) /\ Len(body[x]) \in Nat
            BY <1>5, <6>1, OneMoreChunk
          <6> QED
            BY <5>1, <6>2
        <5>2. CASE body'[x] = Append(body[x], Len(contacts[x]))
          <6>1. /\ IsPrefix(body[x], Append(body[x], Len(contacts[x]))) /\ Len(body[x]) \in Nat
                /\ Len(Append(body[x], Len(contacts[x]))) = Len(body[x]) + 1
            BY <1>5, OneMoreChunk
          <6> QED
            BY <5>2, <6>1
        <5> QED
          BY <1>8, <3>2, <5>1, <5>2
      <4> QED
        BY <1>4, <3>2, <4>1, <4>2 DEF Covers
    <3> QED
      BY <3>1, <3>2
  <2>4. Given(x)'
    BY <1>1, <1>2, <1>3, <1>6, <2>2, <2>3 DEF ExchangeOK, Given
  <2> QED
    BY <1>6, <2>1, <2>4 DEF ExchangeOK
<1>11. \A y \in Exchanges \ {x} : SameAt(y)
  BY <1>2, <1>3, <1>6, <1>7, <1>8 DEF SameAt
<1> QED
  BY <1>2, <1>9, <1>10, <1>11, CircuitsSame, OneExchangeMoves

\* What is about to be recorded is the truth.
LEMMA AboutToRecord ==
  ASSUME TypeOK, NEW x \in Exchanges, ExchangeOK(x), pc[x] = "record"
  PROVE  /\ [j \in DOMAIN attempts[x] |-> attempts[x][j].provider] = contacts[x]
         /\ route[x] = contacts[x][Len(contacts[x])]
         /\ Len(attempts[x]) \in {1, 2}
         /\ Len(attempts[x]) = 2 => attempts[x][1].class = "exhaustion" /\ ~attempts[x][1].committed
         /\ Covers(attempts[x][Len(attempts[x])].class, committed[x], sent[x], body[x])
<1>1. /\ Len(contacts[x]) \in {1, 2} /\ Len(attempts[x]) = Len(contacts[x])
      /\ route[x] = contacts[x][Len(contacts[x])]
      /\ \A i \in 1 .. Len(attempts[x]) : attempts[x][i].provider = contacts[x][i]
      /\ Covers(attempts[x][Len(attempts[x])].class, committed[x], sent[x], body[x])
  BY AskedShape DEF ExchangeOK, Asked, Tried, Given
<1>2. Len(contacts[x]) = 2 => contacts[x] = <<"direct", "fallback">>
  <2>1. contacts[x] \in {<<"direct">>, <<"fallback">>, <<"direct", "fallback">>}
    BY DEF ExchangeOK, Asked
  <2> QED
    BY <2>1, Tuples
<1>3. Len(attempts[x]) = 2 => attempts[x][1].class = "exhaustion" /\ ~attempts[x][1].committed
  BY <1>1, <1>2 DEF ExchangeOK, Tried
<1>4. [j \in DOMAIN attempts[x] |-> attempts[x][j].provider] = contacts[x]
  <2>1. DOMAIN attempts[x] = 1 .. Len(attempts[x]) /\ DOMAIN contacts[x] = 1 .. Len(contacts[x])
        /\ contacts[x] = [j \in DOMAIN contacts[x] |-> contacts[x][j]]
    BY Values
  <2> QED
    BY <1>1, <2>1
<1> QED
  BY <1>1, <1>3, <1>4

LEMMA CaptureStep == ASSUME HttpInv, NEW x \in Exchanges, Capture(x) PROVE HttpInv'
<1>1. TypeOK /\ ExchangeOK(x) /\ pc[x] = "record" /\ corpus[x] = <<>> /\ body[x] \in Seq(0 .. 2)
  BY Values DEF HttpInv, Capture, ExchangeOK, Recorded
<1>2. UNCHANGED <<key, mapped, route, status, headers, body, committed, attempts, circuits, now, contacts,
                  budget, exhausted>>
  BY DEF Capture
<1>3. /\ pc' \in [Exchanges -> {"new", "contact", "buffer", "stream", "record", "done"}]
      /\ pc'[x] = "done" /\ \A y \in Exchanges \ {x} : pc'[y] = pc[y]
  BY <1>1 DEF Capture, TypeOK
<1> DEFINE e == [attempts |-> attempts[x], body |-> body[x], final |-> route[x]]
           Event == [attempts : Seq(Attempt), body : Chunks, final : Routes]
<1>4. e \in Event /\ e.attempts = attempts[x] /\ e.body = body[x] /\ e.final = route[x]
  BY <1>1, Values DEF Chunks
<1>5. /\ corpus' \in [Exchanges -> Seq(Event)] /\ corpus'[x] \in {<<>>, <<e>>}
      /\ \A y \in Exchanges \ {x} : corpus'[y] = corpus[y]
  <2>1. corpus \in [Exchanges -> Seq(Event)]
    BY <1>1 DEF TypeOK
  <2>2. corpus' = corpus \/ corpus' = [corpus EXCEPT ![x] = Append(corpus[x], e)]
    BY DEF Capture
  <2> HIDE DEF e, Event
  <2>3. Append(corpus[x], e) = <<e>> /\ <<e>> \in Seq(Event)
    BY <1>1, <1>4
  <2> QED
    BY <1>1, <2>1, <2>2, <2>3
<1>6. /\ sent' \in [Exchanges -> Chunks] /\ \A y \in Exchanges \ {x} : sent'[y] = sent[y]
      /\ sent'[x] \in {sent[x], body[x]}
      /\ corpus'[x] # <<>> => sent'[x] = IF committed[x] THEN sent[x] ELSE body[x]
  BY <1>1 DEF Capture, TypeOK
<1>7. TypeOK'
  BY <1>1, <1>2, <1>3, <1>5, <1>6 DEF TypeOK
<1>8. ExchangeOK(x)'
  <2>1. Asked(x)' /\ Tried(x)' /\ Budgeted(x)'
    BY <1>1, <1>2, <1>3 DEF ExchangeOK, Asked, Tried, Budgeted
  <2>2. Given(x)'
    BY <1>1, <1>2, <1>3, <1>6 DEF ExchangeOK, Given
  <2>3. ASSUME corpus'[x] = <<e>> PROVE EventTrue(x, e)'
    <3>1. sent'[x] = IF committed[x] THEN sent[x] ELSE body[x]
      BY <1>6, <2>3
    <3>2. IF attempts[x][Len(attempts[x])].class = "midstream_failure"
            THEN IsPrefix(sent'[x], body[x]) /\ Len(body[x]) <= Len(sent'[x]) + 1
            ELSE body[x] = sent'[x]
      BY <1>1, <3>1, AboutToRecord DEF Covers
    <3> QED
      BY <1>1, <1>2, <1>4, <3>2, AboutToRecord DEF EventTrue
  <2>4. Recorded(x)'
    <3>1. CASE corpus'[x] = <<>>
      BY <1>3, <3>1 DEF Recorded
    <3>2. CASE corpus'[x] = <<e>>
      <4>1. EventTrue(x, e)'
        BY <2>3, <3>2
      <4>0. e' = e
        BY <1>2
      <4> HIDE DEF e
      <4>2. Len(corpus'[x]) = 1 /\ corpus'[x][1] = e
        BY <3>2
      <4>3. ASSUME NEW i \in 1 .. Len(corpus'[x]) PROVE corpus'[x][i] = e
        BY <4>2
      <4> QED
        BY <1>3, <4>0, <4>1, <4>3 DEF Recorded, EventTrue
    <3> QED
      BY <1>5, <3>1, <3>2
  <2> QED
    BY <2>1, <2>2, <2>4 DEF ExchangeOK
<1>9. \A y \in Exchanges \ {x} : SameAt(y)
  BY <1>2, <1>3, <1>5, <1>6 DEF SameAt
<1> QED
  BY <1>2, <1>7, <1>8, <1>9, CircuitsSame, OneExchangeMoves

LEMMA TickStep == ASSUME HttpInv, Tick PROVE HttpInv'
<1>1. TypeOK /\ UNCHANGED <<pc, key, mapped, route, status, headers, body, committed, sent, attempts, corpus,
                            circuits, contacts, budget, exhausted>>
      /\ now' = now + 1 /\ now' \in 0 .. MaxTime /\ now \in Nat
  <2>1. TypeOK /\ now \in 0 .. MaxTime /\ MaxTime \in Nat
    BY DEF HttpInv, TypeOK
  <2>2. now < MaxTime /\ now' = now + 1
    BY DEF Tick
  <2>3. UNCHANGED <<pc, key, mapped, route, status, headers, body, committed, sent, attempts, corpus,
                    circuits, contacts, budget, exhausted>>
    BY DEF Tick, local
  <2> QED
    BY <2>1, <2>2, <2>3
<1>2. TypeOK'
  BY <1>1 DEF TypeOK
<1>3. CircuitsOK' /\ StillExhausted
  BY <1>1 DEF HttpInv, CircuitsOK, CircuitsBounded, StillExhausted, TypeOK
<1>4. \A y \in Exchanges : SameAt(y)
  BY <1>1 DEF SameAt
<1>5. \A y \in Exchanges : ExchangeOK(y)'
  BY <1>1, <1>3, <1>4, SameOK DEF HttpInv
<1> QED
  BY <1>2, <1>3, <1>5 DEF HttpInv

\* The client gets what was buffered.
LEMMA ForwardStep ==
  ASSUME HttpInv, NEW x \in Exchanges, pc[x] = "buffer", Forward(x),
         mapped' \in [Exchanges -> BOOLEAN], \A y \in Exchanges \ {x} : mapped'[y] = mapped[y],
         budget' \in [Exchanges -> Seq([why : {"circuit", "exhausted"}, granted : BOOLEAN])],
         \A y \in Exchanges \ {x} : budget'[y] = budget[y],
         Len(budget'[x]) \in {0, 1}, UNCHANGED <<key, status, headers, corpus, now>>
  PROVE  HttpInv'
<1>1. TypeOK /\ ExchangeOK(x) /\ body[x] \in Seq(0 .. 2) /\ contacts[x] = <<"direct">>
  BY Values DEF HttpInv, ExchangeOK, Given
<1>2. UNCHANGED <<key, route, status, headers, body, attempts, corpus, circuits, now, contacts, exhausted>>
  BY DEF Forward
<1>3. /\ pc' \in [Exchanges -> {"new", "contact", "buffer", "stream", "record", "done"}]
      /\ committed' \in [Exchanges -> BOOLEAN] /\ sent' \in [Exchanges -> Chunks]
      /\ pc'[x] = "stream" /\ committed'[x] /\ sent'[x] = body[x]
      /\ \A y \in Exchanges \ {x} : pc'[y] = pc[y] /\ committed'[y] = committed[y] /\ sent'[y] = sent[y]
  BY <1>1 DEF Forward, TypeOK, Chunks
<1>4. TypeOK'
  BY <1>1, <1>2, <1>3 DEF TypeOK
<1>5. ExchangeOK(x)'
  <2>1. Asked(x)' /\ Tried(x)' /\ Recorded(x)'
    <3>1. Asked(x)' /\ Tried(x)'
      BY <1>1, <1>2, <1>3 DEF ExchangeOK, Asked, Tried
    <3>2. corpus'[x] = <<>>
      BY <1>1, <1>2 DEF ExchangeOK, Recorded
    <3> QED
      BY <1>3, <3>1, <3>2 DEF Recorded
  <2>2. Given(x)'
    BY <1>1, <1>2, <1>3 DEF ExchangeOK, Given
  <2>3. contacts[x] # <<"fallback">> /\ contacts[x] # <<"direct", "fallback">>
    BY <1>1, AskedShape, Tuples DEF ExchangeOK
  <2>4. Budgeted(x)'
    BY <1>1, <1>2, <1>3, <2>3 DEF Budgeted
  <2> QED
    BY <2>1, <2>2, <2>4 DEF ExchangeOK
<1>6. \A y \in Exchanges \ {x} : SameAt(y)
  BY <1>2, <1>3 DEF SameAt
<1> QED
  BY <1>2, <1>4, <1>5, <1>6, CircuitsSame, OneExchangeMoves

\* A key is marked exhausted: the table keeps its bound.
LEMMA MarkStep ==
  ASSUME HttpInv, NEW k \in Keys, MarkExhausted(k), UNCHANGED now,
         exhausted' = [exhausted EXCEPT ![k] = now + Cooldown]
  PROVE  /\ CircuitsOK' /\ StillExhausted /\ exhausted' \in [Keys -> Nat]
         /\ DOMAIN circuits' \subseteq Keys /\ \A j \in DOMAIN circuits' : circuits'[j] \in Nat
<1> DEFINE D == DOMAIN Unexpired
<1>1. D \subseteq DOMAIN circuits /\ \A j \in D : Unexpired[j] = circuits[j]
  BY DEF Unexpired, Without
<1>2. /\ IsFiniteSet(DOMAIN circuits) /\ Cardinality(DOMAIN circuits) <= MaxCircuits
      /\ MaxCircuits \in Nat \ {0}
  BY DEF HttpInv, CircuitsOK, CircuitsBounded
<1>3. IsFiniteSet(D) /\ Cardinality(D) <= MaxCircuits /\ Cardinality(D) \in Nat
  <2>1. IsFiniteSet(D) /\ Cardinality(D) <= Cardinality(DOMAIN circuits)
    BY <1>1, <1>2, FS_Subset
  <2>2. Cardinality(D) \in Nat /\ Cardinality(DOMAIN circuits) \in Nat
    BY <1>2, <2>1, FS_CardinalityType
  <2> QED
    BY <1>2, <2>1, <2>2
<1>4. PICK victims \in {{}} \cup {{v} : v \in D} :
        /\ IF k \notin D /\ Cardinality(D) >= MaxCircuits THEN \E v \in victims : TRUE ELSE victims = {}
        /\ circuits' = [j \in (D \ victims) \cup {k} |-> IF j = k THEN now + Cooldown ELSE Unexpired[j]]
  BY DEF MarkExhausted
<1>5. DOMAIN circuits' = (D \ victims) \cup {k}
  BY <1>4
<1>6. \A j \in DOMAIN circuits' : circuits'[j] = IF j = k THEN now + Cooldown ELSE circuits[j]
  BY <1>1, <1>4
<1> HIDE DEF D
<1>7. IsFiniteSet((D \ victims) \cup {k}) /\ Cardinality((D \ victims) \cup {k}) <= MaxCircuits
  <2>1. CASE k \in D
    <3>1. victims = {} /\ (D \ victims) \cup {k} = D
      BY <1>4, <2>1
    <3> QED
      BY <1>3, <3>1
  <2>2. CASE k \notin D /\ ~(Cardinality(D) >= MaxCircuits)
    <3>1. victims = {} /\ (D \ victims) \cup {k} = D \cup {k}
      BY <1>4, <2>2
    <3>2. IsFiniteSet(D \cup {k}) /\ Cardinality(D \cup {k}) = Cardinality(D) + 1
      BY <1>3, <2>2, FS_AddElement
    <3> QED
      BY <1>2, <1>3, <2>2, <3>1, <3>2
  <2>3. CASE k \notin D /\ Cardinality(D) >= MaxCircuits
    <3>1. PICK v \in D : victims = {v}
      BY <1>4, <2>3
    <3>2. IsFiniteSet(D \ {v}) /\ Cardinality(D \ {v}) = Cardinality(D) - 1
      BY <1>3, <3>1, FS_RemoveElement
    <3>3. k \notin D \ {v}
      BY <2>3
    <3>4. IsFiniteSet((D \ {v}) \cup {k}) /\ Cardinality((D \ {v}) \cup {k}) = Cardinality(D \ {v}) + 1
      BY <3>2, <3>3, FS_AddElement
    <3> QED
      BY <1>2, <1>3, <3>1, <3>2, <3>4
  <2> QED
    BY <2>1, <2>2, <2>3
<1>8. now \in Nat /\ Cooldown \in Nat /\ exhausted \in [Keys -> Nat]
  BY DEF HttpInv, TypeOK
<1>9. exhausted' \in [Keys -> Nat] /\ exhausted'[k] = now + Cooldown
      /\ \A j \in Keys \ {k} : exhausted'[j] = exhausted[j]
  BY <1>8
<1>10. DOMAIN circuits' \subseteq Keys /\ \A j \in DOMAIN circuits' : j # k => j \in DOMAIN circuits
  BY <1>1, <1>5 DEF HttpInv, TypeOK
<1>11. \A j \in DOMAIN circuits' : /\ circuits'[j] \in Nat /\ circuits'[j] = exhausted'[j]
                                   /\ circuits'[j] <= now + Cooldown
  BY <1>6, <1>8, <1>9, <1>10 DEF HttpInv, TypeOK, CircuitsOK, CircuitsBounded
<1>12. StillExhausted
  BY <1>8, <1>9 DEF StillExhausted
<1> QED
  BY <1>5, <1>7, <1>9, <1>10, <1>11, <1>12 DEF CircuitsOK, CircuitsBounded

LEMMA DecideStep == ASSUME HttpInv, NEW x \in Exchanges, Decide(x) PROVE HttpInv'
<1>1. TypeOK /\ ExchangeOK(x) /\ pc[x] = "buffer" /\ UNCHANGED <<key, status, headers, corpus, now>>
      /\ mapped \in [Exchanges -> BOOLEAN]
      /\ budget \in [Exchanges -> Seq([why : {"circuit", "exhausted"}, granted : BOOLEAN])]
  BY DEF HttpInv, Decide, TypeOK
<1>2. contacts[x] = <<"direct">> /\ mapped[x] /\ budget[x] = <<>> /\ ~committed[x] /\ sent[x] = <<>>
  <2>1. contacts[x] = <<"direct">> /\ mapped[x] /\ ~committed[x] /\ sent[x] = <<>>
    BY <1>1 DEF ExchangeOK, Given
  <2> QED
    BY <1>1, <2>1 DEF ExchangeOK, Budgeted
<1>3. CASE UNCHANGED <<mapped, budget>> /\ Forward(x)
  <2>1. Len(budget'[x]) \in {0, 1}
    BY <1>1, <1>3 DEF ExchangeOK, Budgeted
  <2> QED
    BY <1>1, <1>3, <2>1, ForwardStep
<1>4. ASSUME NEW yes \in BOOLEAN, Granted(x, "exhausted", yes), ~yes, Forward(x),
             mapped' = [mapped EXCEPT ![x] = FALSE]
      PROVE  HttpInv'
  <2>1. /\ budget' \in [Exchanges -> Seq([why : {"circuit", "exhausted"}, granted : BOOLEAN])]
        /\ Len(budget'[x]) \in {0, 1} /\ \A y \in Exchanges \ {x} : budget'[y] = budget[y]
    BY <1>1, <1>2, <1>4, GrantedStep
  <2> QED
    BY <1>1, <1>4, <2>1, ForwardStep
<1>5. ASSUME Granted(x, "exhausted", TRUE), Retry(x) PROVE HttpInv'
  <2>1. /\ budget' \in [Exchanges -> Seq([why : {"circuit", "exhausted"}, granted : BOOLEAN])]
        /\ Len(budget'[x]) \in {0, 1} /\ budget'[x] # <<>> /\ budget'[x][1].granted
        /\ \A y \in Exchanges \ {x} : budget'[y] = budget[y]
    BY <1>1, <1>2, <1>5, GrantedStep
  <2>2. key[x] \in Keys /\ MarkExhausted(key[x]) /\ exhausted' = [exhausted EXCEPT ![key[x]] = now + Cooldown]
    BY <1>1, <1>5, Values DEF Retry
  <2>3. /\ CircuitsOK' /\ StillExhausted /\ exhausted' \in [Keys -> Nat]
        /\ DOMAIN circuits' \subseteq Keys /\ \A j \in DOMAIN circuits' : circuits'[j] \in Nat
    BY <1>1, <2>2, MarkStep
  <2>4. /\ attempts' \in [Exchanges -> Seq(Attempt)] /\ \A y \in Exchanges \ {x} : attempts'[y] = attempts[y]
        /\ Len(attempts'[x]) = Len(attempts[x]) + 1 /\ attempts'[x] # <<>>
        /\ attempts'[x][Len(attempts[x]) + 1].class = "exhaustion"
        /\ ~attempts'[x][Len(attempts[x]) + 1].committed
        /\ attempts'[x][Len(attempts[x]) + 1].provider = route[x]
    BY <1>1, <1>5, OneMoreAttempt DEF Retry, Abandon
  <2>5. /\ pc' \in [Exchanges -> {"new", "contact", "buffer", "stream", "record", "done"}]
        /\ route' \in [Exchanges -> Routes] /\ contacts' \in [Exchanges -> Seq(Routes)]
        /\ body' \in [Exchanges -> Chunks]
        /\ pc'[x] = "contact" /\ route'[x] = "fallback" /\ body'[x] = <<>>
        /\ contacts'[x] = Append(contacts[x], "fallback")
        /\ \A y \in Exchanges \ {x} : /\ pc'[y] = pc[y] /\ route'[y] = route[y] /\ contacts'[y] = contacts[y]
                                      /\ body'[y] = body[y]
    <3>1. <<>> \in Chunks
      BY DEF Chunks
    <3>2. Append(contacts[x], "fallback") \in Seq(Routes)
      BY <1>1, Values DEF Routes
    <3> QED
      BY <1>1, <1>5, <3>1, <3>2 DEF Retry, Contact, Discard, TypeOK, Routes
  <2>6. contacts'[x] = <<"direct", "fallback">>
    <3> DEFINE two == Append(<<"direct">>, "fallback")
    <3>0. /\ two \in Seq(Routes) /\ Len(two) = 2 /\ two[1] = "direct" /\ two[2] = "fallback"
          /\ <<"direct", "fallback">> \in Seq(Routes)
      BY DEF Routes
    <3>1. two = <<"direct", "fallback">>
      <4> HIDE DEF two
      <4>1. \A i \in 1 .. 2 : i = 1 \/ i = 2
        OBVIOUS
      <4> QED
        BY <3>0, <4>1, Tuples, SeqEqual
    <3> QED
      BY <1>2, <2>5, <3>1, Zenon
  <2>7. UNCHANGED <<mapped, committed, sent>>
    BY <1>5 DEF Retry
  <2>8. TypeOK'
    BY <1>1, <2>1, <2>3, <2>4, <2>5, <2>7 DEF TypeOK
  <2>9. ExchangeOK(x)'
    <3>1. attempts[x] = <<>> /\ Len(attempts[x]) = 0 /\ route[x] = "direct"
      <4>1. Len(contacts[x]) = 1 /\ route[x] = "direct"
        BY <1>1, <1>2, AskedShape DEF ExchangeOK
      <4>2. Len(attempts[x]) = 0 /\ attempts[x] \in Seq(Attempt)
        BY <1>1, <4>1, Values DEF ExchangeOK, Tried
      <4> QED
        BY <4>1, <4>2
    <3>2. /\ Len(attempts'[x]) = 1 /\ attempts'[x][1].class = "exhaustion" /\ ~attempts'[x][1].committed
          /\ attempts'[x][1].provider = "direct"
      BY <2>4, <3>1
    <3>3. Len(contacts'[x]) = 2 /\ contacts'[x][1] = "direct" /\ contacts'[x][2] = "fallback"
      BY <2>6, Tuples
    <3>4. Asked(x)'
      BY <2>5, <2>6, <3>3 DEF Asked
    <3>5. Tried(x)'
      <4>1. \A i \in 1 .. Len(attempts'[x]) : i = 1
        BY <3>2
      <4> QED
        BY <2>4, <2>5, <2>6, <3>2, <3>3, <4>1 DEF Tried
    <3>6. Given(x)'
      BY <1>2, <2>5, <2>7 DEF Given
    <3>7. Budgeted(x)'
      <4>1. contacts'[x] # <<"direct">> /\ contacts'[x] # <<"fallback">>
        BY <2>6, Tuples
      <4> QED
        BY <2>1, <4>1 DEF Budgeted
    <3>8. Recorded(x)'
      <4>1. corpus'[x] = <<>>
        BY <1>1 DEF ExchangeOK, Recorded
      <4> QED
        BY <2>5, <4>1 DEF Recorded
    <3> QED
      BY <3>4, <3>5, <3>6, <3>7, <3>8 DEF ExchangeOK
  <2>10. \A y \in Exchanges \ {x} : SameAt(y)
    BY <1>1, <2>1, <2>4, <2>5, <2>7 DEF SameAt
  <2> QED
    BY <2>3, <2>8, <2>9, <2>10, OneExchangeMoves
<1> QED
  BY <1>3, <1>4, <1>5 DEF Decide

-----------------------------------------------------------------------------
LEMMA HttpInit == Init => HttpInv
<1> SUFFICES ASSUME Init PROVE HttpInv
  OBVIOUS
<1>1. PICK K \in SUBSET Keys :
        IsFiniteSet(K) /\ Cardinality(K) <= MaxCircuits /\ circuits \in [K -> 1 .. Cooldown]
  BY DEF Init
<1>2. DOMAIN circuits = K /\ \A k \in K : circuits[k] \in 1 .. Cooldown
  BY <1>1
<1>3. \A k \in K : circuits[k] \in Nat /\ circuits[k] <= Cooldown
  BY <1>2
<1>4. exhausted = [k \in Keys |-> IF k \in DOMAIN circuits THEN circuits[k] ELSE 0] /\ now = 0
  BY DEF Init
<1>5. CircuitsOK
  BY <1>1, <1>2, <1>3, <1>4 DEF CircuitsOK, CircuitsBounded
<1>6. exhausted \in [Keys -> Nat] /\ DOMAIN circuits \subseteq Keys
      /\ \A k \in DOMAIN circuits : circuits[k] \in Nat
  BY <1>1, <1>2, <1>3, <1>4
<1>7. TypeOK
  <2>1. \A S : <<>> \in Seq(S)
    OBVIOUS
  <2>2. body \in [Exchanges -> Chunks] /\ sent \in [Exchanges -> Chunks]
    BY <2>1 DEF Init, Chunks
  <2>3. attempts \in [Exchanges -> Seq(Attempt)] /\ contacts \in [Exchanges -> Seq(Routes)]
    BY <2>1 DEF Init
  <2> DEFINE Event == [attempts : Seq(Attempt), body : Chunks, final : Routes]
             Ask == [why : {"circuit", "exhausted"}, granted : BOOLEAN]
  <2>4. corpus \in [Exchanges -> Seq(Event)] /\ budget \in [Exchanges -> Seq(Ask)]
    <3> HIDE DEF Event, Ask
    <3> QED
      BY <2>1 DEF Init
  <2>5. /\ pc \in [Exchanges -> {"new", "contact", "buffer", "stream", "record", "done"}]
        /\ route \in [Exchanges -> Routes] /\ status \in [Exchanges -> Statuses]
        /\ headers \in [Exchanges -> 0 .. 2] /\ committed \in [Exchanges -> BOOLEAN]
        /\ key \in [Exchanges -> Keys] /\ mapped \in [Exchanges -> BOOLEAN] /\ now \in 0 .. MaxTime
    BY DEF Init, Routes, Statuses
  <2> QED
    BY <1>6, <2>2, <2>3, <2>4, <2>5 DEF TypeOK
<1>8. ASSUME NEW x \in Exchanges PROVE ExchangeOK(x)
  <2>1. /\ pc[x] = "new" /\ contacts[x] = <<>> /\ attempts[x] = <<>> /\ budget[x] = <<>> /\ body[x] = <<>>
        /\ sent[x] = <<>> /\ ~committed[x] /\ corpus[x] = <<>> /\ Len(<<>>) = 0
    BY DEF Init
  <2>2. <<>> # <<"direct">> /\ <<>> # <<"fallback">> /\ <<>> # <<"direct", "fallback">>
    BY Tuples
  <2>3. Asked(x) /\ Given(x) /\ Recorded(x)
    BY <2>1 DEF Asked, Given, Recorded
  <2>4. Tried(x) /\ Budgeted(x)
    BY <2>1, <2>2 DEF Tried, Budgeted
  <2> QED
    BY <2>3, <2>4 DEF ExchangeOK
<1> QED
  BY <1>5, <1>7, <1>8 DEF HttpInv

LEMMA HttpInvariant == Spec => []HttpInv
<1>1. HttpInv /\ [Next]_vars => HttpInv'
  <2> SUFFICES ASSUME HttpInv, [Next]_vars PROVE HttpInv'
    OBVIOUS
  <2>1. CASE UNCHANGED vars
    <3>1. UNCHANGED <<pc, key, mapped, route, status, headers, body, committed, sent, attempts, corpus, circuits,
                      now, contacts, budget, exhausted>>
      BY <2>1 DEF vars, local
    <3>2. TypeOK' /\ CircuitsOK' /\ StillExhausted
      BY <3>1 DEF HttpInv, TypeOK, CircuitsOK, CircuitsBounded, StillExhausted
    <3>3. \A y \in Exchanges : SameAt(y)
      BY <3>1 DEF SameAt
    <3> QED
      BY <3>2, <3>3, SameOK DEF HttpInv
  <2> QED
    BY <2>1, BeginStep, HeadersStep, BufferStep, DecideStep, StreamStep, FinishStep, FailStep, CaptureStep,
       CancelStep, TickStep DEF Next
<1> QED
  BY <1>1, HttpInit, PTL DEF Spec

\* RecordFaithful for any exchanges: the event tells whom the proxy asked, in order, and holds the
\* body that the client received.
THEOREM EventsAreFaithful == Spec => []RecordFaithful
<1>1. HttpInv => RecordFaithful
  <2> SUFFICES ASSUME HttpInv, NEW x \in Exchanges, NEW i \in DOMAIN corpus[x] PROVE EventTrue(x, corpus[x][i])
    BY DEF RecordFaithful, AttemptsMatchContacts, CaptureFidelity, EventTrue
  <2>1. i \in 1 .. Len(corpus[x])
    BY Values DEF HttpInv
  <2> QED
    BY <2>1 DEF HttpInv, ExchangeOK, Recorded
<1> QED
  BY <1>1, HttpInvariant, PTL

\* FallbackSafe for any exchanges, keys and clock: the fallback provider is asked once, after an
\* exhaustion and with the consent of the budget hook, and the table of circuits keeps its bound.
THEOREM FallbackIsSafe == Spec => []FallbackSafe
<1>1. ASSUME HttpInv, NEW x \in Exchanges
      PROVE  /\ Len(budget[x]) <= 1
             /\ "fallback" \in ToSet(contacts[x]) =>
                  /\ budget[x] # <<>> /\ budget[x][1].granted
                  /\ \/ contacts[x] = <<"fallback">> /\ exhausted[key[x]] > 0
                     \/ contacts[x] = <<"direct", "fallback">> /\ attempts[x][1].class = "exhaustion"
  <2>1. ExchangeOK(x) /\ Len(budget[x]) \in {0, 1}
    BY <1>1 DEF HttpInv, ExchangeOK, Budgeted
  <2>2. Len(budget[x]) <= 1
    <3>1. \A n \in {0, 1} : n <= 1
      OBVIOUS
    <3> QED
      BY <2>1, <3>1, Zenon
  <2>3. ASSUME "fallback" \in ToSet(contacts[x])
        PROVE  contacts[x] \in {<<"fallback">>, <<"direct", "fallback">>}
    <3>1. contacts[x] \in {<<>>, <<"direct">>, <<"fallback">>, <<"direct", "fallback">>}
      BY <2>1 DEF ExchangeOK, Asked
    <3>2. ToSet(<<>>) = {} /\ ToSet(<<"direct">>) = {"direct"}
      BY DEF ToSet
    <3> QED
      BY <2>3, <3>1, <3>2
  <2> QED
    BY <2>1, <2>2, <2>3 DEF ExchangeOK, Budgeted, Tried
<1>2. HttpInv => FallbackSafe
  BY <1>1 DEF HttpInv, CircuitsOK, FallbackSafe, FallbackAuthorised
<1> QED
  BY <1>2, HttpInvariant, PTL

\* OneAnswer for any exchanges: nothing is sent to a provider once the client has an answer, and
\* the client's bytes are all of the last attempt.
THEOREM AnswersAreOne == Spec => OneAnswer
<1>1. ASSUME HttpInv, HttpInv', [Next]_vars, NEW x \in Exchanges
      PROVE  /\ committed[x] => contacts'[x] = contacts[x]
             /\ \A i \in DOMAIN sent'[x] : sent'[x][i] \in {0, Len(contacts'[x])}
  <2>1. \A i \in DOMAIN sent'[x] : sent'[x][i] \in {0, Len(contacts'[x])}
    <3>1. sent'[x] \in Seq(0 .. 2)
      BY <1>1 DEF HttpInv, TypeOK, Chunks
    <3> QED
      BY <1>1, <3>1 DEF HttpInv, ExchangeOK, Given
  <2>2. ASSUME committed[x] PROVE contacts'[x] = contacts[x]
    <3>1. pc[x] \notin {"new", "contact", "buffer"}
      BY <1>1, <2>2 DEF HttpInv, ExchangeOK, Given
    <3>2. \A y \in Exchanges : Begin(y) \/ Decide(y) => pc[y] \in {"new", "buffer"} /\ y # x
      BY <3>1 DEF Begin, Decide
    <3>3. ASSUME NEW y \in Exchanges, Begin(y) \/ Decide(y) PROVE contacts'[x] = contacts[x]
      BY <1>1, <3>2, <3>3 DEF HttpInv, TypeOK, Begin, Decide, Contact, Forward, Retry
    <3>4. ASSUME NEW y \in Exchanges,
                 \/ Headers(y) \/ Buffer(y) \/ Stream(y) \/ Finish(y) \/ Fail(y) \/ Capture(y) \/ Cancel(y)
          PROVE  contacts'[x] = contacts[x]
      BY <3>4 DEF Headers, Buffer, Stream, Finish, Fail, Capture, Cancel
    <3>5. CASE Tick \/ UNCHANGED vars
      BY <3>5 DEF Tick, vars
    <3> QED
      BY <1>1, <3>3, <3>4, <3>5 DEF Next
  <2> QED
    BY <2>1, <2>2
<1>2. HttpInv /\ HttpInv' /\ [Next]_vars =>
        [\A x \in Exchanges :
           /\ committed[x] => contacts'[x] = contacts[x]
           /\ \A i \in DOMAIN sent'[x] : sent'[x][i] \in {0, Len(contacts'[x])}]_<<contacts, sent>>
  BY <1>1
<1> QED
  BY <1>2, HttpInvariant, PTL DEF Spec, OneAnswer

\* Who forgets an open circuit needed its room, and it expired first.
LEMMA MarkEvicts ==
  ASSUME HttpInv, NEW k \in Keys, MarkExhausted(k),
         NEW c \in DOMAIN circuits \ DOMAIN circuits', Open(c)
  PROVE  /\ Cardinality({j \in DOMAIN circuits : Open(j)}) = MaxCircuits
         /\ \A j \in DOMAIN circuits : Open(j) => circuits[c] <= circuits[j]
<1> DEFINE D == DOMAIN Unexpired
           O == {j \in DOMAIN circuits : Open(j)}
<1>1. now \in Nat /\ DOMAIN circuits \subseteq Keys /\ \A j \in DOMAIN circuits : circuits[j] \in Nat
  BY DEF HttpInv, TypeOK
<1>2. D = O /\ \A j \in D : Unexpired[j] = circuits[j]
  BY <1>1 DEF Unexpired, Without, Open
<1>3. PICK victims \in {{}} \cup {{v} : v \in D} :
        /\ IF k \notin D /\ Cardinality(D) >= MaxCircuits
             THEN \E v \in victims : \A w \in D : Unexpired[v] <= Unexpired[w]
             ELSE victims = {}
        /\ circuits' = [j \in (D \ victims) \cup {k} |-> IF j = k THEN now + Cooldown ELSE Unexpired[j]]
  BY DEF MarkExhausted
<1> HIDE DEF D, O
<1>4. c \in D /\ c \in victims
  BY <1>2, <1>3 DEF O
<1>5. /\ Cardinality(D) >= MaxCircuits /\ \A w \in D : Unexpired[c] <= Unexpired[w]
  BY <1>3, <1>4
<1>6. /\ IsFiniteSet(DOMAIN circuits) /\ Cardinality(DOMAIN circuits) <= MaxCircuits
      /\ MaxCircuits \in Nat \ {0}
  BY DEF HttpInv, CircuitsOK, CircuitsBounded
<1>7. Cardinality(O) <= MaxCircuits /\ Cardinality(O) \in Nat
  <2>1. IsFiniteSet(O) /\ Cardinality(O) <= Cardinality(DOMAIN circuits)
    BY <1>6, FS_Subset DEF O
  <2>2. Cardinality(O) \in Nat /\ Cardinality(DOMAIN circuits) \in Nat
    BY <1>6, <2>1, FS_CardinalityType
  <2> QED
    BY <1>6, <2>1, <2>2
<1>8. Cardinality(O) = MaxCircuits
  BY <1>2, <1>5, <1>6, <1>7
<1>9. \A j \in DOMAIN circuits : Open(j) => circuits[c] <= circuits[j]
  BY <1>2, <1>4, <1>5 DEF O
<1> QED
  BY <1>8, <1>9 DEF O

\* EvictsOnlyForRoom for any keys, clock and bound on the table: an open circuit is forgotten only
\* when the table is full of open ones, and then it is one that expires first.
THEOREM EvictionsMakeRoom == Spec => EvictsOnlyForRoom
<1>1. ASSUME HttpInv, [Next]_vars, NEW c \in DOMAIN circuits \ DOMAIN circuits', Open(c)
      PROVE  /\ Cardinality({j \in DOMAIN circuits : Open(j)}) = MaxCircuits
             /\ \A j \in DOMAIN circuits : Open(j) => circuits[c] <= circuits[j]
  <2>1. key \in [Exchanges -> Keys]
    BY <1>1 DEF HttpInv, TypeOK
  <2>2. ASSUME NEW x \in Exchanges, Begin(x) PROVE FALSE
    BY <1>1, <2>2 DEF Begin, CircuitOpen, Without, Open
  <2>3. ASSUME NEW x \in Exchanges,
               \/ Headers(x) \/ Buffer(x) \/ Stream(x) \/ Finish(x) \/ Fail(x) \/ Capture(x) \/ Cancel(x)
        PROVE  FALSE
    BY <1>1, <2>3 DEF Headers, Buffer, Stream, Finish, Fail, Capture, Cancel
  <2>4. CASE Tick \/ UNCHANGED vars
    BY <1>1, <2>4 DEF Tick, vars
  <2>5. ASSUME NEW x \in Exchanges, Decide(x)
        PROVE  /\ Cardinality({j \in DOMAIN circuits : Open(j)}) = MaxCircuits
               /\ \A j \in DOMAIN circuits : Open(j) => circuits[c] <= circuits[j]
    <3>1. MarkExhausted(key[x]) /\ key[x] \in Keys
      BY <1>1, <2>1, <2>5 DEF Decide, Forward, Retry
    <3> QED
      BY <1>1, <3>1, MarkEvicts
  <2> QED
    BY <1>1, <2>2, <2>3, <2>4, <2>5 DEF Next
<1>2. HttpInv /\ [Next]_vars =>
        [\A k \in DOMAIN circuits \ DOMAIN circuits' :
           Open(k) => /\ Cardinality({j \in DOMAIN circuits : Open(j)}) = MaxCircuits
                      /\ \A j \in DOMAIN circuits : Open(j) => circuits[k] <= circuits[j]]_circuits
  BY <1>1
<1> QED
  BY <1>2, HttpInvariant, PTL DEF Spec, EvictsOnlyForRoom, Open
=============================================================================
