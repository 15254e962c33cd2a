------------------------- MODULE ExpertAdapterProofs ------------------------
(***************************************************************************)
(* Proofs about ExpertAdapter for any requests and faults.                 *)
(***************************************************************************)
EXTENDS ExpertAdapter, SequenceTheorems, TLAPS

USE ExpertAdapterAssumption

\* The lock: one exchange at a time.
OneExchange == \A r, q \in Requests : pc[r] \in {"read", "kill"} /\ pc[q] \in {"read", "kill"} => r = q

\* Before the start there is no exchange, no child, and nothing in the pipes.
StartFirst ==
  ~started => /\ ~attached /\ child = "none" /\ stdin = <<>> /\ stdout = <<>> /\ closer = "open"
              /\ \A r \in Requests : pc[r] = "new"

\* Who is reading has no outcome, and a call that was cancelled has ended.
OutcomesFinal ==
  \A r \in Requests : /\ pc[r] \in {"new", "lock", "read"} => outcome[r] = "none"
                      /\ outcome[r] = "cancelled" => pc[r] = "done"

\* A child that was let go of is dead, killed, or close() is ending it.
LetGo == ~attached /\ closer \in {"open", "closed"} => child \in {"none", "killed", "dead"}

\* As long as no exchange was cancelled and the pipes are in use, the request in the input pipe
\* is that of the exchange that reads; then nothing but the rest of an overlong reply is in the
\* output pipe, and otherwise the last line may be the reply to that exchange.
Uncancelled == \A q \in Requests : outcome[q] # "cancelled"
InUse       == attached \/ \E r \in Requests : pc[r] = "read"
PipesInStep ==
  Uncancelled /\ InUse =>
    /\ stdin # <<>> => Len(stdin) = 1 /\ pc[stdin[1]] = "read"
    /\ \A k \in 1 .. Len(stdout) :
         stdout[k].form # "tail" => k = Len(stdout) /\ stdin = <<>> /\ pc[stdout[k].request] = "read"

\* Who queues for the lock waits for it, once.
QueueWaits ==
  /\ \A i \in 1 .. Len(lockq) : pc[lockq[i]] = "lock"
  /\ \A i, j \in 1 .. Len(lockq) : lockq[i] = lockq[j] => i = j

AdapterInv ==
  /\ TypeOK /\ OneExchange /\ StartFirst /\ OutcomesFinal /\ LetGo /\ PipesInStep
  /\ FailedSessionNotReused /\ MatchedReplies

-----------------------------------------------------------------------------
LEMMA TailElements ==
  ASSUME NEW S, NEW q \in Seq(S), q # <<>>
  PROVE  /\ Tail(q) \in Seq(S) /\ Head(q) = q[1] /\ Head(q) \in S /\ 1 \in 1 .. Len(q)
         /\ Len(Tail(q)) = Len(q) - 1
         /\ \A k \in 1 .. Len(Tail(q)) : k + 1 \in 1 .. Len(q) /\ Tail(q)[k] = q[k + 1]
OBVIOUS

LEMMA RemoveAtType ==
  ASSUME NEW S, NEW q \in Seq(S), NEW i \in DOMAIN q
  PROVE  /\ RemoveAt(q, i) \in Seq(S) /\ Len(RemoveAt(q, i)) = Len(q) - 1
         /\ \A k \in 1 .. Len(q) - 1 : RemoveAt(q, i)[k] = IF k < i THEN q[k] ELSE q[k + 1]
<1>1. i \in 1 .. Len(q) /\ Len(q) \in Nat /\ \A k \in 1 .. Len(q) : q[k] \in S
  OBVIOUS
<1> DEFINE front == SubSeq(q, 1, i - 1)
           back  == SubSeq(q, i + 1, Len(q))
<1>2. front \in Seq(S) /\ Len(front) = i - 1 /\ \A k \in 1 .. i - 1 : front[k] = q[k]
  BY <1>1, SubSeqProperties
<1>3. back \in Seq(S) /\ Len(back) = Len(q) - i /\ \A k \in 1 .. Len(q) - i : back[k] = q[k + i]
  BY <1>1, SubSeqProperties
<1>4. RemoveAt(q, i) = front \o back
  BY <1>1 DEF RemoveAt
<1> HIDE DEF front, back
<1>5. /\ front \o back \in Seq(S) /\ Len(front \o back) = Len(front) + Len(back)
      /\ \A k \in 1 .. Len(front) + Len(back) :
           (front \o back)[k] = IF k <= Len(front) THEN front[k] ELSE back[k - Len(front)]
  BY <1>2, <1>3, ConcatProperties
<1>6. ASSUME NEW k \in 1 .. Len(q) - 1 PROVE RemoveAt(q, i)[k] = IF k < i THEN q[k] ELSE q[k + 1]
  <2>1. CASE k < i
    BY <1>1, <1>2, <1>3, <1>4, <1>5, <2>1
  <2>2. CASE ~(k < i)
    <3>1. k - (i - 1) \in 1 .. Len(q) - i /\ (k - (i - 1)) + i = k + 1 /\ ~(k <= i - 1)
      BY <1>1, <2>2
    <3>2. k \in 1 .. Len(front) + Len(back) /\ ~(k <= Len(front)) /\ k - Len(front) = k - (i - 1)
      <4>1. Len(front) + Len(back) = Len(q) - 1
        BY <1>1, <1>2, <1>3
      <4> QED
        BY <1>2, <3>1, <4>1
    <3>3. (front \o back)[k] = back[k - (i - 1)]
      BY <1>5, <3>2
    <3> QED
      BY <1>3, <1>4, <2>2, <3>1, <3>3
  <2> QED
    BY <2>1, <2>2
<1> QED
  BY <1>1, <1>2, <1>3, <1>4, <1>5, <1>6

LEMMA LinesType ==
  ASSUME TypeOK
  PROVE  /\ stdout \in Seq([form : Forms, request : Requests])
         /\ \A k \in 1 .. Len(stdout) : stdout[k].request \in Requests
<1>1. \A l \in [form : Forms, request : Requests] : l.request \in Requests
  OBVIOUS
<1> DEFINE Line == [form : Forms, request : Requests]
<1>2. stdout \in Seq(Line)
  BY DEF TypeOK
<1> HIDE DEF Line
<1>3. \A k \in 1 .. Len(stdout) : stdout[k] \in Line
  BY <1>2
<1> QED
  BY <1>1, <1>2, <1>3 DEF Line

LEMMA AdapterInit == Init => AdapterInv
<1> SUFFICES ASSUME Init PROVE AdapterInv
  OBVIOUS
<1>1. TypeOK
  <2> DEFINE Line == [form : Forms, request : Requests]
  <2>1. \A S : <<>> \in Seq(S)
    OBVIOUS
  <2>2. stdout \in Seq(Line)
    <3> HIDE DEF Line
    <3> QED
      BY <2>1 DEF Init
  <2>3. lockq \in Seq(Requests) /\ stdin \in Seq(Requests)
    BY <2>1 DEF Init
  <2> QED
    BY <2>2, <2>3 DEF Init, TypeOK
<1>2. OneExchange /\ StartFirst /\ OutcomesFinal /\ LetGo
  BY DEF Init, OneExchange, StartFirst, OutcomesFinal, LetGo
<1>3. PipesInStep /\ FailedSessionNotReused /\ MatchedReplies
  BY DEF Init, PipesInStep, FailedSessionNotReused, MatchedReplies, Ambiguous
<1> QED
  BY <1>1, <1>2, <1>3 DEF AdapterInv

\* The exchange of r begins: the lock was free.
LEMMA EnterStep ==
  ASSUME AdapterInv, NEW r \in Requests, pc[r] \in {"new", "lock"}, started, ~Busy, Enter(r),
         lockq' \in Seq(Requests), UNCHANGED <<answer, started, attached, child, stdout, closer>>
  PROVE  AdapterInv'
<1> USE DEF AdapterInv
<1>1. \A q \in Requests : pc[q] \notin {"read", "kill"}
  BY DEF Busy
<1>2. outcome[r] = "none" /\ pc \in [Requests -> {"new", "lock", "read", "kill", "done"}]
  BY DEF OutcomesFinal, TypeOK
<1>3. CASE (~attached \/ child = "dead") /\ End(r, "down") /\ UNCHANGED stdin
  <2>1. /\ pc' \in [Requests -> {"new", "lock", "read", "kill", "done"}]
        /\ pc'[r] = "done" /\ outcome'[r] = "down"
        /\ \A q \in Requests : q # r => pc'[q] = pc[q] /\ outcome'[q] = outcome[q]
    BY <1>3 DEF End, TypeOK
  <2>2. TypeOK'
    BY <1>3, <2>1 DEF TypeOK, End
  <2>3. OneExchange' /\ StartFirst' /\ OutcomesFinal' /\ LetGo'
    BY <1>1, <2>1 DEF OneExchange, StartFirst, OutcomesFinal, LetGo
  <2>4. PipesInStep'
    <3>1. (Uncancelled' => Uncancelled) /\ (InUse' => InUse)
      BY <1>1, <1>2, <2>1 DEF Uncancelled, InUse
    <3>2. \A k \in 1 .. Len(stdin) : stdin[k] \in Requests
      BY DEF TypeOK
    <3>3. \A k \in 1 .. Len(stdout) : stdout[k].request \in Requests
      BY LinesType
    <3> QED
      BY <1>1, <1>3, <3>1, <3>2, <3>3 DEF PipesInStep, TypeOK
  <2>5. FailedSessionNotReused' /\ MatchedReplies'
    BY <1>2, <2>1 DEF FailedSessionNotReused, MatchedReplies, Ambiguous
  <2> QED
    BY <2>2, <2>3, <2>4, <2>5
<1>4. CASE attached /\ stdin' = Append(stdin, r) /\ pc' = [pc EXCEPT ![r] = "read"] /\ UNCHANGED outcome
  <2>1. /\ pc' \in [Requests -> {"new", "lock", "read", "kill", "done"}]
        /\ pc'[r] = "read" /\ \A q \in Requests : q # r => pc'[q] = pc[q]
    BY <1>2, <1>4
  <2>2. TypeOK'
    BY <1>4, <2>1 DEF TypeOK
  <2>3. OneExchange' /\ StartFirst' /\ OutcomesFinal' /\ LetGo'
    BY <1>1, <1>2, <1>4, <2>1 DEF OneExchange, StartFirst, OutcomesFinal, LetGo
  <2>4. PipesInStep'
    <3>1. ASSUME Uncancelled
          PROVE  stdin = <<>> /\ \A k \in 1 .. Len(stdout) : stdout[k].form = "tail"
      <4>1. \A k \in 1 .. Len(stdout) : stdout[k].request \in Requests
        BY LinesType
      <4>2. stdin # <<>> => stdin[1] \in Requests
        BY DEF TypeOK
      <4> QED
        BY <1>1, <1>4, <3>1, <4>1, <4>2 DEF PipesInStep, InUse
    <3>2. ASSUME Uncancelled PROVE stdin' = <<r>>
      BY <1>4, <3>1, <3>2
    <3> QED
      BY <1>4, <2>1, <3>1, <3>2 DEF PipesInStep, Uncancelled
  <2>5. FailedSessionNotReused' /\ MatchedReplies'
    BY <1>4 DEF FailedSessionNotReused, MatchedReplies
  <2> QED
    BY <2>2, <2>3, <2>4, <2>5
<1> QED
  BY <1>3, <1>4 DEF Enter

\* The exchange of r ends in an ambiguous way: nobody reads, and nobody will.
LEMMA InvalidateStep ==
  ASSUME AdapterInv, NEW r \in Requests, pc[r] = "read", NEW why \in Ambiguous, Invalidate(r, why),
         stdout' \in Seq([form : Forms, request : Requests]),
         UNCHANGED <<answer, lockq, started, stdin, closer>>
  PROVE  AdapterInv'
<1> USE DEF AdapterInv
<1>1. /\ pc' \in [Requests -> {"new", "lock", "read", "kill", "done"}]
      /\ pc'[r] = "kill" /\ outcome'[r] = why /\ ~attached' /\ child' \in {"dead", "killed"}
      /\ \A q \in Requests : q # r => pc'[q] = pc[q] /\ outcome'[q] = outcome[q]
  BY DEF Invalidate, TypeOK
<1>2. TypeOK'
  BY <1>1 DEF TypeOK, Invalidate
<1>3. \A q \in Requests : pc'[q] # "read"
  BY <1>1 DEF OneExchange
<1>4. started
  BY DEF StartFirst
<1>5. OneExchange' /\ StartFirst' /\ OutcomesFinal' /\ LetGo' /\ PipesInStep'
  BY <1>1, <1>3, <1>4 DEF OneExchange, StartFirst, OutcomesFinal, LetGo, PipesInStep, InUse, Ambiguous
<1>6. FailedSessionNotReused'
  BY <1>1 DEF FailedSessionNotReused
<1>7. MatchedReplies'
  <2>1. outcome[r] = "none" /\ why \notin {"ok", "rejected", "cancelled", "none"}
    BY DEF OutcomesFinal, Ambiguous
  <2>2. (\A q \in Requests : outcome'[q] # "cancelled") => \A q \in Requests : outcome[q] # "cancelled"
    BY <1>1, <2>1
  <2>3. \A q \in Requests : outcome'[q] \in {"ok", "rejected"} => q # r /\ outcome[q] = outcome'[q]
    BY <1>1, <2>1
  <2> QED
    BY <2>2, <2>3 DEF MatchedReplies
<1> QED
  BY <1>2, <1>5, <1>6, <1>7

LEMMA ReadStep == ASSUME AdapterInv, NEW r \in Requests, Read(r) PROVE AdapterInv'
<1> USE DEF AdapterInv
<1> DEFINE line == Head(stdout)
<1>1. pc[r] = "read" /\ stdout # <<>> /\ UNCHANGED <<lockq, started, stdin, closer>>
  BY DEF Read
<1>2. /\ Tail(stdout) \in Seq([form : Forms, request : Requests]) /\ line = stdout[1]
      /\ line \in [form : Forms, request : Requests] /\ 1 \in 1 .. Len(stdout)
      /\ Len(Tail(stdout)) = Len(stdout) - 1
  BY <1>1, TailElements DEF TypeOK
<1>3. CASE line.form \in {"garbage", "tail"} /\ Invalidate(r, "malformed") /\ stdout' = Tail(stdout) /\ UNCHANGED answer
  BY <1>1, <1>2, <1>3, InvalidateStep DEF Ambiguous
\* A reply, or an overlong one: it is the last line, and its own.
<1>4. ASSUME NEW how \in {"ok", "rejected", "overrun"}, line.form # "tail", End(r, how),
             \/ stdout' = Tail(stdout)
             \/ stdout' = <<[line EXCEPT !.form = "tail"]>> \o Tail(stdout),
             \/ answer' = [answer EXCEPT ![r] = {line.request}]
             \/ UNCHANGED answer /\ how = "overrun",
             UNCHANGED <<attached, child>>
      PROVE  AdapterInv'
  <2>1. /\ pc' \in [Requests -> {"new", "lock", "read", "kill", "done"}]
        /\ pc'[r] = "done" /\ outcome'[r] = how
        /\ \A q \in Requests : q # r => pc'[q] = pc[q] /\ outcome'[q] = outcome[q]
    BY <1>4 DEF End, TypeOK
  <2>2. stdout' \in Seq([form : Forms, request : Requests])
    <3>1. [line EXCEPT !.form = "tail"] \in [form : Forms, request : Requests]
      BY <1>2 DEF Forms
    <3> DEFINE rest == [line EXCEPT !.form = "tail"]
               Line == [form : Forms, request : Requests]
    <3>2. rest \in Line /\ Tail(stdout) \in Seq(Line)
      BY <1>2, <3>1
    <3>3. stdout' = Tail(stdout) \/ stdout' = <<rest>> \o Tail(stdout)
      BY <1>4
    <3> HIDE DEF line, rest, Line
    <3>4. <<rest>> \in Seq(Line)
      BY <3>2
    <3>5. stdout' \in Seq(Line)
      BY <3>2, <3>3, <3>4, ConcatProperties
    <3> QED
      BY <3>5 DEF Line
  <2>3. answer' \in [Requests -> SUBSET Requests] /\ \A q \in Requests : q # r => answer'[q] = answer[q]
    <3>1. line.request \in Requests
      BY <1>2
    <3> HIDE DEF line
    <3>2. {line.request} \in SUBSET Requests /\ answer \in [Requests -> SUBSET Requests]
      BY <3>1 DEF TypeOK
    <3>3. CASE answer' = [answer EXCEPT ![r] = {line.request}]
      BY <3>2, <3>3
    <3>4. CASE UNCHANGED answer
      BY <3>2, <3>4
    <3> QED
      BY <1>4, <3>3, <3>4
  <2>4. TypeOK'
    BY <1>1, <1>4, <2>1, <2>2, <2>3 DEF TypeOK, End
  <2>5. \A q \in Requests : pc'[q] \notin {"read", "kill"}
    BY <1>1, <2>1 DEF OneExchange
  <2>6. OneExchange' /\ StartFirst' /\ OutcomesFinal' /\ LetGo'
    BY <1>1, <1>4, <2>1, <2>5 DEF OneExchange, StartFirst, OutcomesFinal, LetGo
  <2>7. Uncancelled' => Uncancelled
    BY <1>1, <2>1 DEF Uncancelled, OutcomesFinal
  <2>8. ASSUME Uncancelled PROVE Len(stdout) = 1 /\ stdin = <<>> /\ line.request = r
    <3>1. InUse
      BY <1>1 DEF InUse
    <3>2. 1 = Len(stdout) /\ stdin = <<>> /\ pc[line.request] = "read"
      BY <1>2, <1>4, <2>8, <3>1 DEF PipesInStep
    <3> QED
      BY <1>1, <1>2, <3>2 DEF OneExchange
  <2>9. PipesInStep'
    <3>1. ASSUME Uncancelled
          PROVE  stdin' = <<>> /\ \A k \in 1 .. Len(stdout') : stdout'[k].form = "tail"
      <4>1. Tail(stdout) = <<>>
        <5>0. Len(stdout) = 1 /\ Len(Tail(stdout)) = Len(stdout) - 1
          BY <1>2, <2>8, <3>1
        <5>1. Len(Tail(stdout)) = 0
          BY <5>0
        <5> QED
          BY <1>2, <5>1, EmptySeq
      <4>2. CASE stdout' = Tail(stdout)
        BY <1>1, <2>8, <3>1, <4>1, <4>2
      <4>3. CASE stdout' = <<[line EXCEPT !.form = "tail"]>> \o Tail(stdout)
        <5> DEFINE rest == [line EXCEPT !.form = "tail"]
        <5>1. rest.form = "tail"
          BY <1>2
        <5>2. stdout' = <<rest>> \o <<>>
          BY <4>1, <4>3
        <5> HIDE DEF rest, line
        <5>3. stdout' = <<rest>>
          BY <5>2
        <5> QED
          BY <1>1, <2>8, <3>1, <5>1, <5>3
      <4> QED
        BY <1>4, <4>2, <4>3
    <3> QED
      BY <2>7, <3>1 DEF PipesInStep
  <2>10. FailedSessionNotReused'
    BY <1>4, <2>1 DEF FailedSessionNotReused, Ambiguous
  <2>11. MatchedReplies'
    <3>1. ASSUME Uncancelled', NEW q \in Requests, outcome'[q] \in {"ok", "rejected"}
          PROVE  answer'[q] = {q}
      <4>1. CASE q = r
        BY <1>4, <2>1, <2>7, <2>8, <3>1, <4>1 DEF TypeOK
      <4>2. CASE q # r
        BY <2>1, <2>3, <2>7, <3>1, <4>2 DEF MatchedReplies, Uncancelled
      <4> QED
        BY <4>1, <4>2
    <3> QED
      BY <3>1 DEF MatchedReplies, Uncancelled
  <2> QED
    BY <2>4, <2>6, <2>9, <2>10, <2>11
<1>5. CASE /\ line.form \in {"ok", "error"}
           /\ End(r, IF line.form = "ok" THEN "ok" ELSE "rejected")
           /\ answer' = [answer EXCEPT ![r] = {line.request}]
           /\ stdout' = Tail(stdout) /\ UNCHANGED <<attached, child>>
  <2>1. PICK how \in {"ok", "rejected"} : how = IF line.form = "ok" THEN "ok" ELSE "rejected"
    OBVIOUS
  <2> QED
    BY <1>4, <1>5, <2>1
<1>6. CASE /\ line.form = "long" /\ End(r, "overrun")
           /\ \/ stdout' = Tail(stdout)
              \/ stdout' = <<[line EXCEPT !.form = "tail"]>> \o Tail(stdout)
           /\ UNCHANGED <<answer, attached, child>>
  BY <1>4, <1>6
<1> QED
  BY <1>3, <1>5, <1>6 DEF Read

LEMMA RequestStep == ASSUME AdapterInv, NEW r \in Requests, Request(r) PROVE AdapterInv'
<1> USE DEF AdapterInv
<1>1. CASE ~Busy /\ lockq = <<>> /\ Enter(r) /\ UNCHANGED lockq
  BY <1>1, EnterStep DEF Request, TypeOK
<1>2. CASE /\ pc' = [pc EXCEPT ![r] = "lock"] /\ lockq' = Append(lockq, r)
           /\ UNCHANGED <<outcome, stdin>>
  <2>1. /\ pc' \in [Requests -> {"new", "lock", "read", "kill", "done"}] /\ pc[r] = "new"
        /\ pc'[r] = "lock" /\ \A q \in Requests : q # r => pc'[q] = pc[q]
    BY <1>2 DEF Request, TypeOK
  <2>2. UNCHANGED <<outcome, answer, started, attached, child, stdin, stdout, closer>> /\ started
    BY <1>2 DEF Request
  <2>3. TypeOK'
    BY <1>2, <2>1, <2>2 DEF TypeOK
  <2>4. OneExchange' /\ StartFirst' /\ OutcomesFinal' /\ LetGo'
    BY <2>1, <2>2 DEF OneExchange, StartFirst, OutcomesFinal, LetGo
  <2>5. PipesInStep'
    <3>1. \A q \in Requests : pc[q] = "read" <=> pc'[q] = "read"
      BY <2>1
    <3>2. \A k \in 1 .. Len(stdout) : stdout[k].request \in Requests
      BY LinesType
    <3>3. stdin # <<>> => stdin[1] \in Requests
      BY DEF TypeOK
    <3> QED
      BY <2>2, <3>1, <3>2, <3>3 DEF PipesInStep, Uncancelled, InUse
  <2>6. FailedSessionNotReused' /\ MatchedReplies'
    BY <2>2 DEF FailedSessionNotReused, MatchedReplies
  <2> QED
    BY <2>3, <2>4, <2>5, <2>6
<1> QED
  BY <1>1, <1>2 DEF Request

\* Who heads the queue waits for the lock.
LEMMA AcquireStep ==
  ASSUME AdapterInv, NEW r \in Requests, pc[r] = "lock", Acquire(r) PROVE AdapterInv'
<1> USE DEF AdapterInv
<1>1. Tail(lockq) \in Seq(Requests)
  BY TailElements DEF Acquire, TypeOK
<1>2. started
  BY DEF StartFirst
<1> QED
  BY <1>1, <1>2, EnterStep DEF Acquire

LEMMA QueueRequest ==
  ASSUME TypeOK, QueueWaits, NEW r \in Requests, Request(r) PROVE QueueWaits'
<1>1. CASE lockq = <<>> /\ UNCHANGED lockq
  BY <1>1 DEF QueueWaits
<1>2. CASE pc' = [pc EXCEPT ![r] = "lock"] /\ lockq' = Append(lockq, r)
  <2>1. pc[r] = "new" /\ \A q \in Requests : pc'[q] = IF q = r THEN "lock" ELSE pc[q]
    BY <1>2 DEF Request, TypeOK
  <2>2. lockq \in Seq(Requests)
    BY DEF TypeOK
  <2> QED
    BY <1>2, <2>1, <2>2 DEF QueueWaits
<1> QED
  BY <1>1, <1>2 DEF Request

LEMMA QueueAcquire ==
  ASSUME TypeOK, QueueWaits, NEW r \in Requests, Acquire(r) PROVE QueueWaits' /\ pc[r] = "lock"
<1>1. lockq \in Seq(Requests) /\ lockq # <<>> /\ Head(lockq) = r /\ lockq' = Tail(lockq)
  BY DEF Acquire, TypeOK
<1>2. /\ lockq[1] = r /\ 1 \in 1 .. Len(lockq) /\ Len(lockq') = Len(lockq) - 1 /\ Len(lockq) \in Nat
      /\ \A k \in 1 .. Len(lockq') : k + 1 \in 1 .. Len(lockq) /\ lockq'[k] = lockq[k + 1]
                                     /\ lockq[k + 1] \in Requests
  BY <1>1, TailElements
<1>3. \A q \in Requests : q # r => pc'[q] = pc[q]
  BY DEF Acquire, Enter, End, TypeOK
<1>4. \A k \in 1 .. Len(lockq') : lockq'[k] # r
  BY <1>2 DEF QueueWaits
<1> QED
  BY <1>2, <1>3, <1>4 DEF QueueWaits

LEMMA QueueCancel ==
  ASSUME TypeOK, QueueWaits, NEW r \in Requests, Cancel(r) PROVE QueueWaits'
<1>1. \A q \in Requests : q # r => pc'[q] = pc[q]
  BY DEF Cancel, End, TypeOK
<1>2. lockq \in Seq(Requests) /\ \A k \in 1 .. Len(lockq) : lockq[k] \in Requests
  BY DEF TypeOK
<1>3. CASE pc[r] # "lock" /\ UNCHANGED lockq
  BY <1>1, <1>2, <1>3 DEF QueueWaits
<1>4. ASSUME NEW i \in DOMAIN lockq, lockq[i] = r, lockq' = RemoveAt(lockq, i) PROVE QueueWaits'
  <2>1. i \in 1 .. Len(lockq) /\ Len(lockq) \in Nat /\ Len(lockq') = Len(lockq) - 1
    BY <1>2, <1>4, RemoveAtType
  <2>2. \A k \in 1 .. Len(lockq) - 1 : lockq'[k] = IF k < i THEN lockq[k] ELSE lockq[k + 1]
    BY <1>2, <1>4, RemoveAtType
  <2>3. \A k \in 1 .. Len(lockq') : lockq'[k] \in Requests /\ lockq'[k] # r /\ pc[lockq'[k]] = "lock"
    BY <1>2, <1>4, <2>1, <2>2 DEF QueueWaits
  <2>4. \A j, k \in 1 .. Len(lockq') : lockq'[j] = lockq'[k] => j = k
    BY <1>2, <2>1, <2>2 DEF QueueWaits
  <2> QED
    BY <1>1, <2>3, <2>4 DEF QueueWaits
<1> QED
  BY <1>3, <1>4 DEF Cancel

\* The other steps leave the queue, and whoever is in it.
LEMMA QueueOther ==
  ASSUME TypeOK, QueueWaits, lockq' = lockq, \A q \in Requests : pc[q] = "lock" => pc'[q] = "lock"
  PROVE  QueueWaits'
<1>1. \A k \in 1 .. Len(lockq) : lockq[k] \in Requests
  BY DEF TypeOK
<1> QED
  BY <1>1 DEF QueueWaits

\* An exchange that ends after a failure, or is cancelled: nothing else moves.
LEMMA RaiseStep == ASSUME AdapterInv, NEW r \in Requests, Raise(r) PROVE AdapterInv'
<1> USE DEF AdapterInv
<1>1. /\ pc' \in [Requests -> {"new", "lock", "read", "kill", "done"}] /\ pc[r] = "kill"
      /\ pc'[r] = "done" /\ \A q \in Requests : q # r => pc'[q] = pc[q]
  BY DEF Raise, TypeOK
<1>2. UNCHANGED <<outcome, answer, lockq, started, attached, child, stdin, stdout, closer>>
  BY DEF Raise, childVars
<1>3. TypeOK'
  BY <1>1, <1>2 DEF TypeOK
<1>4. OneExchange' /\ StartFirst' /\ OutcomesFinal' /\ LetGo'
  BY <1>1, <1>2 DEF OneExchange, StartFirst, OutcomesFinal, LetGo
<1>5. PipesInStep'
  <2>1. \A q \in Requests : pc[q] = "read" <=> pc'[q] = "read"
    BY <1>1
  <2>2. \A k \in 1 .. Len(stdout) : stdout[k].request \in Requests
    BY LinesType
  <2>3. stdin # <<>> => stdin[1] \in Requests
    BY DEF TypeOK
  <2> QED
    BY <1>2, <2>1, <2>2, <2>3 DEF PipesInStep, Uncancelled, InUse
<1>6. FailedSessionNotReused' /\ MatchedReplies'
  BY <1>2 DEF FailedSessionNotReused, MatchedReplies
<1> QED
  BY <1>3, <1>4, <1>5, <1>6

LEMMA CancelStep == ASSUME AdapterInv, NEW r \in Requests, Cancel(r) PROVE AdapterInv'
<1> USE DEF AdapterInv
<1>1. /\ pc' \in [Requests -> {"new", "lock", "read", "kill", "done"}] /\ pc[r] # "new"
      /\ pc'[r] = "done" /\ outcome'[r] = "cancelled"
      /\ \A q \in Requests : q # r => pc'[q] = pc[q] /\ outcome'[q] = outcome[q]
  BY DEF Cancel, End, TypeOK
<1>2. UNCHANGED <<answer, started, attached, child, stdin, stdout, closer>>
  BY DEF Cancel, childVars
<1>3. lockq' \in Seq(Requests)
  BY RemoveAtType DEF Cancel, TypeOK
<1>4. TypeOK'
  BY <1>1, <1>2, <1>3 DEF TypeOK, Cancel, End
<1>5. OneExchange' /\ StartFirst' /\ OutcomesFinal' /\ LetGo'
  BY <1>1, <1>2 DEF OneExchange, StartFirst, OutcomesFinal, LetGo
<1>6. PipesInStep' /\ FailedSessionNotReused' /\ MatchedReplies'
  BY <1>1, <1>2 DEF PipesInStep, Uncancelled, FailedSessionNotReused, MatchedReplies, Ambiguous
<1> QED
  BY <1>4, <1>5, <1>6

-----------------------------------------------------------------------------
\* The steps of start(), close() and the child leave the calls alone.
LEMMA CallsLeft ==
  ASSUME AdapterInv, UNCHANGED <<pc, outcome, answer, lockq>>
  PROVE  OneExchange' /\ OutcomesFinal' /\ MatchedReplies' /\ (Uncancelled' <=> Uncancelled)
BY DEF AdapterInv, OneExchange, OutcomesFinal, MatchedReplies, Uncancelled

\* Nothing is put into the pipes: what they hold stays in step with the calls.
LEMMA PipesLeft ==
  ASSUME AdapterInv, UNCHANGED <<pc, outcome, answer, lockq, stdin, stdout>>,
         attached' => (attached \/ (stdin = <<>> /\ stdout = <<>>))
  PROVE  PipesInStep'
<1>1. ASSUME stdin = <<>> /\ stdout = <<>> PROVE PipesInStep'
  <2>1. stdin' = <<>> /\ Len(stdout') = 0
    BY <1>1
  <2> QED
    BY <2>1 DEF PipesInStep
<1>2. ASSUME attached' => attached PROVE PipesInStep'
  BY <1>2 DEF AdapterInv, PipesInStep, Uncancelled, InUse
<1> QED
  BY <1>1, <1>2

LEMMA StartStep == ASSUME AdapterInv, Start PROVE AdapterInv'
<1> USE DEF AdapterInv
<1>1. UNCHANGED <<pc, outcome, answer, lockq, stdin, stdout, closer>> /\ started' /\ ~started
  BY DEF Start, reqVars
<1>2. /\ attached' \in BOOLEAN /\ child' \in {"none", "alive"} /\ (attached' \/ child' = "none")
      /\ stdin = <<>> /\ stdout = <<>> /\ \A r \in Requests : pc[r] = "new"
  <2>1. attached = FALSE /\ child = "none" /\ stdin = <<>> /\ stdout = <<>>
        /\ \A r \in Requests : pc[r] = "new"
    BY <1>1 DEF StartFirst, TypeOK
  <2>2. CASE attached' = TRUE /\ child' = "alive"
    BY <2>1, <2>2
  <2>3. CASE UNCHANGED <<attached, child>>
    BY <2>1, <2>3
  <2> QED
    BY <2>2, <2>3 DEF Start
<1>3. TypeOK'
  BY <1>1, <1>2 DEF TypeOK, Start
<1>4. StartFirst' /\ LetGo'
  BY <1>1, <1>2 DEF StartFirst, LetGo
<1>5. PipesInStep' /\ OneExchange' /\ OutcomesFinal' /\ MatchedReplies'
  BY <1>1, <1>2, CallsLeft, PipesLeft
<1>6. FailedSessionNotReused'
  BY <1>1, <1>2 DEF FailedSessionNotReused, OutcomesFinal, Ambiguous
<1> QED
  BY <1>3, <1>4, <1>5, <1>6

LEMMA CloseStep == ASSUME AdapterInv, Close \/ Escalate \/ Closed \/ Exit PROVE AdapterInv'
<1> USE DEF AdapterInv
<1>1. UNCHANGED <<pc, outcome, answer, lockq, stdin, stdout, started>> /\ (attached' => attached)
  BY DEF Close, Escalate, Closed, Exit, reqVars, childVars
<1>2. started
  BY DEF Close, Escalate, Closed, Exit, StartFirst
<1>3. TypeOK'
  BY <1>1 DEF TypeOK, Close, Escalate, Closed, Exit, childVars
<1>4. LetGo'
  BY DEF LetGo, TypeOK, Close, Escalate, Closed, Exit, childVars
<1>5. StartFirst' /\ FailedSessionNotReused'
  BY <1>1, <1>2 DEF StartFirst, FailedSessionNotReused, TypeOK
<1>6. PipesInStep' /\ OneExchange' /\ OutcomesFinal' /\ MatchedReplies'
  BY <1>1, CallsLeft, PipesLeft
<1> QED
  BY <1>3, <1>4, <1>5, <1>6

LEMMA ServeStep == ASSUME AdapterInv, Serve PROVE AdapterInv'
<1> USE DEF AdapterInv
<1> DEFINE Line == [form : Forms, request : Requests]
<1>1. /\ UNCHANGED <<pc, outcome, answer, lockq, started, attached, closer>>
      /\ child = "alive" /\ stdin # <<>> /\ stdin' = Tail(stdin)
  BY DEF Serve, reqVars
<1>2. PICK form \in Forms \ {"tail"} :
        \/ UNCHANGED stdout
        \/ stdout' = Append(stdout, [form |-> form, request |-> Head(stdin)])
  BY DEF Serve, Forms, FaultKinds
<1>3. Tail(stdin) \in Seq(Requests) /\ Head(stdin) = stdin[1] /\ Head(stdin) \in Requests
      /\ Len(Tail(stdin)) = Len(stdin) - 1
  BY <1>1, TailElements DEF TypeOK
<1>4. [form |-> form, request |-> Head(stdin)] \in Line
  BY <1>3
<1>5. stdout' \in Seq(Line)
  <2>1. stdout \in Seq(Line)
    BY DEF TypeOK
  <2> HIDE DEF Line
  <2> QED
    BY <1>2, <1>4, <2>1
<1>6. child' \in {"alive", "hung", "dead"}
  BY <1>1 DEF Serve
<1>7. TypeOK'
  BY <1>1, <1>3, <1>5, <1>6 DEF TypeOK
<1>8. started
  BY <1>1 DEF StartFirst
<1>9. StartFirst' /\ LetGo' /\ FailedSessionNotReused'
  BY <1>1, <1>8 DEF StartFirst, LetGo, FailedSessionNotReused
<1>10. OneExchange' /\ OutcomesFinal' /\ MatchedReplies'
  BY <1>1, CallsLeft
<1>11. PipesInStep'
  <2>1. ASSUME Uncancelled', InUse'
        PROVE  /\ stdin' = <<>>
               /\ \A k \in 1 .. Len(stdout') : stdout'[k].form # "tail" =>
                    k = Len(stdout') /\ pc'[stdout'[k].request] = "read"
    <3>1. Uncancelled /\ InUse
      BY <1>1, <2>1 DEF Uncancelled, InUse
    <3>2. Len(stdin) = 1 /\ pc[Head(stdin)] = "read"
          /\ \A k \in 1 .. Len(stdout) : stdout[k].form = "tail"
      BY <1>1, <1>3, <3>1 DEF PipesInStep
    <3>3. stdin' = <<>>
      <4>1. Len(Tail(stdin)) = 0
        BY <1>3, <3>2
      <4> QED
        BY <1>1, <1>3, <4>1, EmptySeq
    <3>4. CASE UNCHANGED stdout
      BY <3>2, <3>3, <3>4
    <3>5. CASE stdout' = Append(stdout, [form |-> form, request |-> Head(stdin)])
      <4> DEFINE reply == [form |-> form, request |-> Head(stdin)]
      <4>1. reply.request = Head(stdin) /\ stdout \in Seq(Line) /\ reply \in Line
        BY <1>4 DEF TypeOK
      <4> HIDE DEF reply, Line
      <4>2. Len(stdout') = Len(stdout) + 1 /\ Len(stdout) \in Nat /\ stdout'[Len(stdout) + 1] = reply
            /\ \A k \in 1 .. Len(stdout) : stdout'[k] = stdout[k]
        BY <3>5, <4>1 DEF reply
      <4> QED
        BY <1>1, <3>2, <3>3, <4>1, <4>2
    <3> QED
      BY <1>2, <3>4, <3>5
  <2> QED
    BY <2>1 DEF PipesInStep
<1> QED
  BY <1>7, <1>9, <1>10, <1>11

\* One step of Next for each step of the proof.
LEMMA AdapterStep == AdapterInv /\ QueueWaits /\ [Next]_vars => AdapterInv' /\ QueueWaits'
<1> SUFFICES ASSUME AdapterInv, QueueWaits, [Next]_vars PROVE AdapterInv' /\ QueueWaits'
  OBVIOUS
<1>0. TypeOK
  BY DEF AdapterInv
<1>1. ASSUME NEW r \in Requests, Request(r) PROVE AdapterInv' /\ QueueWaits'
  BY <1>0, <1>1, RequestStep, QueueRequest
<1>2. ASSUME NEW r \in Requests, Acquire(r) PROVE AdapterInv' /\ QueueWaits'
  BY <1>0, <1>2, AcquireStep, QueueAcquire
<1>3. ASSUME NEW r \in Requests, Read(r) PROVE AdapterInv' /\ QueueWaits'
  <2>1. pc[r] # "lock" /\ lockq' = lockq /\ \A q \in Requests : q # r => pc'[q] = pc[q]
    BY <1>0, <1>3 DEF Read, End, Invalidate, TypeOK
  <2> QED
    BY <1>0, <1>3, <2>1, ReadStep, QueueOther
<1>4. ASSUME NEW r \in Requests, ReadEnd(r) \/ Timeout(r) PROVE AdapterInv' /\ QueueWaits'
  <2>1. pc[r] = "read" /\ UNCHANGED <<answer, lockq, started, stdin, stdout, closer>>
    BY <1>4 DEF ReadEnd, Timeout
  <2>2. PICK why \in Ambiguous : Invalidate(r, why)
    BY <1>4 DEF ReadEnd, Timeout, Ambiguous
  <2>3. \A q \in Requests : q # r => pc'[q] = pc[q]
    BY <1>0, <2>2 DEF Invalidate, TypeOK
  <2>4. stdout' \in Seq([form : Forms, request : Requests])
    BY <1>0, <2>1 DEF TypeOK
  <2> QED
    BY <1>0, <2>1, <2>2, <2>3, <2>4, InvalidateStep, QueueOther
<1>5. ASSUME NEW r \in Requests, Raise(r) PROVE AdapterInv' /\ QueueWaits'
  <2>1. pc[r] # "lock" /\ lockq' = lockq /\ \A q \in Requests : q # r => pc'[q] = pc[q]
    BY <1>0, <1>5 DEF Raise, TypeOK
  <2> QED
    BY <1>0, <1>5, <2>1, RaiseStep, QueueOther
<1>6. ASSUME NEW r \in Requests, Cancel(r) PROVE AdapterInv' /\ QueueWaits'
  BY <1>0, <1>6, CancelStep, QueueCancel
<1>7. CASE Start
  BY <1>0, <1>7, StartStep, QueueOther DEF Start, reqVars
<1>8. CASE Close \/ Escalate \/ Closed \/ Exit
  BY <1>0, <1>8, CloseStep, QueueOther DEF Close, Escalate, Closed, Exit, reqVars
<1>9. CASE Serve
  BY <1>0, <1>9, ServeStep, QueueOther DEF Serve, reqVars
<1>10. CASE UNCHANGED vars
  <2>1. UNCHANGED <<pc, outcome, answer, lockq, started, attached, child, stdin, stdout, closer>>
    BY <1>10 DEF vars, reqVars, childVars
  <2>2. TypeOK' /\ StartFirst' /\ LetGo' /\ FailedSessionNotReused'
    BY <2>1 DEF AdapterInv, TypeOK, StartFirst, LetGo, FailedSessionNotReused
  <2> QED
    BY <1>0, <2>1, <2>2, CallsLeft, PipesLeft, QueueOther DEF AdapterInv
<1> QED
  BY <1>1, <1>2, <1>3, <1>4, <1>5, <1>6, <1>7, <1>8, <1>9, <1>10 DEF Next

LEMMA AdapterInvariant == Spec => [](AdapterInv /\ QueueWaits)
<1>1. Init => AdapterInv /\ QueueWaits
  BY AdapterInit DEF Init, QueueWaits
<1> QED
  BY <1>1, AdapterStep, PTL DEF Spec

\* MatchedReplies for any calls and any faults: unless a call was cancelled, the reply a call of
\* _request takes was computed for it, although replies carry no id.
THEOREM RepliesMatch == Spec => []MatchedReplies
<1>1. AdapterInv /\ QueueWaits => MatchedReplies
  BY DEF AdapterInv
<1> QED
  BY <1>1, AdapterInvariant, PTL

\* SessionsSafe for any calls and any faults: the state is well formed, an ambiguous failure ends
\* the session, and a child that _invalidate or close let go of is killed or dead.
THEOREM SessionsAreSafe == Spec => []SessionsSafe
<1>1. AdapterInv /\ QueueWaits => SessionsSafe
  BY DEF AdapterInv, SessionsSafe, NoOrphans, LetGo
<1> QED
  BY <1>1, AdapterInvariant, PTL
=============================================================================
