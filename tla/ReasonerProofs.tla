--------------------------- MODULE ReasonerProofs ---------------------------
(***************************************************************************)
(* Proofs about Reasoner for any requests, faults and number of sessions.  *)
(***************************************************************************)
EXTENDS Reasoner, TLAPS

USE ReasonerAssumption

\* A request in flight has the latest id of the session in the slot.
InFlight ==
  host # "idle" => /\ session # 0 /\ outcome[current] = "asked"
                   /\ id[current] = <<session, sequence>>

\* Ids are given out in order: none is beyond the session and sequence of the slot.
IdsInOrder ==
  /\ session <= launched
  /\ \A r \in Requests :
       /\ id[r][1] <= launched
       /\ session # 0 /\ id[r][1] = session => id[r][2] <= sequence
       /\ outcome[r] \in {"new", "unavailable"} => id[r] = NoId

\* So no two requests share one.
IdsUnique == \A r, q \in Requests : id[r] = id[q] /\ id[r] # NoId => r = q

\* A worker has only requests that were asked, and a line carries the id of the request that
\* it was computed for.
PipesHonest ==
  \A s \in Sessions :
    /\ \A k \in 1 .. Len(input[s]) : outcome[input[s][k]] # "new"
    /\ \A k \in 1 .. Len(output[s]) :
         /\ outcome[output[s][k].request] # "new"
         /\ output[s][k].id = id[output[s][k].request]

\* Only the worker in the slot runs.
SlotRuns == \A s \in Sessions : Running(s) => s = session

\* The session of a failed exchange has left the slot for good, and the exchange was its last.
FailedLeftSlot ==
  \A r \in Requests : outcome[r] \in Failures => id[r][1] # 0 /\ id[r][1] # session

ReasonerInv ==
  /\ TypeOK /\ InFlight /\ IdsInOrder /\ IdsUnique /\ PipesHonest /\ SlotRuns
  /\ FailedLeftSlot /\ FailedWorkerNotReused /\ CorrelatedReplies

-----------------------------------------------------------------------------
LEMMA TailElements ==
  ASSUME NEW S, NEW q \in Seq(S), q # <<>>
  PROVE  /\ Tail(q) \in Seq(S) /\ Head(q) = q[1] /\ 1 \in 1 .. Len(q)
         /\ \A k \in 1 .. Len(Tail(q)) : k + 1 \in 1 .. Len(q) /\ Tail(q)[k] = q[k + 1]
OBVIOUS

LEMMA SlotBounds ==
  ASSUME TypeOK, IdsInOrder
  PROVE  /\ session \in 0 .. MaxSessions /\ launched \in 0 .. MaxSessions /\ sequence \in Nat
         /\ session <= launched /\ (session # 0 => session \in Sessions)
BY DEF TypeOK, IdsInOrder, Sessions

LEMMA PipeTypes ==
  ASSUME TypeOK, NEW s \in Sessions
  PROVE  /\ input[s] \in Seq(Requests) /\ \A k \in 1 .. Len(input[s]) : input[s][k] \in Requests
         /\ output[s] \in Seq(Line)
         /\ \A k \in 1 .. Len(output[s]) : output[s][k] \in Line /\ output[s][k].request \in Requests
<1>1. input[s] \in Seq(Requests) /\ output[s] \in Seq(Line)
  BY DEF TypeOK
<1>2. \A l \in Line : l.request \in Requests
  BY DEF Line
<1> QED
  BY <1>1, <1>2

LEMMA ReasonerInit == Init => ReasonerInv
<1> SUFFICES ASSUME Init PROVE ReasonerInv
  OBVIOUS
<1>1. TypeOK
  BY DEF Init, TypeOK, NoId, Sessions
<1>2. InFlight /\ IdsInOrder /\ IdsUnique
  BY DEF Init, InFlight, IdsInOrder, IdsUnique, NoId
<1>3. PipesHonest /\ SlotRuns
  BY DEF Init, PipesHonest, SlotRuns, Running
<1>4. FailedLeftSlot /\ FailedWorkerNotReused /\ CorrelatedReplies
  BY DEF Init, FailedLeftSlot, FailedWorkerNotReused, CorrelatedReplies, Failures
<1> QED
  BY <1>1, <1>2, <1>3, <1>4 DEF ReasonerInv

\* A new id: of the session in the slot, or of a new session.
LEMMA NewId ==
  ASSUME ReasonerInv, NEW r \in Requests, outcome[r] = "new", NEW s \in Sessions, NEW n \in Nat \ {0},
         (s = session /\ n = sequence + 1) \/ (s = launched + 1 /\ n = 1),
         id' = [id EXCEPT ![r] = <<s, n>>], NEW how \in {"asked", "pipe"},
         outcome' = [outcome EXCEPT ![r] = how]
  PROVE  /\ IdsUnique'
         /\ id' \in [Requests -> Nat \X Nat] /\ id'[r] = <<s, n>>
         /\ \A q \in Requests : q # r => id'[q] = id[q] /\ outcome'[q] = outcome[q]
         /\ outcome'[r] = how
         /\ \A q \in Requests : id[q][1] = s => id[q][2] < n
<1> USE DEF ReasonerInv
<1>1. id' \in [Requests -> Nat \X Nat] /\ id'[r] = <<s, n>> /\ outcome'[r] = how
      /\ \A q \in Requests : q # r => id'[q] = id[q] /\ outcome'[q] = outcome[q]
  BY DEF TypeOK, Sessions
<1>2. \A q \in Requests : id[q][1] = s => id[q][2] < n
  BY DEF TypeOK, Sessions, IdsInOrder, NoId
<1>3. ASSUME NEW q \in Requests, id[q] = <<s, n>> PROVE FALSE
  <2>1. id[q][1] = s /\ id[q][2] = n
    BY <1>3
  <2> QED
    BY <1>2, <2>1
<1> QED
  BY <1>1, <1>2, <1>3 DEF IdsUnique

\* A launch: no other worker runs.
LEMMA LaunchSlot ==
  ASSUME TypeOK, IdsInOrder, SlotRuns, NEW state \in {"alive", "dead"}, Launch(state)
  PROVE  /\ SlotRuns' /\ session' = launched' /\ launched' = launched + 1
         /\ session' \in Sessions /\ worker' \in [Sessions -> {"none", "alive", "hung", "dead"}]
<1>1. \A s \in Sessions : ~Running(s)
  BY SlotBounds DEF SlotRuns, Launch, Live, Sessions
<1>2. session' = launched + 1 /\ launched' = launched + 1 /\ session' \in Sessions
      /\ worker' = [worker EXCEPT ![launched + 1] = state]
  BY SlotBounds DEF Launch, Sessions
<1>3. worker' \in [Sessions -> {"none", "alive", "hung", "dead"}]
      /\ \A s \in Sessions : s # session' => worker'[s] = worker[s]
  BY <1>2 DEF TypeOK
<1> QED
  BY <1>1, <1>2, <1>3 DEF SlotRuns, Running

\* The request is written to the worker of session s.
LEMMA SendStep ==
  ASSUME ReasonerInv, NEW r \in Requests, host = "idle", outcome[r] = "new",
         NEW s \in Sessions, NEW n \in Nat \ {0}, Send(r, s, n),
         \/ s = session /\ n = sequence + 1 /\ UNCHANGED <<session, launched, worker>>
         \/ s = launched + 1 /\ n = 1 /\ Launch("alive")
  PROVE  ReasonerInv'
<1> USE DEF ReasonerInv
<1>1. /\ IdsUnique'
      /\ id' \in [Requests -> Nat \X Nat] /\ id'[r] = <<s, n>>
      /\ \A q \in Requests : q # r => id'[q] = id[q] /\ outcome'[q] = outcome[q]
      /\ outcome'[r] = "asked"
      /\ \A q \in Requests : id[q][1] = s => id[q][2] < n
  <2>1. \E how \in {"asked", "pipe"} : how = "asked" /\ outcome' = [outcome EXCEPT ![r] = how]
    BY DEF Send
  <2>2. (s = session /\ n = sequence + 1) \/ (s = launched + 1 /\ n = 1)
    OBVIOUS
  <2>3. id' = [id EXCEPT ![r] = <<s, n>>]
    BY DEF Send
  <2> QED
    BY <2>1, <2>2, <2>3, NewId
<1>2. session' = s /\ sequence' = n /\ session' \in Sessions /\ launched' \in 0 .. MaxSessions
      /\ session <= launched' /\ session' <= launched' /\ launched <= launched'
  <2>1. CASE s = session /\ n = sequence + 1 /\ UNCHANGED <<session, launched, worker>>
    BY <2>1, SlotBounds DEF Send, Sessions
  <2>2. CASE s = launched + 1 /\ n = 1 /\ Launch("alive")
    BY <2>2, SlotBounds DEF Send, Launch, Sessions
  <2> QED
    BY <2>1, <2>2
<1>3. /\ worker' \in [Sessions -> {"none", "alive", "hung", "dead"}]
      /\ input' \in [Sessions -> Seq(Requests)]
  <2>1. worker' \in [Sessions -> {"none", "alive", "hung", "dead"}]
    BY DEF Launch, TypeOK
  <2>2. Append(input[s], r) \in Seq(Requests)
    BY PipeTypes
  <2> QED
    BY <2>1, <2>2 DEF Send, TypeOK
<1>4. TypeOK'
  BY <1>1, <1>2, <1>3 DEF TypeOK, Send
<1>5. InFlight'
  BY <1>1, <1>2 DEF InFlight, Send, Sessions
<1>6. IdsInOrder'
  <2>1. \A q \in Requests : q # r /\ id[q][1] = s => id[q][2] <= n
    BY <1>1 DEF TypeOK
  <2>2. \A q \in Requests : id[q][1] <= launched'
    <3>1. \A q \in Requests : id[q][1] \in Nat /\ id[q][1] <= launched
      BY DEF IdsInOrder, TypeOK
    <3> QED
      BY <1>2, <3>1, SlotBounds
  <2>3. id'[r][1] = s /\ id'[r][2] = n /\ s <= launched' /\ n <= n
    BY <1>1, <1>2
  <2>4. \A q \in Requests : outcome'[q] \in {"new", "unavailable"} => id'[q] = NoId
    BY <1>1 DEF IdsInOrder
  <2>5. \A q \in Requests : id'[q][1] <= launched'
    BY <1>1, <2>2, <2>3
  <2>6. \A q \in Requests : id'[q][1] = s => id'[q][2] <= n
    BY <1>1, <2>1, <2>3
  <2> QED
    BY <1>2, <2>4, <2>5, <2>6 DEF IdsInOrder
<1>7. PipesHonest'
  <2>1. ASSUME NEW t \in Sessions, NEW k \in 1 .. Len(input'[t]) PROVE outcome'[input'[t][k]] # "new"
    <3>1. input'[t][k] = r \/ (k \in 1 .. Len(input[t]) /\ input'[t][k] = input[t][k] /\ input[t][k] \in Requests)
      <4>1. CASE t = s
        <5>1. input'[s] = Append(input[s], r)
          BY DEF Send, TypeOK
        <5> QED
          BY <2>1, <4>1, <5>1, PipeTypes
      <4>2. CASE t # s
        <5>1. input'[t] = input[t]
          BY <4>2 DEF Send, TypeOK
        <5> QED
          BY <2>1, <5>1, PipeTypes
      <4> QED
        BY <4>1, <4>2
    <3> QED
      BY <1>1, <3>1 DEF PipesHonest
  <2>2. ASSUME NEW t \in Sessions, NEW k \in 1 .. Len(output[t])
        PROVE  /\ outcome'[output[t][k].request] # "new"
               /\ output[t][k].id = id'[output[t][k].request]
    <3>1. output[t][k].request \in Requests
      BY <2>2, PipeTypes
    <3> QED
      BY <1>1, <2>2, <3>1 DEF PipesHonest
  <2> QED
    BY <2>1, <2>2 DEF PipesHonest, Send
<1>8. SlotRuns'
  <2>1. CASE s = session /\ n = sequence + 1 /\ UNCHANGED <<session, launched, worker>>
    BY <2>1 DEF SlotRuns, Running
  <2>2. CASE s = launched + 1 /\ n = 1 /\ Launch("alive")
    BY <2>2, LaunchSlot
  <2> QED
    BY <2>1, <2>2
<1>9. FailedLeftSlot'
  <2>1. \A q \in Requests : outcome[q] \in Failures => id[q][1] # s
    BY DEF FailedLeftSlot, IdsInOrder, TypeOK
  <2> QED
    BY <1>1, <1>2, <2>1 DEF FailedLeftSlot, Failures
<1>10. FailedWorkerNotReused'
  <2>1. \A q \in Requests : outcome[q] \in Failures => id[q][1] # s
    BY DEF FailedLeftSlot, IdsInOrder, TypeOK
  <2> QED
    BY <1>1, <2>1 DEF FailedWorkerNotReused, Failures
<1>11. CorrelatedReplies'
  BY <1>1 DEF CorrelatedReplies, Send
<1> QED
  BY <1>1, <1>4, <1>5, <1>6, <1>7, <1>8, <1>9, <1>10, <1>11

LEMMA AskStep == ASSUME ReasonerInv, NEW r \in Requests, Ask(r) PROVE ReasonerInv'
<1> USE DEF ReasonerInv
<1>1. host = "idle" /\ outcome[r] = "new" /\ outcome \in [Requests -> {"new", "asked", "ok", "unavailable"} \cup Failures]
  BY DEF Ask, TypeOK
<1>2. CASE Live /\ Send(r, session, sequence + 1) /\ UNCHANGED <<session, launched, worker>>
  <2>1. session \in Sessions /\ sequence + 1 \in Nat \ {0}
    BY <1>2, SlotBounds DEF Live
  <2> QED
    BY <1>1, <1>2, <2>1, SendStep
<1>3. CASE Launch("alive") /\ Send(r, launched + 1, 1)
  <2>1. launched + 1 \in Sessions
    BY <1>3 DEF Launch, TypeOK, Sessions
  <2> QED
    BY <1>1, <1>3, <2>1, SendStep
<1>4. CASE /\ \/ ~Live /\ UNCHANGED <<session, launched, worker, sequence>>
              \/ Launch("dead") /\ sequence' = 0
           /\ outcome' = [outcome EXCEPT ![r] = "unavailable"]
           /\ UNCHANGED <<host, current, input, output, answer, id>>
  <2>1. /\ outcome'[r] = "unavailable" /\ id[r] = NoId
        /\ \A q \in Requests : q # r => outcome'[q] = outcome[q]
    BY <1>1, <1>4 DEF IdsInOrder
  <2>2. TypeOK'
    <3>1. /\ outcome' \in [Requests -> {"new", "asked", "ok", "unavailable"} \cup Failures]
          /\ UNCHANGED <<host, current, input, output, answer, id>>
      BY <1>1, <1>4
    <3>2. /\ session' \in 0 .. MaxSessions /\ launched' \in 0 .. MaxSessions /\ sequence' \in Nat
          /\ worker' \in [Sessions -> {"none", "alive", "hung", "dead"}]
      <4>1. CASE UNCHANGED <<session, launched, worker, sequence>>
        BY <4>1 DEF TypeOK
      <4>2. CASE Launch("dead") /\ sequence' = 0
        BY <4>2, LaunchSlot DEF Sessions
      <4> QED
        BY <1>4, <4>1, <4>2
    <3> QED
      BY <3>1, <3>2 DEF TypeOK
  <2>3. InFlight' /\ IdsUnique'
    BY <1>1, <1>4 DEF InFlight, IdsUnique
  <2>4. IdsInOrder' /\ FailedLeftSlot'
    <3>1. \A q \in Requests : id[q][1] \in Nat /\ id[q][1] <= launched
      BY DEF IdsInOrder, TypeOK
    <3>2. CASE UNCHANGED <<session, launched, worker, sequence>>
      BY <1>4, <2>1, <3>2 DEF IdsInOrder, FailedLeftSlot, Failures
    <3>3. CASE Launch("dead")
      <4>1. session' = launched + 1 /\ launched' = launched + 1 /\ launched \in Nat
        BY <3>3, SlotBounds DEF Launch
      <4>2. \A q \in Requests : id[q][1] <= launched' /\ id[q][1] # session'
        BY <3>1, <4>1
      <4> QED
        BY <1>4, <2>1, <4>1, <4>2 DEF IdsInOrder, FailedLeftSlot, Failures
    <3> QED
      BY <1>4, <3>2, <3>3
  <2>5. PipesHonest'
    <3>1. \A q \in Requests : outcome[q] # "new" => outcome'[q] # "new"
      BY <2>1
    <3> QED
      BY <1>4, <3>1, PipeTypes DEF PipesHonest
  <2>6. SlotRuns'
    BY <1>4, LaunchSlot DEF SlotRuns, Running
  <2>7. FailedWorkerNotReused' /\ CorrelatedReplies'
    BY <1>4, <2>1 DEF FailedWorkerNotReused, CorrelatedReplies, Failures
  <2> QED
    BY <2>2, <2>3, <2>4, <2>5, <2>6, <2>7
<1>5. CASE /\ Live
           /\ id' = [id EXCEPT ![r] = <<session, sequence + 1>>]
           /\ outcome' = [outcome EXCEPT ![r] = "pipe"]
           /\ worker' = [worker EXCEPT ![session] = "dead"]
           /\ session' = 0
           /\ UNCHANGED <<host, current, launched, sequence, input, output, answer>>
  <2>1. session \in Sessions /\ session # 0 /\ session <= launched /\ sequence + 1 \in Nat \ {0}
    BY <1>5, SlotBounds DEF Live
  <2>2. /\ IdsUnique'
        /\ id' \in [Requests -> Nat \X Nat] /\ id'[r] = <<session, sequence + 1>>
        /\ \A q \in Requests : q # r => id'[q] = id[q] /\ outcome'[q] = outcome[q]
        /\ outcome'[r] = "pipe"
        /\ \A q \in Requests : id[q][1] = session => id[q][2] < sequence + 1
    <3>1. PICK how \in {"asked", "pipe"} : how = "pipe" /\ outcome' = [outcome EXCEPT ![r] = how]
      BY <1>5
    <3>2. PICK n \in Nat \ {0}, s \in Sessions : n = sequence + 1 /\ s = session
      BY <2>1
    <3>3. (s = session /\ n = sequence + 1) \/ (s = launched + 1 /\ n = 1)
      BY <3>2
    <3>4. id' = [id EXCEPT ![r] = <<s, n>>]
      BY <1>5, <3>2
    <3> QED
      BY <1>1, <3>1, <3>2, <3>3, <3>4, NewId
  <2>3. TypeOK'
    BY <1>5, <2>1, <2>2 DEF TypeOK, Failures
  <2>4. InFlight'
    BY <1>1, <1>5 DEF InFlight
  <2>5. IdsInOrder'
    BY <1>5, <2>1, <2>2 DEF IdsInOrder, TypeOK
  <2>6. PipesHonest'
    <3>1. \A q \in Requests : outcome[q] # "new" => outcome'[q] # "new" /\ id'[q] = id[q]
      BY <1>1, <2>2
    <3> QED
      BY <1>5, <3>1, PipeTypes DEF PipesHonest
  <2>7. SlotRuns'
    BY <1>5, <2>1 DEF SlotRuns, Running, TypeOK
  <2>8. FailedLeftSlot'
    BY <1>5, <2>1, <2>2 DEF FailedLeftSlot
  <2>9. FailedWorkerNotReused'
    <3>1. \A q \in Requests : q # r /\ outcome[q] \in Failures => id[q][1] # session
      BY DEF FailedLeftSlot
    <3>2. \A q \in Requests : q # r /\ id[q][1] = session => id[q][2] <= sequence + 1
      BY <2>2 DEF TypeOK
    <3> QED
      BY <2>1, <2>2, <3>1, <3>2 DEF FailedWorkerNotReused
  <2>10. CorrelatedReplies'
    BY <1>5, <2>2 DEF CorrelatedReplies
  <2> QED
    BY <2>2, <2>3, <2>4, <2>5, <2>6, <2>7, <2>8, <2>9, <2>10
<1> QED
  BY <1>2, <1>3, <1>4, <1>5 DEF Ask

LEMMA FailStep ==
  ASSUME ReasonerInv, host # "idle", NEW kind \in Failures, Fail(kind),
         \/ UNCHANGED output
         \/ output[session] # <<>> /\ output' = [output EXCEPT ![session] = Tail(@)]
  PROVE  ReasonerInv'
<1> USE DEF ReasonerInv
<1>1. /\ session \in Sessions /\ session # 0 /\ current \in Requests
      /\ outcome[current] = "asked" /\ id[current] = <<session, sequence>>
  BY DEF InFlight, TypeOK, Sessions
<1>2. /\ worker' = [worker EXCEPT ![session] = "dead"] /\ session' = 0 /\ host' = "idle"
      /\ outcome' = [outcome EXCEPT ![current] = kind] /\ outcome'[current] = kind
      /\ \A q \in Requests : q # current => outcome'[q] = outcome[q]
      /\ UNCHANGED <<current, launched, sequence, input, answer, id>>
  BY <1>1 DEF Fail, Stop, TypeOK
<1>3. /\ output' \in [Sessions -> Seq(Line)]
      /\ \A s \in Sessions : \A k \in 1 .. Len(output'[s]) :
           \E j \in 1 .. Len(output[s]) : output'[s][k] = output[s][j]
  <2>1. CASE UNCHANGED output
    BY <2>1 DEF TypeOK
  <2>2. CASE output[session] # <<>> /\ output' = [output EXCEPT ![session] = Tail(@)]
    <3>1. /\ Tail(output[session]) \in Seq(Line)
          /\ \A k \in 1 .. Len(Tail(output[session])) :
               k + 1 \in 1 .. Len(output[session]) /\ Tail(output[session])[k] = output[session][k + 1]
      BY <1>1, <2>2, TailElements DEF TypeOK
    <3>2. output'[session] = Tail(output[session]) /\ output' \in [Sessions -> Seq(Line)]
          /\ \A s \in Sessions : s # session => output'[s] = output[s]
      BY <1>1, <2>2, <3>1 DEF TypeOK
    <3>3. ASSUME NEW s \in Sessions, NEW k \in 1 .. Len(output'[s])
          PROVE  \E j \in 1 .. Len(output[s]) : output'[s][k] = output[s][j]
      <4>1. CASE s = session
        BY <3>1, <3>2, <3>3, <4>1
      <4>2. CASE s # session
        BY <3>2, <3>3, <4>2
      <4> QED
        BY <4>1, <4>2
    <3> QED
      BY <3>2, <3>3
  <2> QED
    BY <2>1, <2>2
<1>4. TypeOK'
  <2>1. worker' \in [Sessions -> {"none", "alive", "hung", "dead"}]
        /\ outcome' \in [Requests -> {"new", "asked", "ok", "unavailable"} \cup Failures]
    BY <1>1, <1>2 DEF TypeOK
  <2> QED
    BY <1>2, <1>3, <2>1 DEF TypeOK
<1>5. InFlight' /\ IdsUnique'
  BY <1>2 DEF InFlight, IdsUnique
<1>6. IdsInOrder'
  BY <1>1, <1>2 DEF IdsInOrder, TypeOK, Failures
<1>7. PipesHonest'
  <2>1. \A q \in Requests : outcome[q] # "new" => outcome'[q] # "new"
    BY <1>2 DEF Failures
  <2>2. \A s \in Sessions : \A k \in 1 .. Len(input[s]) : outcome'[input[s][k]] # "new"
    BY <2>1 DEF PipesHonest, TypeOK
  <2>3. ASSUME NEW s \in Sessions, NEW k \in 1 .. Len(output'[s])
        PROVE  /\ outcome'[output'[s][k].request] # "new"
               /\ output'[s][k].id = id[output'[s][k].request]
    <3>1. PICK j \in 1 .. Len(output[s]) : output'[s][k] = output[s][j]
      BY <1>3
    <3>2. output[s][j].request \in Requests
      BY PipeTypes
    <3> QED
      BY <2>1, <3>1, <3>2 DEF PipesHonest
  <2> QED
    BY <1>2, <2>2, <2>3 DEF PipesHonest
<1>8. SlotRuns'
  BY <1>1, <1>2 DEF SlotRuns, Running, TypeOK
<1>9. FailedLeftSlot'
  BY <1>1, <1>2 DEF FailedLeftSlot
<1>10. FailedWorkerNotReused'
  <2>1. \A q \in Requests : id[q][1] = session => id[q][2] <= sequence
    BY <1>1 DEF IdsInOrder
  <2> QED
    BY <1>1, <1>2, <2>1 DEF FailedWorkerNotReused
<1>11. CorrelatedReplies'
  BY <1>2 DEF CorrelatedReplies, Failures
<1> QED
  BY <1>4, <1>5, <1>6, <1>7, <1>8, <1>9, <1>10, <1>11

LEMMA ReadStep == ASSUME ReasonerInv, ReadLine PROVE ReasonerInv'
<1> USE DEF ReasonerInv
<1>1. host # "idle" /\ session \in Sessions /\ current \in Requests
      /\ outcome[current] = "asked" /\ id[current] = <<session, sequence>> /\ session # 0
  BY DEF ReadLine, InFlight, TypeOK, Sessions
<1>2. CASE \E kind \in {"crashed", "malformed", "rejected"} :
             /\ Fail(kind)
             /\ \/ UNCHANGED output
                \/ output[session] # <<>> /\ output' = [output EXCEPT ![session] = Tail(@)]
  BY <1>1, <1>2, FailStep DEF Failures
<1>3. CASE /\ output[session] # <<>> /\ output' = [output EXCEPT ![session] = Tail(@)]
           /\ Correlated(Head(output[session]))
           /\ outcome' = [outcome EXCEPT ![current] = "ok"]
           /\ answer' = [answer EXCEPT ![current] = {Head(output[session]).request}]
           /\ host' = "idle"
           /\ UNCHANGED <<current, session, launched, sequence, worker, input, id>>
  <2>1. /\ Tail(output[session]) \in Seq(Line) /\ Head(output[session]) = output[session][1]
        /\ 1 \in 1 .. Len(output[session])
        /\ \A k \in 1 .. Len(Tail(output[session])) :
             k + 1 \in 1 .. Len(output[session]) /\ Tail(output[session])[k] = output[session][k + 1]
    BY <1>1, <1>3, TailElements DEF TypeOK
  <2>2. Head(output[session]).request = current
    <3> DEFINE q == Head(output[session]).request
    <3>1. q \in Requests /\ id[q] = id[current]
      BY <1>1, <1>3, <2>1, PipeTypes DEF PipesHonest, Correlated
    <3>2. id[current] # NoId
      BY <1>1 DEF NoId
    <3> QED
      BY <1>1, <3>1, <3>2 DEF IdsUnique
  <2>3. /\ outcome'[current] = "ok" /\ answer'[current] = {current}
        /\ \A q \in Requests : q # current => outcome'[q] = outcome[q] /\ answer'[q] = answer[q]
    BY <1>1, <1>3, <2>2 DEF TypeOK
  <2>4. TypeOK'
    BY <1>1, <1>3, <2>1, <2>2 DEF TypeOK
  <2>5. InFlight' /\ IdsUnique' /\ SlotRuns'
    BY <1>3 DEF InFlight, IdsUnique, SlotRuns, Running
  <2>6. IdsInOrder'
    BY <1>1, <1>3, <2>3 DEF IdsInOrder
  <2>7. PipesHonest'
    <3>1. \A q \in Requests : outcome[q] # "new" => outcome'[q] # "new"
      BY <2>3
    <3>2. \A s \in Sessions : \A k \in 1 .. Len(input[s]) : outcome'[input[s][k]] # "new"
      BY <3>1 DEF PipesHonest, TypeOK
    <3>3. ASSUME NEW s \in Sessions, NEW k \in 1 .. Len(output'[s])
          PROVE  /\ outcome'[output'[s][k].request] # "new"
                 /\ output'[s][k].id = id[output'[s][k].request]
      <4>1. PICK j \in 1 .. Len(output[s]) : output'[s][k] = output[s][j]
        BY <1>1, <1>3, <2>1 DEF TypeOK
      <4>2. output[s][j].request \in Requests
        BY PipeTypes
      <4> QED
        BY <3>1, <4>1, <4>2 DEF PipesHonest
    <3> QED
      BY <1>3, <3>2, <3>3 DEF PipesHonest
  <2>8. FailedLeftSlot' /\ FailedWorkerNotReused'
    BY <1>3, <2>3 DEF FailedLeftSlot, FailedWorkerNotReused, Failures
  <2>9. CorrelatedReplies'
    BY <2>3 DEF CorrelatedReplies
  <2> QED
    BY <2>4, <2>5, <2>6, <2>7, <2>8, <2>9
<1> QED
  BY <1>2, <1>3 DEF ReadLine

\* The worker's steps leave everything but the pipes and the processes alone.
LEMMA WorkerStep ==
  ASSUME ReasonerInv, NEW s \in Sessions, Serve(s) \/ Crash(s)
  PROVE  ReasonerInv'
<1> USE DEF ReasonerInv
<1>1. UNCHANGED <<host, current, session, launched, sequence, outcome, answer, id>>
  BY DEF Serve, Crash
<1>2. /\ input' \in [Sessions -> Seq(Requests)]
      /\ \A t \in Sessions : \A k \in 1 .. Len(input'[t]) :
           \E j \in 1 .. Len(input[t]) : input'[t][k] = input[t][j]
  <2>1. CASE Crash(s)
    BY <2>1 DEF Crash, TypeOK
  <2>2. CASE Serve(s)
    <3>1. /\ Tail(input[s]) \in Seq(Requests)
          /\ \A k \in 1 .. Len(Tail(input[s])) :
               k + 1 \in 1 .. Len(input[s]) /\ Tail(input[s])[k] = input[s][k + 1]
      BY <2>2, TailElements DEF Serve, TypeOK
    <3> QED
      BY <2>2, <3>1 DEF Serve, TypeOK
  <2> QED
    BY <2>1, <2>2
<1>3. PICK lines \in Seq(Line), state \in {"alive", "hung", "dead"} :
        /\ worker' = [worker EXCEPT ![s] = state] /\ Running(s)
        /\ output' = [output EXCEPT ![s] = @ \o lines]
        /\ \A k \in 1 .. Len(lines) : /\ outcome[lines[k].request] # "new"
                                      /\ lines[k].id = id[lines[k].request]
  <2>1. CASE Crash(s)
    <3>1. PICK none \in Seq(Line) : none = <<>>
      <4>1. <<>> \in Seq(Line)
        OBVIOUS
      <4> QED
        BY <4>1, Zenon
    <3>2. Len(none) = 0 /\ output[s] \o none = output[s]
      BY <3>1, PipeTypes
    <3>3. output' = [output EXCEPT ![s] = @ \o none]
      BY <2>1, <3>2 DEF Crash, TypeOK
    <3>4. worker' = [worker EXCEPT ![s] = "dead"] /\ Running(s)
      BY <2>1 DEF Crash
    <3>5. \A k \in 1 .. Len(none) : FALSE
      BY <3>2
    <3> QED
      BY <3>3, <3>4, <3>5
  <2>2. CASE Serve(s)
    <3>1. PICK r \in Requests : r = Head(input[s]) /\ outcome[r] # "new" /\ id[r] \in Nat \X Nat
      BY <2>2, TailElements DEF Serve, TypeOK, PipesHonest
    <3> DEFINE line(form) == [form |-> form, id |-> id[r], request |-> r]
               good(lines) == /\ lines \in Seq(Line)
                              /\ \A k \in 1 .. Len(lines) : lines[k].request = r /\ lines[k].id = id[r]
    <3>2. \A form \in {"reply", "garbage", "part"} :
            line(form) \in Line /\ line(form).request = r /\ line(form).id = id[r]
      BY <3>1 DEF Line
    <3>3. /\ Emit(s, <<line("reply")>>, "alive") \/ Emit(s, <<line("garbage")>>, "alive")
             \/ (\E first, second \in {"garbage", "reply"} : Emit(s, <<line(first), line(second)>>, "alive"))
             \/ Emit(s, <<>>, "hung") \/ Emit(s, <<line("part")>>, "hung")
      BY <2>2, <3>1 DEF Serve
    <3> HIDE DEF line
    <3>4. /\ good(<<>>)
          /\ \A form \in {"reply", "garbage", "part"} : good(<<line(form)>>)
          /\ \A first, second \in {"garbage", "reply"} : good(<<line(first), line(second)>>)
      BY <3>2
    <3>5. \A lines : good(lines) => lines \in Seq(Line)
      OBVIOUS
    <3> HIDE DEF good
    <3>6. PICK lines \in Seq(Line), state \in {"alive", "hung", "dead"} : good(lines) /\ Emit(s, lines, state)
      <4>1. CASE Emit(s, <<line("reply")>>, "alive")
        BY <3>4, <3>5, <4>1
      <4>2. CASE Emit(s, <<line("garbage")>>, "alive")
        BY <3>4, <3>5, <4>2
      <4>3. CASE \E first, second \in {"garbage", "reply"} : Emit(s, <<line(first), line(second)>>, "alive")
        BY <3>4, <3>5, <4>3
      <4>4. CASE Emit(s, <<>>, "hung")
        BY <3>4, <3>5, <4>4
      <4>5. CASE Emit(s, <<line("part")>>, "hung")
        BY <3>4, <3>5, <4>5
      <4> QED
        BY <3>3, <4>1, <4>2, <4>3, <4>4, <4>5
    <3>7. lines \in Seq(Line)
          /\ \A k \in 1 .. Len(lines) : lines[k].request = r /\ lines[k].id = id[r]
      BY <3>6 DEF good
    <3> QED
      BY <2>2, <3>1, <3>6, <3>7 DEF Serve, Emit, Running
  <2> QED
    BY <2>1, <2>2
<1>4. output' \in [Sessions -> Seq(Line)]
  BY <1>3 DEF TypeOK
<1>5. worker' \in [Sessions -> {"none", "alive", "hung", "dead"}]
      /\ \A t \in Sessions : worker'[t] \in {"alive", "hung"} => Running(t)
  BY <1>3 DEF TypeOK, Running
<1>6. TypeOK'
  BY <1>1, <1>2, <1>4, <1>5 DEF TypeOK
<1>7. PipesHonest'
  <2>1. \A t \in Sessions : \A k \in 1 .. Len(input'[t]) : outcome[input'[t][k]] # "new"
    BY <1>2 DEF PipesHonest
  <2>2. ASSUME NEW t \in Sessions, NEW k \in 1 .. Len(output'[t])
        PROVE  /\ outcome[output'[t][k].request] # "new"
               /\ output'[t][k].id = id[output'[t][k].request]
    <3>1. CASE t # s
      BY <1>3, <2>2, <3>1 DEF PipesHonest, TypeOK
    <3>2. CASE t = s
      <4>1. output[s] \in Seq(Line) /\ output'[s] = output[s] \o lines
        BY <1>3 DEF TypeOK
      <4>2. \/ k \in 1 .. Len(output[s]) /\ output'[s][k] = output[s][k]
            \/ k - Len(output[s]) \in 1 .. Len(lines) /\ output'[s][k] = lines[k - Len(output[s])]
        BY <2>2, <3>2, <4>1
      <4> QED
        BY <1>3, <3>2, <4>2 DEF PipesHonest
    <3> QED
      BY <3>1, <3>2
  <2> QED
    BY <1>1, <2>1, <2>2 DEF PipesHonest
<1>8. SlotRuns'
  BY <1>1, <1>5 DEF SlotRuns, Running
<1>9. InFlight' /\ IdsInOrder' /\ IdsUnique' /\ FailedLeftSlot' /\ FailedWorkerNotReused' /\ CorrelatedReplies'
  BY <1>1 DEF InFlight, IdsInOrder, IdsUnique, FailedLeftSlot, FailedWorkerNotReused, CorrelatedReplies
<1> QED
  BY <1>6, <1>7, <1>8, <1>9

LEMMA ReasonerStep == ReasonerInv /\ [Next]_vars => ReasonerInv'
<1> SUFFICES ASSUME ReasonerInv, [Next]_vars PROVE ReasonerInv'
  OBVIOUS
<1>1. CASE Timeout
  BY <1>1, FailStep DEF Timeout, Failures
<1>2. CASE Poll
  BY <1>2 DEF Poll, ReasonerInv, TypeOK, InFlight, IdsInOrder, IdsUnique, PipesHonest, SlotRuns,
              Running, FailedLeftSlot, FailedWorkerNotReused, CorrelatedReplies
<1>3. CASE UNCHANGED vars
  BY <1>3 DEF vars, ReasonerInv, TypeOK, InFlight, IdsInOrder, IdsUnique, PipesHonest, SlotRuns,
              Running, FailedLeftSlot, FailedWorkerNotReused, CorrelatedReplies
<1> QED
  BY <1>1, <1>2, <1>3, AskStep, ReadStep, WorkerStep DEF Next

\* CorrelatedReplies, for any requests, faults and sessions: the reply that is accepted was
\* computed for the request that gets it.
THEOREM RepliesCorrelated == Spec => []CorrelatedReplies
<1>1. ReasonerInv => CorrelatedReplies
  BY DEF ReasonerInv
<1> QED
  BY ReasonerInit, ReasonerStep, <1>1, PTL DEF Spec

\* WorkersSafe, likewise: at most one worker runs, and one whose exchange failed is never
\* asked again.
THEOREM WorkersAreSafe == Spec => []WorkersSafe
<1>1. ReasonerInv => WorkersSafe
  BY DEF ReasonerInv, WorkersSafe, SlotRuns, OneWorker
<1> QED
  BY ReasonerInit, ReasonerStep, <1>1, PTL DEF Spec
=============================================================================
