--------------------------- MODULE RecorderProofs ---------------------------
(***************************************************************************)
(* Proofs about Recorder for any number of clients, events and frames, any *)
(* subset of the faults and any number of crashes and cancellations.       *)
(***************************************************************************)
EXTENDS RecorderRefinement, FiniteSetTheorems, SequenceTheorems, TLAPS

\* What a message or call of an operation carries.
Carries(op, item) == (op = "record" => item \in Events) /\ (op = "frame" => item \in Frames)

\* TypeOK alone is not inductive: which rows a message adds depends on what it carries.
Carried ==
  /\ \A k \in DOMAIN queue : Carries(queue[k].op, queue[k].item)
  /\ \A c \in Clients : Carries(call[c].op, call[c].item)
  /\ \A p \in pending : p.item \in IF p.file = "frames" THEN Frames ELSE Events

Awaited(k) == queue[k].future = "pending"

\* The owner of a message whose future is pending waits for this message and no other.
Owned ==
  /\ \A k \in DOMAIN queue : Awaited(k) =>
       /\ pc[queue[k].owner] = "future" /\ reply[queue[k].owner] = "none"
       /\ call[queue[k].owner].op = queue[k].op /\ queue[k].op # "frame"
       /\ queue[k].op = "record" => call[queue[k].owner].item = queue[k].item
  /\ \A j, k \in DOMAIN queue :
       Awaited(j) /\ Awaited(k) /\ queue[j].owner = queue[k].owner => j = k
  /\ \A c \in Clients : pc[c] # "future" => reply[c] = "none"

\* Who stands in the queue of _state_lock waits for the lock, and stands there once.
Waiting ==
  /\ \A i \in DOMAIN lockq : pc[lockq[i]] = "lock"
  /\ \A i, j \in DOMAIN lockq : lockq[i] = lockq[j] => i = j

Written(e) == Holds(jsonl, e) /\ Holds(prolog, e)

\* A record() that has been granted but has not yet returned is durable already.
GrantedDurable ==
  \A c \in Clients : reply[c] = "ok" /\ call[c].op = "record" => Written(call[c].item)

\* A Prolog row waits in a buffer only when its JSON row is complete.
BufferedHasSource ==
  \A p \in pending : p.file = "prolog" => Holds(jsonl, p.item)

TypeInv == TypeOK /\ Carried

IInv == TypeInv /\ Owned /\ Waiting /\ GrantedDurable /\ AckedDurable /\ BufferedHasSource
          /\ PrologHasSource
-----------------------------------------------------------------------------
(* Sequences.                                                              *)

\* A row is appended, and a torn last row completed, within the type of the rows.
LEMMA RowTypes ==
  ASSUME NEW S, NEW s \in Seq(Row(S)), NEW i \in S
  PROVE  /\ Append(s, Whole(i)) \in Seq(Row(S))
         /\ PartWritten(s, i) \subseteq Seq(Row(S))
         /\ Completed(s, i) \in Seq(Row(S))
<1>1. Whole(i) \in Row(S) /\ Torn(i) \in Row(S)
  BY DEF Whole, Torn, Row
<1>2. s # <<>> => [s EXCEPT ![Len(s)] = Whole(i)] \in Seq(Row(S))
  BY <1>1, ExceptSeq, LenProperties
<1> QED BY <1>1, <1>2 DEF PartWritten, Completed

\* What a sequence becomes when an element is appended.
LEMMA Appended ==
  ASSUME NEW S, NEW s \in Seq(S), NEW x \in S
  PROVE  /\ Len(s) \in Nat /\ DOMAIN s = 1 .. Len(s)
         /\ DOMAIN Append(s, x) = 1 .. Len(s) + 1
         /\ \A k \in DOMAIN s : Append(s, x)[k] = s[k]
         /\ Append(s, x)[Len(s) + 1] = x
<1>1. Len(s) \in Nat /\ DOMAIN s = 1 .. Len(s)
  BY LenProperties
<1>2. /\ Append(s, x) \in Seq(S) /\ Len(Append(s, x)) = Len(s) + 1
      /\ \A k \in 1 .. Len(s) : Append(s, x)[k] = s[k]
      /\ Append(s, x)[Len(s) + 1] = x
  BY AppendProperties
<1>3. DOMAIN Append(s, x) = 1 .. Len(Append(s, x))
  BY <1>2, LenProperties
<1> QED BY <1>1, <1>2, <1>3

\* The head and the tail of the queue.
LEMMA QueueHead ==
  ASSUME TypeOK, Carried, queue # <<>>
  PROVE  /\ Head(queue) \in Message
         /\ Carries(Head(queue).op, Head(queue).item)
         /\ Tail(queue) \in Seq(Message)
         /\ \A k \in DOMAIN Tail(queue) : k + 1 \in DOMAIN queue /\ Tail(queue)[k] = queue[k + 1]
         /\ 1 \in DOMAIN queue /\ Head(queue) = queue[1]
<1>1. queue \in Seq(Message)
  BY DEF TypeOK
<1> QED BY <1>1, HeadTailProperties, LenProperties DEF Carried

\* What a sequence becomes when an element is removed.
LEMMA RemoveAtType ==
  ASSUME NEW S, NEW s \in Seq(S), NEW i \in DOMAIN s
  PROVE  /\ RemoveAt(s, i) \in Seq(S)
         /\ DOMAIN RemoveAt(s, i) = 1 .. Len(s) - 1
         /\ \A k \in 1 .. Len(s) - 1 : RemoveAt(s, i)[k] = IF k < i THEN s[k] ELSE s[k + 1]
<1> DEFINE front == SubSeq(s, 1, i - 1)
           back == SubSeq(s, i + 1, Len(s))
<1>1. i \in 1 .. Len(s) /\ Len(s) \in Nat /\ \A k \in 1 .. Len(s) : s[k] \in S
  BY LenProperties, ElementOfSeq
<1>2. /\ front \in Seq(S) /\ Len(front) = i - 1
      /\ \A k \in 1 .. i - 1 : front[k] = s[k]
  <2>1. 1 \in Int /\ i - 1 \in Int /\ \A k \in 1 .. i - 1 : s[k] \in S
    BY <1>1
  <2>2. /\ front \in Seq(S) /\ Len(front) = IF 1 <= i - 1 THEN i - 1 - 1 + 1 ELSE 0
        /\ \A k \in 1 .. i - 1 - 1 + 1 : front[k] = s[1 + k - 1]
    BY <2>1, SubSeqProperties
  <2> QED BY <1>1, <2>2
<1>3. /\ back \in Seq(S) /\ Len(back) = Len(s) - i
      /\ \A k \in 1 .. Len(s) - i : back[k] = s[i + k]
  <2>1. i + 1 \in Int /\ Len(s) \in Int /\ \A k \in i + 1 .. Len(s) : s[k] \in S
    BY <1>1
  <2>2. /\ back \in Seq(S) /\ Len(back) = IF i + 1 <= Len(s) THEN Len(s) - (i + 1) + 1 ELSE 0
        /\ \A k \in 1 .. Len(s) - (i + 1) + 1 : back[k] = s[i + 1 + k - 1]
    BY <2>1, SubSeqProperties
  <2> QED BY <1>1, <2>2
<1>4. /\ front \o back \in Seq(S) /\ Len(front \o back) = Len(front) + Len(back)
      /\ \A k \in 1 .. Len(front) + Len(back) :
           (front \o back)[k] = IF k <= Len(front) THEN front[k] ELSE back[k - Len(front)]
  BY <1>2, <1>3, ConcatProperties
<1>5. DOMAIN (front \o back) = 1 .. Len(front \o back)
  BY <1>4, LenProperties
<1>6. RemoveAt(s, i) = front \o back
  BY DEF RemoveAt
<1> HIDE DEF front, back
<1>7. Len(front) + Len(back) = Len(s) - 1
  BY <1>1, <1>2, <1>3
<1>8. ASSUME NEW k \in 1 .. Len(s) - 1
      PROVE  (front \o back)[k] = IF k < i THEN s[k] ELSE s[k + 1]
  <2>1. CASE k < i
    BY <2>1, <1>1, <1>2, <1>4, <1>7
  <2>2. CASE ~(k < i)
    <3>1. k - (i - 1) \in 1 .. Len(s) - i /\ i + (k - (i - 1)) = k + 1
      BY <2>2, <1>1
    <3>2. (front \o back)[k] = back[k - (i - 1)]
      BY <2>2, <1>1, <1>2, <1>4, <1>7
    <3> QED BY <2>2, <3>1, <3>2, <1>3
  <2> QED BY <2>1, <2>2
<1> QED BY <1>4, <1>5, <1>6, <1>7, <1>8

\* What close() flushes keeps the types of the files.
LEMMA FlushTypes ==
  ASSUME TypeOK, Carried
  PROVE  /\ FlushPending("jsonl", jsonl) \in Seq(Row(Events))
         /\ FlushPending("prolog", prolog) \in Seq(Row(Events))
         /\ FlushPending("frames", frames) \in Seq(Row(Frames))
<1>1. ASSUME NEW name \in Files, NEW S, NEW s \in Seq(Row(S)),
             \A p \in pending : p.file = name => p.item \in S
      PROVE  FlushPending(name, s) \in Seq(Row(S))
  <2>1. CASE \E p \in pending : p.file = name
    <3> DEFINE q == CHOOSE p \in pending : p.file = name
    <3>1. q \in pending /\ q.file = name
      BY <2>1
    <3>2. Completed(s, q.item) \in Seq(Row(S))
      BY <3>1, <1>1, RowTypes
    <3> QED BY <2>1, <3>2 DEF FlushPending
  <2>2. CASE ~ \E p \in pending : p.file = name
    BY <2>2, <1>1 DEF FlushPending
  <2> QED BY <2>1, <2>2
<1>2. \A p \in pending : /\ p.file = "jsonl" => p.item \in Events
                         /\ p.file = "prolog" => p.item \in Events
                         /\ p.file = "frames" => p.item \in Frames
  BY DEF Carried
<1> QED BY <1>1, <1>2 DEF TypeOK, Files

-----------------------------------------------------------------------------
(* Types.                                                                  *)

\* The initial state has the types of TypeInv.
LEMMA InitType == Init => TypeInv
<1> SUFFICES ASSUME Init PROVE TypeInv
  OBVIOUS
<1>1. <<>> \in Seq(Clients) /\ <<>> \in Seq(Message) /\ <<>> \in Seq(Events)
      /\ <<>> \in Seq(Row(Events)) /\ <<>> \in Seq(Row(Frames)) /\ DOMAIN queue = {}
  BY EmptySeq DEF Init
<1>2. TypeOK
  BY <1>1 DEF Init, TypeOK, Call, Ops, Items
<1>3. Carried
  BY <1>1 DEF Init, Carried, Carries
<1> QED BY <1>2, <1>3 DEF TypeInv

\* A message appended to the queue.
LEMMA PutType ==
  ASSUME TypeOK, Carried, NEW c \in Clients, NEW op \in Ops, NEW item \in Items \cup {None},
         NEW future \in {"none", "pending"}, Carries(op, item), Put(c, op, item, future)
  PROVE  /\ queue' \in Seq(Message)
         /\ \A k \in DOMAIN queue' : Carries(queue'[k].op, queue'[k].item)
<1> DEFINE m == [op |-> op, item |-> item, owner |-> c, future |-> future]
<1>1. m \in Message /\ queue \in Seq(Message) /\ queue' = Append(queue, m)
  BY DEF Message, TypeOK, Put
<1>2. Carries(m.op, m.item)
  OBVIOUS
<1> HIDE DEF m
<1>3. queue' \in Seq(Message)
  BY <1>1
<1>4. ASSUME NEW k \in DOMAIN queue' PROVE Carries(queue'[k].op, queue'[k].item)
  <2>1. CASE k \in DOMAIN queue
    BY <2>1, <1>1, AppendProperties DEF Carried
  <2>2. CASE k \notin DOMAIN queue
    BY <2>2, <1>1, <1>2, AppendProperties, LenProperties
  <2> QED BY <2>1, <2>2
<1> QED BY <1>3, <1>4

\* What the critical section of a call does to the variables it changes.
LEMMA UnderLockType ==
  ASSUME TypeOK, Carried, NEW c \in Clients, NEW op \in Ops, NEW item \in Items \cup {None},
         Carries(op, item), UnderLock(c, op, item)
  PROVE  /\ queue' \in Seq(Message)
         /\ \A k \in DOMAIN queue' : Carries(queue'[k].op, queue'[k].item)
         /\ pc' \in [Clients -> {"idle", "lock", "future"}]
         /\ task' \in {"none", "created", "running", "returned", "raised"}
         /\ submitted' \in Seq(Events) /\ journaled' \subseteq Items
         /\ ahead' \in [Events -> SUBSET Items]
<1>1. CASE op = "record" /\ PutRecord(c, item)
  <2>1. item \in Events
    BY <1>1 DEF Carries
  <2>2. submitted' \in Seq(Events)
    BY <1>1, <2>1 DEF PutRecord, TypeOK
  <2> QED BY <1>1, <2>1, <2>2, PutType DEF PutRecord, StartTask, TypeOK, Items
<1>2. CASE op = "frame" /\ PutFrame(c, item)
  <2>1. item \in Frames
    BY <1>2 DEF Carries
  <2> QED BY <1>2, <2>1, PutType DEF PutFrame, StartTask, TypeOK, Items
<1>3. CASE StartFails(c)
  BY <1>3 DEF StartFails, TypeOK, Carried
<1>4. CASE op = "close" /\ PutClose(c)
  <2>1. CASE task # "none"
    <3>1. Carries("close", None) /\ "close" \in Ops
      BY DEF Carries, Ops
    <3> QED BY <1>4, <2>1, <3>1, PutType DEF PutClose, TypeOK
  <2>2. CASE task = "none"
    BY <1>4, <2>2 DEF PutClose, TypeOK, Carried
  <2> QED BY <2>1, <2>2
<1> QED BY <1>1, <1>2, <1>3, <1>4 DEF UnderLock

\* A call that enters keeps every type, whether it goes through or waits for the lock.
LEMMA EnterType ==
  ASSUME TypeOK, Carried, NEW c \in Clients, NEW op \in Ops, NEW item \in Items \cup {None},
         Carries(op, item), Enter(c, op, item), used' \subseteq Items
  PROVE  TypeOK' /\ Carried'
<1>1. call' \in [Clients -> Call] /\ \A d \in Clients : Carries(call'[d].op, call'[d].item)
  BY DEF Enter, TypeOK, Carried, Call
<1>2. CASE LockFree /\ UnderLock(c, op, item) /\ UNCHANGED lockq
  BY <1>1, <1>2, UnderLockType
     DEF Enter, TypeOK, Carried, fileVars, bounds
<1>3. CASE ~LockFree
  <2>1. /\ lockq' = Append(lockq, c) /\ pc' = [pc EXCEPT ![c] = "lock"]
        /\ UNCHANGED <<queue, task, submitted, ahead, journaled, reply, failure, fileVars,
                       bounds, acked>>
    BY <1>3 DEF Enter
  <2>2. lockq' \in Seq(Clients)
    BY <2>1, AppendProperties DEF TypeOK
  <2>3. pc' \in [Clients -> {"idle", "lock", "future"}]
    BY <2>1 DEF TypeOK
  <2>4. TypeOK'
    BY <1>1, <2>1, <2>2, <2>3 DEF TypeOK, fileVars, bounds
  <2>5. Carried'
    BY <1>1, <2>1 DEF Carried, fileVars
  <2> QED BY <2>4, <2>5
<1> QED BY <1>2, <1>3 DEF Enter

\* Completing a future.
LEMMA AnswerType ==
  ASSUME TypeOK, NEW m \in Message, NEW r \in {"ok", "error"}, Answer(m, r)
  PROVE  reply' \in [Clients -> {"none", "ok", "error"}]
BY DEF Answer, TypeOK, Message

\* The actor taking a message keeps the type of the queue.
LEMMA DequeueType ==
  ASSUME TypeOK, Carried, queue # <<>>, Dequeue
  PROVE  queue' \in Seq(Message) /\ \A k \in DOMAIN queue' : Carries(queue'[k].op, queue'[k].item)
<1>1. queue' = Tail(queue)
  BY DEF Dequeue
<1> QED BY <1>1, QueueHead DEF Carried

\* TypeInv is inductive.
LEMMA TypeStep == TypeInv /\ [Next]_vars => TypeInv'
<1> SUFFICES ASSUME TypeOK, Carried, [Next]_vars PROVE TypeOK' /\ Carried'
  BY DEF TypeInv
<1> USE DEF Items
<1>1. ASSUME NEW c \in Clients, NEW e \in Events, Record(c, e) PROVE TypeOK' /\ Carried'
  <2>1. Carries("record", e) /\ "record" \in Ops /\ used' \subseteq Items
    BY <1>1 DEF Carries, Ops, Record, TypeOK
  <2> QED BY <1>1, <2>1, EnterType DEF Record
<1>2. ASSUME NEW c \in Clients, NEW f \in Frames, JournalFrame(c, f) PROVE TypeOK' /\ Carried'
  <2>1. Carries("frame", f) /\ "frame" \in Ops /\ used' \subseteq Items
    BY <1>2 DEF Carries, Ops, JournalFrame, TypeOK
  <2> QED BY <1>2, <2>1, EnterType DEF JournalFrame
<1>3. ASSUME NEW c \in Clients, Close(c) PROVE TypeOK' /\ Carried'
  <2>1. Carries("close", None) /\ "close" \in Ops /\ used' \subseteq Items
    BY <1>3 DEF Carries, Ops, Close, TypeOK
  <2> QED BY <1>3, <2>1, EnterType DEF Close
<1>4. ASSUME NEW c \in Clients, Flush(c) PROVE TypeOK' /\ Carried'
  <2>1. Carries("flush", None) /\ "flush" \in Ops
    BY DEF Carries, Ops
  <2>2. /\ queue' \in Seq(Message)
        /\ \A k \in DOMAIN queue' : Carries(queue'[k].op, queue'[k].item)
    BY <1>4, <2>1, PutType DEF Flush
  <2>3. /\ call' \in [Clients -> Call]
        /\ \A d \in Clients : Carries(call'[d].op, call'[d].item)
    BY <1>4, <2>1 DEF Flush, TypeOK, Carried, Call
  <2> QED BY <1>4, <2>2, <2>3 DEF Flush, TypeOK, Carried, fileVars, bounds, histVars
<1>5. ASSUME NEW c \in Clients, Acquire(c) PROVE TypeOK' /\ Carried'
  <2>1. /\ call[c].op \in Ops /\ call[c].item \in Items \cup {None}
        /\ Carries(call[c].op, call[c].item)
    BY DEF TypeOK, Carried, Call
  <2>2. lockq' \in Seq(Clients)
    BY <1>5, HeadTailProperties DEF Acquire, TypeOK
  <2> QED BY <1>5, <2>1, <2>2, UnderLockType DEF Acquire, TypeOK, Carried, fileVars, bounds
<1>6. ASSUME NEW c \in Clients, Return(c) PROVE TypeOK' /\ Carried'
  <2>1. acked' \subseteq Events
    BY <1>6 DEF Return, TypeOK, Carried, Carries
  <2> QED BY <1>6, <2>1 DEF Return, TypeOK, Carried, fileVars, bounds, histVars
<1>7. ASSUME NEW c \in Clients, Cancel(c) PROVE TypeOK' /\ Carried'
  <2>1. lockq' \in Seq(Clients)
    BY <1>7, RemoveAtType DEF Cancel, TypeOK
  <2>2. /\ queue' \in Seq(Message)
        /\ \A k \in DOMAIN queue' : Carries(queue'[k].op, queue'[k].item)
    <3>1. CASE UNCHANGED queue
      BY <3>1 DEF TypeOK, Carried
    <3>2. CASE queue' = [k \in DOMAIN queue |->
                       IF queue[k].owner = c /\ queue[k].future = "pending"
                         THEN [queue[k] EXCEPT !.future = "cancelled"] ELSE queue[k]]
      <4>1. queue \in Seq(Message) /\ DOMAIN queue = 1 .. Len(queue) /\ Len(queue) \in Nat
        BY LenProperties DEF TypeOK
      <4>2. \A k \in DOMAIN queue : queue[k] \in Message
        BY <4>1, ElementOfSeq
      <4>3. \A k \in DOMAIN queue : queue'[k] \in Message
                /\ queue'[k].op = queue[k].op /\ queue'[k].item = queue[k].item
        BY <3>2, <4>2 DEF Message
      <4>4. queue' \in [1 .. Len(queue) -> Message]
        BY <3>2, <4>1, <4>3
      <4> QED BY <4>1, <4>3, <4>4, SeqDef DEF Carried
    <3> QED BY <1>7, <3>1, <3>2 DEF Cancel
  <2> QED BY <1>7, <2>1, <2>2 DEF Cancel, TypeOK, Carried, fileVars, histVars
<1>8. ASSUME OpenFiles PROVE TypeOK' /\ Carried'
  BY <1>8 DEF OpenFiles, TypeOK, Carried, callVars, fileVars, bounds, histVars
<1>9. ASSUME Reject PROVE TypeOK' /\ Carried'
  <2>1. queue # <<>> /\ Head(queue) \in Message
    BY <1>9, QueueHead DEF Reject, Serving
  <2>2. reply' \in [Clients -> {"none", "ok", "error"}]
    BY <1>9, <2>1, AnswerType DEF Reject
  <2>3. queue' \in Seq(Message) /\ \A k \in DOMAIN queue' : Carries(queue'[k].op, queue'[k].item)
    BY <1>9, <2>1, DequeueType DEF Reject
  <2> QED BY <1>9, <2>2, <2>3 DEF Reject, Dequeue, TypeOK, Carried, fileVars, bounds, histVars
<1>10. ASSUME WriteRecord PROVE TypeOK' /\ Carried'
  <2> DEFINE m == Head(queue)
  <2>1. queue # <<>> /\ m \in Message /\ m.item \in Events
    BY <1>10, QueueHead DEF WriteRecord, Healthy, Serving, Carries
  <2>2. reply' \in [Clients -> {"none", "ok", "error"}]
    BY <1>10, <2>1, AnswerType DEF WriteRecord
  <2>3. queue' \in Seq(Message) /\ \A k \in DOMAIN queue' : Carries(queue'[k].op, queue'[k].item)
    BY <1>10, <2>1, DequeueType DEF WriteRecord
  <2>4. /\ Append(jsonl, Whole(m.item)) \in Seq(Row(Events))
        /\ Append(prolog, Whole(m.item)) \in Seq(Row(Events))
        /\ PartWritten(jsonl, m.item) \subseteq Seq(Row(Events))
        /\ PartWritten(prolog, m.item) \subseteq Seq(Row(Events))
        /\ jsonl \in Seq(Row(Events)) /\ prolog \in Seq(Row(Events))
    BY <2>1, RowTypes DEF TypeOK
  <2>5. jsonl' \in Seq(Row(Events)) /\ prolog' \in Seq(Row(Events)) /\ failure' \in BOOLEAN
    BY <1>10, <2>4 DEF WriteRecord, CutShort, TypeOK
  <2>6. \/ pending' = pending
        \/ \E file \in {"jsonl", "prolog"} : pending' = {[file |-> file, item |-> m.item]}
    BY <1>10 DEF WriteRecord
  <2>7. /\ pending' \subseteq [file : Files, item : Items]
        /\ \A p \in pending' : p.item \in IF p.file = "frames" THEN Frames ELSE Events
    BY <2>1, <2>6 DEF TypeOK, Carried, Files
  <2> QED BY <1>10, <2>2, <2>3, <2>5, <2>7
          DEF WriteRecord, Dequeue, TypeOK, Carried, bounds, histVars
<1>11. ASSUME WriteFrame PROVE TypeOK' /\ Carried'
  <2> DEFINE m == Head(queue)
  <2>1. queue # <<>> /\ m \in Message /\ m.item \in Frames
    BY <1>11, QueueHead DEF WriteFrame, Healthy, Serving, Carries
  <2>2. queue' \in Seq(Message) /\ \A k \in DOMAIN queue' : Carries(queue'[k].op, queue'[k].item)
    BY <1>11, <2>1, DequeueType DEF WriteFrame
  <2>3. /\ Append(frames, Whole(m.item)) \in Seq(Row(Frames))
        /\ PartWritten(frames, m.item) \subseteq Seq(Row(Frames))
        /\ frames \in Seq(Row(Frames))
    BY <2>1, RowTypes DEF TypeOK
  <2>4. frames' \in Seq(Row(Frames)) /\ failure' \in BOOLEAN
    BY <1>11, <2>3 DEF WriteFrame, TypeOK
  <2>5. pending' = pending \/ pending' = {[file |-> "frames", item |-> m.item]}
    BY <1>11 DEF WriteFrame
  <2>6. /\ pending' \subseteq [file : Files, item : Items]
        /\ \A p \in pending' : p.item \in IF p.file = "frames" THEN Frames ELSE Events
    BY <2>1, <2>5 DEF TypeOK, Carried, Files
  <2> QED BY <1>11, <2>2, <2>4, <2>6 DEF WriteFrame, Dequeue, TypeOK, Carried, bounds, histVars
<1>12. ASSUME ServeFlush PROVE TypeOK' /\ Carried'
  <2>1. queue # <<>> /\ Head(queue) \in Message
    BY <1>12, QueueHead DEF ServeFlush, Healthy, Serving
  <2>2. reply' \in [Clients -> {"none", "ok", "error"}]
    BY <1>12, <2>1, AnswerType DEF ServeFlush
  <2>3. queue' \in Seq(Message) /\ \A k \in DOMAIN queue' : Carries(queue'[k].op, queue'[k].item)
    BY <1>12, <2>1, DequeueType DEF ServeFlush
  <2> QED BY <1>12, <2>2, <2>3
          DEF ServeFlush, Dequeue, TypeOK, Carried, fileVars, bounds, histVars
<1>13. ASSUME ServeClose PROVE TypeOK' /\ Carried'
  <2>1. queue # <<>> /\ Head(queue) \in Message
    BY <1>13, QueueHead DEF ServeClose, Serving
  <2>2. reply' \in [Clients -> {"none", "ok", "error"}]
    BY <1>13, <2>1, AnswerType DEF ServeClose
  <2>3. queue' \in Seq(Message) /\ \A k \in DOMAIN queue' : Carries(queue'[k].op, queue'[k].item)
    BY <1>13, <2>1, DequeueType DEF ServeClose
  <2>4. /\ jsonl' \in Seq(Row(Events)) /\ prolog' \in Seq(Row(Events))
        /\ frames' \in Seq(Row(Frames)) /\ pending' \in {pending, {}}
    BY <1>13, FlushTypes DEF ServeClose, fileVars, TypeOK
  <2>5. task' \in {task, "returned"} /\ failure' \in BOOLEAN
    BY <1>13 DEF ServeClose, TypeOK
  <2> QED BY <1>13, <2>2, <2>3, <2>4, <2>5
          DEF ServeClose, Dequeue, TypeOK, Carried, bounds, histVars
<1>14. ASSUME Crash PROVE TypeOK' /\ Carried'
  <2>1. /\ jsonl' \in Seq(Row(Events)) /\ prolog' \in Seq(Row(Events))
        /\ frames' \in Seq(Row(Frames))
    <3>1. CASE UNCHANGED <<jsonl, prolog, frames>>
      BY <3>1 DEF TypeOK
    <3>2. CASE Healthy("record") /\ ~UNCHANGED <<jsonl, prolog, frames>>
      <4> DEFINE e == Head(queue).item
      <4>1. e \in Events
        BY <3>2, QueueHead DEF Healthy, Serving, Carries
      <4>2. /\ Append(jsonl, Whole(e)) \in Seq(Row(Events))
            /\ Append(prolog, Whole(e)) \in Seq(Row(Events))
            /\ PartWritten(jsonl, e) \subseteq Seq(Row(Events))
            /\ PartWritten(prolog, e) \subseteq Seq(Row(Events))
        BY <4>1, RowTypes DEF TypeOK
      <4> QED BY <1>14, <3>2, <4>2 DEF Crash, CutShort, TypeOK, Healthy, Serving
    <3>3. CASE Healthy("frame") /\ ~UNCHANGED <<jsonl, prolog, frames>>
      <4> DEFINE f == Head(queue).item
      <4>1. f \in Frames
        BY <3>3, QueueHead DEF Healthy, Serving, Carries
      <4>2. /\ Append(frames, Whole(f)) \in Seq(Row(Frames))
            /\ PartWritten(frames, f) \subseteq Seq(Row(Frames))
        BY <4>1, RowTypes DEF TypeOK
      <4> QED BY <1>14, <3>3, <4>2 DEF Crash, TypeOK, Healthy, Serving
    <3> QED BY <1>14, <3>1, <3>2, <3>3 DEF Crash
  <2>2. lockq' \in Seq(Clients) /\ queue' \in Seq(Message) /\ DOMAIN queue' = {}
    BY <1>14, EmptySeq DEF Crash
  <2>3. /\ pc' \in [Clients -> {"idle", "lock", "future"}]
        /\ reply' \in [Clients -> {"none", "ok", "error"}]
        /\ task' = "none" /\ failure' = FALSE /\ pending' = {} /\ journaled' = {}
        /\ crashes' \in Nat
        /\ UNCHANGED <<call, cancels, used, submitted, ahead, acked>>
    BY <1>14 DEF Crash, TypeOK
  <2>4. TypeOK'
    BY <2>1, <2>2, <2>3 DEF TypeOK
  <2>5. Carried'
    BY <2>2, <2>3 DEF Carried
  <2> QED BY <2>4, <2>5
<1>15. ASSUME UNCHANGED vars PROVE TypeOK' /\ Carried'
  BY <1>15 DEF vars, TypeOK, Carried, callVars, fileVars, bounds, histVars
<1> QED BY <1>1, <1>2, <1>3, <1>4, <1>5, <1>6, <1>7, <1>8, <1>9, <1>10, <1>11, <1>12, <1>13,
           <1>14, <1>15 DEF Next, Actor

\* Every variable keeps its type.
THEOREM TypeCorrect == Spec => []TypeOK
<1>1. TypeInv => TypeOK
  BY DEF TypeInv
<1> QED BY <1>1, InitType, TypeStep, PTL DEF Spec

-----------------------------------------------------------------------------
(* Who waits for what.                                                     *)

\* The waiters of the lock.
LEMMA WaiterTypes ==
  ASSUME TypeOK
  PROVE  /\ lockq \in Seq(Clients) /\ Len(lockq) \in Nat /\ DOMAIN lockq = 1 .. Len(lockq)
         /\ \A i \in DOMAIN lockq : lockq[i] \in Clients
         /\ lockq # <<>> => /\ 1 \in DOMAIN lockq /\ Head(lockq) = lockq[1]
                            /\ Tail(lockq) \in Seq(Clients)
                            /\ \A i \in DOMAIN Tail(lockq) :
                                 i \in 1 .. Len(lockq) - 1 /\ Tail(lockq)[i] = lockq[i + 1]
<1>1. lockq \in Seq(Clients)
  BY DEF TypeOK
<1>2. Len(lockq) \in Nat /\ DOMAIN lockq = 1 .. Len(lockq)
  BY <1>1, LenProperties
<1>3. \A i \in DOMAIN lockq : lockq[i] \in Clients
  BY <1>1, <1>2, ElementOfSeq
<1>4. ASSUME lockq # <<>>
      PROVE  /\ 1 \in DOMAIN lockq /\ Head(lockq) = lockq[1]
             /\ Tail(lockq) \in Seq(Clients)
             /\ \A i \in DOMAIN Tail(lockq) :
                   i \in 1 .. Len(lockq) - 1 /\ Tail(lockq)[i] = lockq[i + 1]
  <2>1. /\ Tail(lockq) \in Seq(Clients) /\ Len(Tail(lockq)) = Len(lockq) - 1
        /\ \A i \in 1 .. Len(Tail(lockq)) : Tail(lockq)[i] = lockq[i + 1]
    BY <1>1, <1>4, HeadTailProperties
  <2>2. DOMAIN Tail(lockq) = 1 .. Len(Tail(lockq))
    BY <2>1, LenProperties
  <2>3. 1 \in DOMAIN lockq /\ Head(lockq) = lockq[1]
    BY <1>1, <1>2, <1>4
  <2> QED BY <2>1, <2>2, <2>3
<1> QED BY <1>1, <1>2, <1>3, <1>4

\* A client that does not stand in the queue of the lock changes its state.
LEMMA WaitingElsewhere ==
  ASSUME TypeOK, Waiting, NEW c \in Clients, pc[c] # "lock", lockq' = lockq,
         \A d \in Clients : d # c => pc'[d] = pc[d]
  PROVE  Waiting'
BY WaiterTypes DEF Waiting

\* Waiting is inductive.
LEMMA WaitingStep ==
  ASSUME TypeOK, Carried, Waiting, [Next]_vars PROVE Waiting'
<1>0. pc \in [Clients -> {"idle", "lock", "future"}]
  BY DEF TypeOK
<1>1. ASSUME NEW c \in Clients, NEW op, NEW item, Enter(c, op, item) PROVE Waiting'
  <2>1. pc[c] = "idle"
    BY <1>1 DEF Enter
  <2>2. CASE LockFree /\ UnderLock(c, op, item) /\ UNCHANGED lockq
    <3>1. \A d \in Clients : d # c => pc'[d] = pc[d]
      BY <1>0, <2>2 DEF UnderLock, PutRecord, PutFrame, StartFails, PutClose
    <3> QED BY <2>1, <2>2, <3>1, WaitingElsewhere
  <2>3. CASE pc' = [pc EXCEPT ![c] = "lock"] /\ lockq' = Append(lockq, c)
    <3>1. /\ Len(lockq) \in Nat /\ DOMAIN lockq = 1 .. Len(lockq)
          /\ DOMAIN Append(lockq, c) = 1 .. Len(lockq) + 1
          /\ \A k \in DOMAIN lockq : Append(lockq, c)[k] = lockq[k]
          /\ Append(lockq, c)[Len(lockq) + 1] = c
      BY WaiterTypes, Appended
    <3>2. \A i \in DOMAIN lockq : lockq[i] # c /\ lockq[i] \in Clients
      BY <2>1, WaiterTypes DEF Waiting
    <3> QED BY <1>0, <2>3, <3>1, <3>2 DEF Waiting
  <2> QED BY <1>1, <2>2, <2>3 DEF Enter
<1>2. ASSUME NEW c \in Clients, Flush(c) \/ Return(c) PROVE Waiting'
  <2>1. /\ lockq' = lockq /\ pc[c] # "lock"
        /\ \A d \in Clients : d # c => pc'[d] = pc[d]
    BY <1>0, <1>2 DEF Flush, Return
  <2> QED BY <2>1, WaitingElsewhere
<1>3. ASSUME NEW c \in Clients, Acquire(c) PROVE Waiting'
  <2>1. /\ lockq # <<>> /\ Head(lockq) = c /\ lockq' = Tail(lockq)
        /\ \A d \in Clients : d # c => pc'[d] = pc[d]
    BY <1>0, <1>3 DEF Acquire, UnderLock, PutRecord, PutFrame, StartFails, PutClose
  <2>2. \A i \in DOMAIN lockq' :
          /\ i + 1 \in DOMAIN lockq /\ i \in Nat /\ i # 0
          /\ lockq'[i] = lockq[i + 1] /\ lockq[i + 1] \in Clients
    BY <2>1, WaiterTypes
  <2>3. \A i \in DOMAIN lockq' : lockq'[i] # c
    BY <2>1, <2>2, WaiterTypes DEF Waiting
  <2>4. ASSUME NEW i \in DOMAIN lockq', NEW j \in DOMAIN lockq', lockq'[i] = lockq'[j]
        PROVE  i = j
    <3>1. i + 1 = j + 1
      BY <2>2, <2>4 DEF Waiting
    <3> QED BY <2>2, <3>1
  <2> QED BY <2>1, <2>2, <2>3, <2>4 DEF Waiting
<1>4. ASSUME NEW c \in Clients, Cancel(c) PROVE Waiting'
  <2>1. \A d \in Clients : d # c => pc'[d] = pc[d]
    BY <1>0, <1>4 DEF Cancel
  <2>2. CASE pc[c] = "future" /\ lockq' = lockq
    BY <2>1, <2>2, WaitingElsewhere
  <2>3. CASE \E k \in DOMAIN lockq : lockq[k] = c /\ lockq' = RemoveAt(lockq, k)
    <3> PICK k \in DOMAIN lockq : lockq[k] = c /\ lockq' = RemoveAt(lockq, k)
      BY <2>3
    <3>1. /\ k \in 1 .. Len(lockq)
          /\ \A i \in DOMAIN lockq' :
                /\ i \in 1 .. Len(lockq) - 1
                /\ lockq'[i] = IF i < k THEN lockq[i] ELSE lockq[i + 1]
      BY WaiterTypes, RemoveAtType
    <3>2. ASSUME NEW i \in DOMAIN lockq' PROVE lockq'[i] \in Clients \ {c} /\ pc[lockq'[i]] = "lock"
      BY <3>1, <3>2, WaiterTypes DEF Waiting
    <3>3. ASSUME NEW i \in DOMAIN lockq', NEW j \in DOMAIN lockq', lockq'[i] = lockq'[j]
          PROVE  i = j
      <4> DEFINE p(n) == IF n < k THEN n ELSE n + 1
      <4>1. p(i) \in DOMAIN lockq /\ p(j) \in DOMAIN lockq
        BY <3>1, WaiterTypes
      <4>2. lockq[p(i)] = lockq[p(j)]
        BY <3>1, <3>3
      <4>3. p(i) = p(j)
        BY <4>1, <4>2 DEF Waiting
      <4> QED BY <3>1, <4>3, WaiterTypes
    <3> QED BY <2>1, <3>2, <3>3 DEF Waiting
  <2> QED BY <1>4, <2>2, <2>3 DEF Cancel
<1>5. ASSUME Actor \/ UNCHANGED vars PROVE Waiting'
  <2>1. pc' = pc /\ lockq' = lockq
    BY <1>5 DEF Actor, OpenFiles, Reject, WriteRecord, WriteFrame, ServeFlush, ServeClose,
                Dequeue, callVars, vars
  <2> QED BY <2>1 DEF Waiting
<1>6. ASSUME Crash PROVE Waiting'
  <2>1. DOMAIN lockq' = {}
    BY <1>6, EmptySeq DEF Crash
  <2> QED BY <2>1 DEF Waiting
<1> QED BY <1>1, <1>2, <1>3, <1>4, <1>5, <1>6 DEF Next, Record, JournalFrame, Close

\* The messages of the queue.
LEMMA QueueTypes ==
  ASSUME TypeOK
  PROVE  /\ queue \in Seq(Message) /\ Len(queue) \in Nat /\ DOMAIN queue = 1 .. Len(queue)
         /\ \A k \in DOMAIN queue : queue[k] \in Message /\ queue[k].owner \in Clients
<1>1. queue \in Seq(Message)
  BY DEF TypeOK
<1>2. Len(queue) \in Nat /\ DOMAIN queue = 1 .. Len(queue)
  BY <1>1, LenProperties
<1>3. \A k \in DOMAIN queue : queue[k] \in Message
  BY <1>1, <1>2, ElementOfSeq
<1> QED BY <1>1, <1>2, <1>3 DEF Message

\* A call that was not waiting puts a message, or waits for the lock.
LEMMA PutOwned ==
  ASSUME TypeOK, Owned, NEW c \in Clients, pc[c] # "future",
         NEW op \in Ops, NEW item \in Items \cup {None}, NEW future \in {"none", "pending"},
         \/ queue' = queue
         \/ /\ Put(c, op, item, future)
            /\ future = "pending" => /\ pc'[c] = "future" /\ call'[c].op = op /\ op # "frame"
                                     /\ op = "record" => call'[c].item = item,
         \A d \in Clients : d # c => pc'[d] = pc[d] /\ call'[d] = call[d],
         UNCHANGED reply
  PROVE  Owned'
<1>1. \A k \in DOMAIN queue : queue[k].owner \in Clients
  BY QueueTypes
<1>2. \A k \in DOMAIN queue : queue[k].future = "pending" => queue[k].owner # c
  BY DEF Owned, Awaited
<1>3. \A d \in Clients : pc'[d] # "future" => reply'[d] = "none"
  BY DEF Owned
<1>4. CASE queue' = queue
  BY <1>1, <1>2, <1>3, <1>4 DEF Owned, Awaited
<1>5. CASE /\ Put(c, op, item, future)
           /\ future = "pending" => /\ pc'[c] = "future" /\ call'[c].op = op /\ op # "frame"
                                    /\ op = "record" => call'[c].item = item
  <2> DEFINE m == [op |-> op, item |-> item, owner |-> c, future |-> future]
  <2>1. /\ m \in Message /\ queue' = Append(queue, m)
        /\ m.op = op /\ m.item = item /\ m.owner = c /\ m.future = future
    BY <1>5 DEF Put, Message
  <2> HIDE DEF m
  <2>2. /\ Len(queue) \in Nat
        /\ DOMAIN queue = 1 .. Len(queue) /\ DOMAIN queue' = 1 .. Len(queue) + 1
        /\ \A k \in DOMAIN queue : queue'[k] = queue[k]
        /\ queue'[Len(queue) + 1] = m
    <3>1. m \in Message /\ queue \in Seq(Message)
      BY <2>1, QueueTypes
    <3>2. /\ Len(queue) \in Nat /\ DOMAIN queue = 1 .. Len(queue)
          /\ DOMAIN Append(queue, m) = 1 .. Len(queue) + 1
          /\ \A k \in DOMAIN queue : Append(queue, m)[k] = queue[k]
          /\ Append(queue, m)[Len(queue) + 1] = m
      BY <3>1, Appended
    <3> QED BY <2>1, <3>2
  <2>3. \A k \in DOMAIN queue' : k \in DOMAIN queue \/ (k = Len(queue) + 1 /\ queue'[k] = m)
    BY <2>2
  <2>4. reply[c] = "none"
    BY DEF Owned
  <2>5. ASSUME NEW k \in DOMAIN queue', queue'[k].future = "pending"
        PROVE  /\ pc'[queue'[k].owner] = "future" /\ reply'[queue'[k].owner] = "none"
               /\ call'[queue'[k].owner].op = queue'[k].op /\ queue'[k].op # "frame"
               /\ queue'[k].op = "record" => call'[queue'[k].owner].item = queue'[k].item
    <3>1. CASE k \in DOMAIN queue
      BY <2>2, <2>5, <3>1, <1>1, <1>2 DEF Owned, Awaited
    <3>2. CASE queue'[k] = m
      BY <3>2, <2>1, <2>4, <2>5, <1>5
    <3> QED BY <2>3, <3>1, <3>2
  <2>6. ASSUME NEW j \in DOMAIN queue', NEW k \in DOMAIN queue',
               queue'[j].future = "pending", queue'[k].future = "pending",
               queue'[j].owner = queue'[k].owner
        PROVE  j = k
    <3>1. CASE j \in DOMAIN queue /\ k \in DOMAIN queue
      BY <2>2, <2>6, <3>1 DEF Owned, Awaited
    <3>2. CASE j \in DOMAIN queue /\ k \notin DOMAIN queue
      BY <2>1, <2>2, <2>3, <2>6, <3>2, <1>2
    <3>3. CASE k \in DOMAIN queue /\ j \notin DOMAIN queue
      BY <2>1, <2>2, <2>3, <2>6, <3>3, <1>2
    <3>4. CASE k \notin DOMAIN queue /\ j \notin DOMAIN queue
      BY <2>3, <3>4
    <3> QED BY <3>1, <3>2, <3>3, <3>4
  <2> QED BY <1>3, <2>5, <2>6 DEF Owned, Awaited
<1> QED BY <1>4, <1>5

\* The same of a call that has the lock.
LEMMA UnderLockOwned ==
  ASSUME TypeOK, Owned, NEW c \in Clients, pc[c] # "future",
         NEW op \in Ops, NEW item \in Items \cup {None}, UnderLock(c, op, item),
         call'[c].op = op /\ call'[c].item = item,
         \A d \in Clients : d # c => call'[d] = call[d], UNCHANGED reply
  PROVE  Owned'
<1>1. pc \in [Clients -> {"idle", "lock", "future"}]
  BY DEF TypeOK
<1>2. CASE op = "record" /\ PutRecord(c, item)
  <2>1. /\ Put(c, op, item, "pending") /\ pc'[c] = "future"
        /\ \A d \in Clients : d # c => pc'[d] = pc[d]
    BY <1>1, <1>2 DEF PutRecord
  <2> QED BY <1>2, <2>1, PutOwned
<1>3. CASE op = "frame" /\ PutFrame(c, item)
  <2>1. Put(c, op, item, "none") /\ \A d \in Clients : d # c => pc'[d] = pc[d]
    BY <1>1, <1>3 DEF PutFrame
  <2> QED BY <2>1, PutOwned
<1>4. CASE StartFails(c)
  <2>1. queue' = queue /\ \A d \in Clients : d # c => pc'[d] = pc[d]
    BY <1>1, <1>4 DEF StartFails
  <2> QED BY <2>1, PutOwned
<1>5. CASE op = "close" /\ PutClose(c)
  <2>1. /\ queue' = queue \/ (Put(c, op, None, "pending") /\ pc'[c] = "future")
        /\ \A d \in Clients : d # c => pc'[d] = pc[d]
        /\ op # "record"
    BY <1>1, <1>5 DEF PutClose
  <2> QED BY <1>5, <2>1, PutOwned
<1> QED BY <1>2, <1>3, <1>4, <1>5 DEF UnderLock

\* And of a call that enters.
LEMMA EnterOwned ==
  ASSUME TypeOK, Owned, NEW c \in Clients, NEW op \in Ops, NEW item \in Items \cup {None},
         Enter(c, op, item)
  PROVE  Owned'
<1>1. /\ pc[c] = "idle" /\ call'[c].op = op /\ call'[c].item = item
      /\ \A d \in Clients : d # c => call'[d] = call[d]
      /\ UNCHANGED reply
  BY DEF Enter, TypeOK
<1>2. CASE UnderLock(c, op, item)
  BY <1>1, <1>2, UnderLockOwned
<1>3. CASE pc' = [pc EXCEPT ![c] = "lock"] /\ UNCHANGED queue
  <2>1. \A d \in Clients : d # c => pc'[d] = pc[d]
    BY <1>3 DEF TypeOK
  <2> QED BY <1>1, <1>3, <2>1, PutOwned
<1> QED BY <1>2, <1>3 DEF Enter

\* The actor takes a message and answers it.
LEMMA DequeueOwned ==
  ASSUME TypeOK, Carried, Owned, queue # <<>>, Dequeue,
         NEW r \in {"ok", "error"}, Answer(Head(queue), r) \/ Head(queue).future # "pending",
         Answer(Head(queue), r) \/ reply' = reply
  PROVE  Owned'
<1> DEFINE m == Head(queue)
<1>1. /\ queue' = Tail(queue) /\ pc' = pc /\ call' = call
      /\ \A k \in DOMAIN queue' : k + 1 \in DOMAIN queue /\ queue'[k] = queue[k + 1]
      /\ 1 \in DOMAIN queue /\ m = queue[1] /\ m.owner \in Clients
  BY QueueHead DEF Dequeue, Message
<1>2. \A k \in DOMAIN queue' : k \in Nat /\ k # 0 /\ queue'[k].owner \in Clients
  <2>1. queue' \in Seq(Message)
    BY <1>1, QueueHead
  <2>2. DOMAIN queue' = 1 .. Len(queue') /\ Len(queue') \in Nat
    BY <2>1, LenProperties
  <2> QED BY <1>1, <2>2, QueueTypes
<1> HIDE DEF m
<1>3. \A k \in DOMAIN queue' : queue'[k].future = "pending" =>
         m.future # "pending" \/ queue'[k].owner # m.owner
  <2> SUFFICES ASSUME NEW k \in DOMAIN queue', queue'[k].future = "pending",
                      m.future = "pending", queue'[k].owner = m.owner
               PROVE  FALSE
    OBVIOUS
  <2>1. k + 1 = 1
    BY <1>1 DEF Owned, Awaited
  <2> QED BY <2>1, <1>2
<1>4. reply' = IF m.future = "pending" THEN [reply EXCEPT ![m.owner] = reply'[m.owner]] ELSE reply
  BY <1>1 DEF Answer, TypeOK, m
<1>5. \A k \in DOMAIN queue' : queue'[k].future = "pending" =>
         reply'[queue'[k].owner] = reply[queue'[k].owner]
  BY <1>1, <1>2, <1>3, <1>4 DEF TypeOK
<1>6. \A k \in DOMAIN queue' : queue'[k].future = "pending" =>
        /\ pc'[queue'[k].owner] = "future" /\ reply'[queue'[k].owner] = "none"
        /\ call'[queue'[k].owner].op = queue'[k].op /\ queue'[k].op # "frame"
        /\ queue'[k].op = "record" => call'[queue'[k].owner].item = queue'[k].item
  BY <1>1, <1>5 DEF Owned, Awaited
<1>7. ASSUME NEW j \in DOMAIN queue', NEW k \in DOMAIN queue',
             queue'[j].future = "pending", queue'[k].future = "pending",
             queue'[j].owner = queue'[k].owner
      PROVE  j = k
  <2>1. j + 1 = k + 1
    BY <1>1, <1>7 DEF Owned, Awaited
  <2> QED BY <2>1, <1>2
<1>8. m.future = "pending" => pc[m.owner] = "future"
  BY <1>1 DEF Owned, Awaited
<1>9. \A c \in Clients : pc'[c] # "future" => reply'[c] = "none"
  BY <1>1, <1>4, <1>8 DEF Owned, TypeOK
<1> QED BY <1>6, <1>7, <1>9 DEF Owned, Awaited

\* Owned is inductive.
LEMMA OwnedStep ==
  ASSUME TypeOK, Carried, Owned, Waiting, [Next]_vars PROVE Owned'
<1>1. ASSUME NEW c \in Clients, NEW e \in Events, Record(c, e) PROVE Owned'
  BY <1>1, EnterOwned DEF Record, Ops, Items
<1>2. ASSUME NEW c \in Clients, NEW f \in Frames, JournalFrame(c, f) PROVE Owned'
  BY <1>2, EnterOwned DEF JournalFrame, Ops, Items
<1>3. ASSUME NEW c \in Clients, Close(c) PROVE Owned'
  BY <1>3, EnterOwned DEF Close, Ops
<1>4. ASSUME NEW c \in Clients, Flush(c) PROVE Owned'
  <2>1. /\ Put(c, "flush", None, "pending") /\ pc'[c] = "future" /\ call'[c].op = "flush"
        /\ \A d \in Clients : d # c => pc'[d] = pc[d] /\ call'[d] = call[d]
        /\ UNCHANGED reply /\ pc[c] # "future"
    BY <1>4 DEF Flush, TypeOK
  <2> QED BY <2>1, PutOwned DEF Ops
<1>5. ASSUME NEW c \in Clients, Acquire(c) PROVE Owned'
  <2>1. pc[c] # "future"
    BY <1>5, WaiterTypes DEF Acquire, Waiting
  <2>2. call[c].op \in Ops /\ call[c].item \in Items \cup {None}
    BY DEF TypeOK, Call
  <2>3. UnderLock(c, call[c].op, call[c].item) /\ UNCHANGED <<call, reply>>
    BY <1>5 DEF Acquire
  <2> QED BY <2>1, <2>2, <2>3, UnderLockOwned
<1>6. ASSUME NEW c \in Clients, Return(c) PROVE Owned'
  <2>1. \A k \in DOMAIN queue : queue[k].future = "pending" => queue[k].owner # c
    BY <1>6 DEF Owned, Awaited, Return
  <2>2. /\ queue' = queue /\ call' = call
        /\ \A d \in Clients : d # c => pc'[d] = pc[d] /\ reply'[d] = reply[d]
        /\ pc'[c] = "idle" /\ reply'[c] = "none"
    BY <1>6 DEF Return, TypeOK
  <2> QED BY <2>1, <2>2, QueueTypes DEF Owned, Awaited
<1>7. ASSUME NEW c \in Clients, Cancel(c) PROVE Owned'
  <2>1. /\ call' = call
        /\ \A d \in Clients : d # c => pc'[d] = pc[d] /\ reply'[d] = reply[d]
        /\ pc'[c] = "idle" /\ reply'[c] = "none"
    BY <1>7 DEF Cancel, TypeOK
  <2>2. CASE pc[c] = "lock" /\ queue' = queue
    <3>1. \A k \in DOMAIN queue : queue[k].future = "pending" => queue[k].owner # c
      BY <2>2 DEF Owned, Awaited
    <3> QED BY <2>1, <2>2, <3>1, QueueTypes DEF Owned, Awaited
  <2>3. CASE queue' = [k \in DOMAIN queue |->
                       IF queue[k].owner = c /\ queue[k].future = "pending"
                         THEN [queue[k] EXCEPT !.future = "cancelled"] ELSE queue[k]]
    <3>1. DOMAIN queue' = DOMAIN queue
      BY <2>3
    <3>2. \A k \in DOMAIN queue : queue'[k].future = "pending" =>
             queue'[k] = queue[k] /\ queue[k].owner \in Clients /\ queue[k].owner # c
      BY <2>3, QueueTypes DEF Message
    <3> QED BY <2>1, <3>1, <3>2 DEF Owned, Awaited
  <2> QED BY <1>7, <2>2, <2>3 DEF Cancel
<1>8. ASSUME OpenFiles PROVE Owned'
  BY <1>8 DEF OpenFiles, callVars, Owned, Awaited
<1>9. ASSUME Reject PROVE Owned'
  BY <1>9, DequeueOwned DEF Reject, Serving
<1>10. ASSUME WriteRecord PROVE Owned'
  <2>1. queue # <<>> /\ Dequeue /\ \E r \in {"ok", "error"} : Answer(Head(queue), r)
    BY <1>10 DEF WriteRecord, Healthy, Serving
  <2> QED BY <2>1, DequeueOwned
<1>11. ASSUME WriteFrame PROVE Owned'
  <2>1. queue # <<>> /\ Dequeue /\ UNCHANGED reply /\ Head(queue).op = "frame"
    BY <1>11 DEF WriteFrame, Healthy, Serving
  <2>2. Head(queue).future # "pending"
    BY <2>1, QueueHead DEF Owned, Awaited
  <2> QED BY <2>1, <2>2, DequeueOwned
<1>12. ASSUME ServeFlush PROVE Owned'
  BY <1>12, DequeueOwned DEF ServeFlush, Healthy, Serving
<1>13. ASSUME ServeClose PROVE Owned'
  <2>1. queue # <<>> /\ Dequeue /\ \E r \in {"ok", "error"} : Answer(Head(queue), r)
    BY <1>13 DEF ServeClose, Serving
  <2> QED BY <2>1, DequeueOwned
<1>14. ASSUME Crash PROVE Owned'
  <2>1. /\ DOMAIN queue' = {} /\ \A d \in Clients : reply'[d] = "none"
    BY <1>14, EmptySeq DEF Crash
  <2> QED BY <2>1 DEF Owned
<1>15. ASSUME UNCHANGED vars PROVE Owned'
  BY <1>15 DEF vars, callVars, Owned, Awaited
<1> QED BY <1>1, <1>2, <1>3, <1>4, <1>5, <1>6, <1>7, <1>8, <1>9, <1>10, <1>11, <1>12, <1>13,
           <1>14, <1>15 DEF Next, Actor

-----------------------------------------------------------------------------
(* What the files hold.                                                    *)

\* Appending the whole row of i adds this row and keeps the others.
LEMMA AppendHolds ==
  ASSUME NEW S, NEW s \in Seq(Row(S)), NEW i \in S, NEW e
  PROVE  Holds(Append(s, Whole(i)), e) <=> Holds(s, e) \/ e = i
<1>1. Whole(i) \in Row(S)
  BY DEF Whole, Row
<1>2. /\ Len(s) \in Nat /\ DOMAIN s = 1 .. Len(s)
      /\ DOMAIN Append(s, Whole(i)) = 1 .. Len(s) + 1
      /\ \A k \in DOMAIN s : Append(s, Whole(i))[k] = s[k]
      /\ Append(s, Whole(i))[Len(s) + 1] = Whole(i)
  BY <1>1, Appended
<1>3. Whole(e) = Whole(i) <=> e = i
  BY DEF Whole
<1> QED BY <1>2, <1>3 DEF Holds

\* A row that is cut short adds nothing and keeps the others.
LEMMA PartHolds ==
  ASSUME NEW S, NEW s \in Seq(Row(S)), NEW i \in S, NEW t \in PartWritten(s, i), NEW e
  PROVE  Holds(t, e) <=> Holds(s, e)
<1>1. CASE t = s
  BY <1>1
<1>2. CASE t = Append(s, Torn(i))
  <2>1. Torn(i) \in Row(S) /\ Torn(i) # Whole(e)
    BY DEF Torn, Row, Whole
  <2>2. /\ Len(s) \in Nat /\ DOMAIN s = 1 .. Len(s)
        /\ DOMAIN Append(s, Torn(i)) = 1 .. Len(s) + 1
        /\ \A k \in DOMAIN s : Append(s, Torn(i))[k] = s[k]
        /\ Append(s, Torn(i))[Len(s) + 1] = Torn(i)
    BY <2>1, Appended
  <2> QED BY <1>2, <2>1, <2>2 DEF Holds
<1> QED BY <1>1, <1>2 DEF PartWritten

\* Completing the row of i adds at most this row and keeps the others.
LEMMA CompletedHolds ==
  ASSUME NEW S, NEW s \in Seq(Row(S)), NEW i \in S, NEW e
  PROVE  /\ Holds(s, e) => Holds(Completed(s, i), e)
         /\ Holds(Completed(s, i), e) => Holds(s, e) \/ e = i
<1>1. CASE s # <<>> /\ s[Len(s)] = Torn(i)
  <2>1. Len(s) \in Nat /\ DOMAIN s = 1 .. Len(s)
    BY LenProperties
  <2>2. Completed(s, i) = [s EXCEPT ![Len(s)] = Whole(i)]
    BY <1>1 DEF Completed
  <2>3. /\ DOMAIN Completed(s, i) = DOMAIN s
        /\ \A k \in DOMAIN s :
             Completed(s, i)[k] = IF k = Len(s) THEN Whole(i) ELSE s[k]
    BY <2>2
  <2>4. Whole(e) # Torn(i) /\ (Whole(e) = Whole(i) <=> e = i)
    BY DEF Whole, Torn
  <2> QED BY <1>1, <2>3, <2>4 DEF Holds
<1>2. CASE ~(s # <<>> /\ s[Len(s)] = Torn(i))
  <2>1. Completed(s, i) = Append(s, Whole(i))
    BY <1>2 DEF Completed
  <2> QED BY <2>1, AppendHolds
<1> QED BY <1>1, <1>2

\* No whole row is lost.
Kept == \A e \in Events : (Holds(jsonl, e) => Holds(jsonl', e))
                          /\ (Holds(prolog, e) => Holds(prolog', e))

\* A record that is written completely.
LEMMA BothHold ==
  ASSUME TypeOK, PrologHasSource, NEW i \in Events,
         jsonl' = Append(jsonl, Whole(i)), prolog' = Append(prolog, Whole(i))
  PROVE  Kept /\ PrologHasSource' /\ Holds(jsonl', i) /\ Holds(prolog', i)
<1>1. /\ \A e : Holds(Append(jsonl, Whole(i)), e) <=> Holds(jsonl, e) \/ e = i
      /\ \A e : Holds(Append(prolog, Whole(i)), e) <=> Holds(prolog, e) \/ e = i
  BY AppendHolds DEF TypeOK
<1>2. /\ \A e : Holds(jsonl', e) <=> Holds(jsonl, e) \/ e = i
      /\ \A e : Holds(prolog', e) <=> Holds(prolog, e) \/ e = i
  BY <1>1
<1> QED BY <1>2 DEF Kept, PrologHasSource

\* A record that is cut short.
LEMMA CutShortHolds ==
  ASSUME TypeOK, PrologHasSource, NEW i \in Events, NEW file \in {"jsonl", "prolog"},
         CutShort(file, i)
  PROVE  Kept /\ PrologHasSource' /\ (file = "prolog" => Holds(jsonl', i))
<1>1. jsonl \in Seq(Row(Events)) /\ prolog \in Seq(Row(Events))
  BY DEF TypeOK
<1>2. CASE file = "jsonl" /\ jsonl' \in PartWritten(jsonl, i) /\ prolog' = prolog
  <2>1. \A e : Holds(jsonl', e) <=> Holds(jsonl, e)
    BY <1>1, <1>2, PartHolds
  <2> QED BY <1>2, <2>1 DEF Kept, PrologHasSource
<1>3. CASE /\ file = "prolog" /\ jsonl' = Append(jsonl, Whole(i))
           /\ prolog' \in PartWritten(prolog, i)
  <2>1. \A e : Holds(prolog', e) <=> Holds(prolog, e)
    BY <1>1, <1>3, PartHolds
  <2>2. \A e : Holds(Append(jsonl, Whole(i)), e) <=> Holds(jsonl, e) \/ e = i
    BY <1>1, AppendHolds
  <2>3. \A e : Holds(jsonl', e) <=> Holds(jsonl, e) \/ e = i
    BY <1>3, <2>2
  <2> QED BY <2>1, <2>3 DEF Kept, PrologHasSource
<1> QED BY <1>2, <1>3 DEF CutShort

\* What close() flushes: nothing, or the row that a failed write left in the buffer.
LEMMA FlushHolds ==
  ASSUME TypeOK, Carried, BufferedHasSource, PrologHasSource,
         jsonl' = FlushPending("jsonl", jsonl), prolog' = FlushPending("prolog", prolog)
  PROVE  Kept /\ PrologHasSource'
<1>1. ASSUME NEW name \in {"jsonl", "prolog"}, NEW s \in Seq(Row(Events)), NEW e \in Events
      PROVE  /\ Holds(s, e) => Holds(FlushPending(name, s), e)
             /\ Holds(FlushPending(name, s), e) =>
                  Holds(s, e) \/ \E p \in pending : p.file = name /\ p.item = e
  <2>1. CASE \E p \in pending : p.file = name
    <3> DEFINE q == CHOOSE p \in pending : p.file = name
    <3>1. q \in pending /\ q.file = name
      BY <2>1
    <3>2. q.item \in Events
      BY <3>1, <1>1 DEF Carried
    <3>3. FlushPending(name, s) = Completed(s, q.item)
      BY <2>1 DEF FlushPending
    <3> HIDE DEF q
    <3>4. /\ Holds(s, e) => Holds(Completed(s, q.item), e)
          /\ Holds(Completed(s, q.item), e) => Holds(s, e) \/ e = q.item
      BY <3>2, CompletedHolds
    <3> QED BY <3>1, <3>3, <3>4
  <2>2. CASE ~ \E p \in pending : p.file = name
    BY <2>2 DEF FlushPending
  <2> QED BY <2>1, <2>2
<1>2. jsonl \in Seq(Row(Events)) /\ prolog \in Seq(Row(Events))
  BY DEF TypeOK
<1>3. \A e \in Events : /\ Holds(jsonl, e) => Holds(jsonl', e)
                        /\ Holds(prolog, e) => Holds(prolog', e)
                        /\ Holds(prolog', e) =>
                             Holds(prolog, e) \/ \E p \in pending : p.file = "prolog" /\ p.item = e
  BY <1>1, <1>2
<1> QED BY <1>3 DEF Kept, PrologHasSource, BufferedHasSource

\* No step loses a whole row, and no step makes a Prolog row that lacks its source.
LEMMA FilesStep ==
  ASSUME TypeOK, Carried, BufferedHasSource, PrologHasSource, [Next]_vars
  PROVE  Kept /\ BufferedHasSource' /\ PrologHasSource'
<1>1. ASSUME Kept, pending' \subseteq pending PROVE BufferedHasSource'
  BY <1>1 DEF BufferedHasSource, Kept, TypeOK, Carried
<1>2. CASE UNCHANGED <<jsonl, prolog, pending>>
  BY <1>2 DEF Kept, BufferedHasSource, PrologHasSource
<1>3. ASSUME WriteRecord PROVE Kept /\ BufferedHasSource' /\ PrologHasSource'
  <2> DEFINE e == Head(queue).item
  <2>1. e \in Events
    BY <1>3, QueueHead DEF WriteRecord, Healthy, Serving, Carries
  <2>2. CASE jsonl' = Append(jsonl, Whole(e)) /\ prolog' = Append(prolog, Whole(e))
              /\ pending' = pending
    <3>1. Kept /\ PrologHasSource'
      BY <2>1, <2>2, BothHold
    <3> QED BY <3>1, <2>2, <1>1
  <2>3. CASE UNCHANGED <<jsonl, prolog, pending>>
    BY <2>3, <1>2
  <2>4. ASSUME NEW file \in {"jsonl", "prolog"}, CutShort(file, e),
               pending' = {[file |-> file, item |-> e]}
        PROVE  Kept /\ BufferedHasSource' /\ PrologHasSource'
    <3>1. Kept /\ PrologHasSource' /\ (file = "prolog" => Holds(jsonl', e))
      BY <2>1, <2>4, CutShortHolds
    <3> QED BY <3>1, <2>4 DEF BufferedHasSource
  <2> QED BY <1>3, <2>2, <2>3, <2>4 DEF WriteRecord
<1>4. ASSUME WriteFrame PROVE Kept /\ BufferedHasSource' /\ PrologHasSource'
  <2>1. UNCHANGED <<jsonl, prolog>> /\ \A p \in pending' : p \in pending \/ p.file = "frames"
    BY <1>4 DEF WriteFrame
  <2> QED BY <2>1 DEF Kept, BufferedHasSource, PrologHasSource
<1>5. ASSUME ServeClose PROVE Kept /\ BufferedHasSource' /\ PrologHasSource'
  <2>1. CASE /\ jsonl' = FlushPending("jsonl", jsonl) /\ prolog' = FlushPending("prolog", prolog)
             /\ pending' = {}
    <3>1. Kept /\ PrologHasSource'
      BY <2>1, FlushHolds
    <3> QED BY <2>1, <3>1, <1>1
  <2>2. CASE UNCHANGED fileVars
    BY <2>2, <1>2 DEF fileVars
  <2> QED BY <1>5, <2>1, <2>2 DEF ServeClose
<1>6. ASSUME Crash PROVE Kept /\ BufferedHasSource' /\ PrologHasSource'
  <2> DEFINE e == Head(queue).item
  <2>1. pending' = {}
    BY <1>6 DEF Crash
  <2>2. CASE UNCHANGED <<jsonl, prolog>>
    BY <2>1, <2>2 DEF Kept, BufferedHasSource, PrologHasSource
  <2>3. CASE /\ Healthy("record")
             /\ \/ \E file \in {"jsonl", "prolog"} : CutShort(file, e)
                \/ jsonl' = Append(jsonl, Whole(e)) /\ prolog' = Append(prolog, Whole(e))
    <3>1. e \in Events
      BY <2>3, QueueHead DEF Healthy, Serving, Carries
    <3>2. Kept /\ PrologHasSource'
      BY <2>3, <3>1, CutShortHolds, BothHold
    <3> QED BY <2>1, <3>2, <1>1
  <2> QED BY <1>6, <2>2, <2>3 DEF Crash
<1>7. ASSUME NEW c \in Clients, NEW op, NEW item, Enter(c, op, item)
      PROVE  UNCHANGED <<jsonl, prolog, pending>>
  BY <1>7 DEF Enter, fileVars
<1>8. ASSUME NEW c \in Clients, Flush(c) \/ Acquire(c) \/ Return(c) \/ Cancel(c)
      PROVE  UNCHANGED <<jsonl, prolog, pending>>
  BY <1>8 DEF Flush, Acquire, Return, Cancel, fileVars
<1>9. ASSUME OpenFiles \/ Reject \/ ServeFlush \/ UNCHANGED vars
      PROVE  UNCHANGED <<jsonl, prolog, pending>>
  BY <1>9 DEF OpenFiles, Reject, ServeFlush, fileVars, vars
<1> QED BY <1>2, <1>3, <1>4, <1>5, <1>6, <1>7, <1>8, <1>9
        DEF Next, Actor, Record, JournalFrame, Close

\* What the answer of a message grants: the future of its owner, who made this call.
LEMMA AnswerGrants ==
  ASSUME TypeOK, Carried, Owned, queue # <<>>, NEW r, Answer(Head(queue), r),
         NEW c \in Clients, reply'[c] = "ok", reply[c] # "ok"
  PROVE  /\ r = "ok" /\ call[c].op = Head(queue).op
         /\ call[c].op = "record" => call[c].item = Head(queue).item
<1>1. 1 \in DOMAIN queue /\ Head(queue) = queue[1]
  BY QueueHead
<1>2. Head(queue).future = "pending" /\ Head(queue).owner = c /\ r = "ok"
  BY DEF Answer, TypeOK
<1> QED BY <1>1, <1>2 DEF Owned, Awaited

\* A grant is backed by the files, in every step.
LEMMA GrantedStep ==
  ASSUME TypeOK, Carried, Owned, GrantedDurable, Kept, [Next]_vars
  PROVE  GrantedDurable'
<1>1. ASSUME NEW c \in Clients, reply[c] = "ok", call[c].op = "record"
      PROVE  Holds(jsonl', call[c].item) /\ Holds(prolog', call[c].item)
  BY <1>1 DEF GrantedDurable, Written, Kept, Carried, Carries
<1>2. CASE \A c \in Clients : reply'[c] = "ok" => reply[c] = "ok" /\ call'[c] = call[c]
  BY <1>1, <1>2 DEF GrantedDurable, Written
<1>3. CASE /\ queue # <<>> /\ call' = call
           /\ \E r \in {"ok", "error"} :
                /\ Answer(Head(queue), r)
                /\ r = "ok" /\ Head(queue).op = "record" =>
                     Holds(jsonl', Head(queue).item) /\ Holds(prolog', Head(queue).item)
  BY <1>1, <1>3, AnswerGrants DEF GrantedDurable, Written
<1>4. ASSUME NEW c \in Clients, NEW op, NEW item, Enter(c, op, item)
      PROVE  \A d \in Clients : reply'[d] = "ok" => reply[d] = "ok" /\ call'[d] = call[d]
  <2>1. /\ pc[c] = "idle" /\ reply' = reply
        /\ \A d \in Clients : d # c => call'[d] = call[d]
    BY <1>4 DEF Enter, TypeOK
  <2>2. reply[c] = "none"
    BY <2>1 DEF Owned
  <2> QED BY <2>1, <2>2
<1>5. ASSUME NEW c \in Clients, Flush(c) \/ Acquire(c) \/ Return(c) \/ Cancel(c)
      PROVE  \A d \in Clients : reply'[d] = "ok" => reply[d] = "ok" /\ call'[d] = call[d]
  <2>1. CASE Flush(c)
    <3>1. /\ pc[c] = "idle" /\ reply' = reply
          /\ \A d \in Clients : d # c => call'[d] = call[d]
      BY <2>1 DEF Flush, TypeOK
    <3>2. reply[c] = "none"
      BY <3>1 DEF Owned
    <3> QED BY <3>1, <3>2
  <2>2. CASE Acquire(c) \/ Return(c) \/ Cancel(c)
    BY <2>2 DEF Acquire, Return, Cancel, TypeOK
  <2> QED BY <1>5, <2>1, <2>2
<1>6. ASSUME OpenFiles \/ WriteFrame \/ Crash \/ UNCHANGED vars
      PROVE  \A d \in Clients : reply'[d] = "ok" => reply[d] = "ok" /\ call'[d] = call[d]
  BY <1>6 DEF OpenFiles, WriteFrame, Crash, Dequeue, callVars, vars
<1>7. ASSUME Reject PROVE GrantedDurable'
  BY <1>7, <1>3 DEF Reject, Serving, Dequeue
<1>8. ASSUME WriteRecord PROVE GrantedDurable'
  <2> DEFINE e == Head(queue).item
  <2>1. queue # <<>> /\ call' = call /\ e \in Events
    BY <1>8, QueueHead DEF WriteRecord, Healthy, Serving, Dequeue, Carries
  <2>2. CASE /\ jsonl' = Append(jsonl, Whole(e)) /\ prolog' = Append(prolog, Whole(e))
             /\ Answer(Head(queue), "ok")
    <3>1. Holds(Append(jsonl, Whole(e)), e) /\ Holds(Append(prolog, Whole(e)), e)
      BY <2>1, AppendHolds DEF TypeOK
    <3> QED BY <2>1, <2>2, <3>1, <1>3
  <2>3. CASE Answer(Head(queue), "error")
    BY <2>1, <2>3, <1>3
  <2> QED BY <1>8, <2>2, <2>3 DEF WriteRecord
<1>9. ASSUME ServeFlush \/ ServeClose PROVE GrantedDurable'
  BY <1>9, <1>3 DEF ServeFlush, ServeClose, Healthy, Serving, Dequeue
<1> QED BY <1>2, <1>4, <1>5, <1>6, <1>7, <1>8, <1>9 DEF Next, Actor, Record, JournalFrame, Close

\* A call returns only with what it was granted.
LEMMA AckedStep ==
  ASSUME TypeOK, GrantedDurable, AckedDurable, Kept, [Next]_vars
  PROVE  AckedDurable'
<1>1. \A e \in acked : Holds(jsonl', e) /\ Holds(prolog', e)
  BY DEF AckedDurable, Kept, TypeOK
<1>2. CASE acked' = acked
  BY <1>1, <1>2 DEF AckedDurable
<1>3. ASSUME NEW c \in Clients, Return(c) PROVE AckedDurable'
  <2>1. UNCHANGED <<jsonl, prolog>>
    BY <1>3 DEF Return, fileVars
  <2>2. acked' = IF call[c].op = "record" /\ reply[c] = "ok"
                   THEN acked \cup {call[c].item} ELSE acked
    BY <1>3 DEF Return
  <2> QED BY <2>1, <2>2 DEF AckedDurable, GrantedDurable, Written
<1>4. ASSUME NEW c \in Clients, NEW op, NEW item, Enter(c, op, item) PROVE acked' = acked
  BY <1>4 DEF Enter
<1>5. ASSUME \/ \E c \in Clients : Flush(c) \/ Acquire(c) \/ Cancel(c)
             \/ Actor \/ Crash \/ UNCHANGED vars
      PROVE  acked' = acked
  BY <1>5 DEF Flush, Acquire, Cancel, Actor, OpenFiles, Reject, WriteRecord, WriteFrame,
              ServeFlush, ServeClose, Dequeue, Crash, vars
<1> QED BY <1>2, <1>3, <1>4, <1>5 DEF Next, Record, JournalFrame, Close

\* The invariant holds initially.
LEMMA InitInv == Init => IInv
<1> SUFFICES ASSUME Init PROVE IInv
  OBVIOUS
<1>1. TypeInv
  BY InitType
<1>2. /\ DOMAIN queue = {} /\ DOMAIN lockq = {} /\ DOMAIN prolog = {}
      /\ pending = {} /\ acked = {} /\ \A c \in Clients : reply[c] = "none"
  BY EmptySeq DEF Init
<1> QED BY <1>1, <1>2 DEF IInv, Owned, Waiting, GrantedDurable, AckedDurable,
                          BufferedHasSource, PrologHasSource, Holds

\* The invariant is inductive.
LEMMA InvStep == IInv /\ [Next]_vars => IInv'
<1> SUFFICES ASSUME IInv, [Next]_vars PROVE IInv'
  OBVIOUS
<1>1. /\ TypeInv /\ TypeOK /\ Carried /\ Owned /\ Waiting /\ GrantedDurable /\ AckedDurable
      /\ BufferedHasSource /\ PrologHasSource
  BY DEF IInv, TypeInv
<1>2. TypeInv'
  BY <1>1, TypeStep
<1>3. Owned' /\ Waiting'
  BY <1>1, OwnedStep, WaitingStep
<1>4. Kept /\ BufferedHasSource' /\ PrologHasSource'
  BY <1>1, FilesStep
<1>5. GrantedDurable' /\ AckedDurable'
  BY <1>1, <1>4, GrantedStep, AckedStep
<1> QED BY <1>2, <1>3, <1>4, <1>5 DEF IInv

\* What record() acknowledged stays complete in both files: through failed writes,
\* cancelled callers, close and reopen, and any number of crashes.
THEOREM AcknowledgedIsDurable == Spec => []AckedDurable
<1>1. IInv => AckedDurable
  BY DEF IInv
<1> QED BY <1>1, InitInv, InvStep, PTL DEF Spec

\* events.pl never holds the complete fact of an event whose JSON row is not complete.
THEOREM PrologFollowsJson == Spec => []PrologHasSource
<1>1. IInv => PrologHasSource
  BY DEF IInv
<1> QED BY <1>1, InitInv, InvStep, PTL DEF Spec

\* Once a write failed, no record() of this process is granted any more: the actor's
\* only answer to a record is then the failure, and nobody else completes its future.
THEOREM FailureIsSticky == Spec => FailStop
<1> DEFINE Sticky == failure => \A c \in Clients :
                       (call[c].op = "record" /\ reply'[c] = "ok") => reply[c] = "ok"
<1>1. ASSUME IInv, [Next]_vars PROVE Sticky
  <2>1. TypeOK /\ Carried /\ Owned
    BY <1>1 DEF IInv, TypeInv
  <2> SUFFICES ASSUME failure, NEW c \in Clients, call[c].op = "record",
                      reply'[c] = "ok", reply[c] # "ok"
               PROVE  FALSE
    OBVIOUS
  <2>2. ASSUME NEW d \in Clients, NEW op, NEW item, Enter(d, op, item) PROVE FALSE
    BY <2>2 DEF Enter
  <2>3. ASSUME NEW d \in Clients, Flush(d) \/ Acquire(d) \/ Return(d) \/ Cancel(d) PROVE FALSE
    BY <2>1, <2>3 DEF Flush, Acquire, Return, Cancel, TypeOK
  <2>4. ASSUME OpenFiles \/ WriteFrame \/ WriteRecord \/ ServeFlush \/ Crash \/ UNCHANGED vars
        PROVE  FALSE
    BY <2>4 DEF OpenFiles, WriteFrame, WriteRecord, ServeFlush, Healthy, Crash, callVars, vars
  <2>5. ASSUME Reject PROVE FALSE
    BY <2>1, <2>5, AnswerGrants DEF Reject, Serving
  <2>6. ASSUME ServeClose PROVE FALSE
    <3>1. /\ queue # <<>> /\ Head(queue).op = "close"
          /\ \E r \in {"ok", "error"} : Answer(Head(queue), r)
      BY <2>6 DEF ServeClose, Serving
    <3> QED BY <2>1, <3>1, AnswerGrants
  <2> QED BY <1>1, <2>2, <2>3, <2>4, <2>5, <2>6 DEF Next, Actor, Record, JournalFrame, Close
<1> QED BY <1>1, InitInv, InvStep, PTL DEF Spec, FailStop

-----------------------------------------------------------------------------
(* The corpus has no holes.                                                *)

Stored(i) == Holds(jsonl, i) \/ Holds(frames, i)

\* The item is in the queue, in the corpus, or in a buffer.
Begun(i) == \/ \E k \in DOMAIN queue : queue[k].item = i
            \/ Holds(jsonl, i)
            \/ \E p \in pending : p.item = i

\* A record() that waits for _state_lock hands over an event that nobody has handed over yet.
Asks(c) == pc[c] = "lock" /\ call[c].op = "record"
Fresh ==
  /\ \A e \in Events : Begun(e) => e \in used
  /\ \A c \in Clients : Asks(c) => call[c].item \in used /\ ~Begun(call[c].item)
  /\ \A c, d \in Clients : Asks(c) /\ Asks(d) /\ call[c].item = call[d].item => c = d

Bare == \A k \in DOMAIN queue : queue[k].op \in {"flush", "close"} => queue[k].item = None

\* As long as no write has failed, what this process was handed is stored or in the queue, and
\* what is ahead of an event of the queue is stored or further ahead in the queue.
QueueInOrder == ~failure =>
  /\ \A i \in journaled : Stored(i) \/ \E j \in DOMAIN queue : queue[j].item = i
  /\ \A k \in DOMAIN queue : queue[k].op = "record" =>
       \A i \in ahead[queue[k].item] : Stored(i) \/ \E j \in 1 .. k - 1 : queue[j].item = i

\* What is ahead of a row that a failed write left in the buffer of events.jsonl is stored.
BufferedInOrder ==
  \A p \in pending : p.file = "jsonl" => \A i \in ahead[p.item] : Stored(i)

OrderInv == Fresh /\ Bare /\ QueueInOrder /\ BufferedInOrder /\ NoHoles

\* A message is put: an event that was not begun before gets what is ahead of it.
LEMMA PutOrdered ==
  ASSUME TypeInv, Bare, QueueInOrder, BufferedInOrder, NoHoles, NEW m \in Message,
         queue' = Append(queue, m), UNCHANGED <<jsonl, frames, pending, failure>>,
         m.op \in {"flush", "close"} => m.item = None,
         m.op = "record" => m.item \in Events /\ ~Begun(m.item) /\ ahead'[m.item] = journaled,
         \A e \in Events : (m.op = "record" /\ e = m.item) \/ ahead'[e] = ahead[e],
         journaled' \subseteq journaled \cup {m.item}
  PROVE  /\ Bare' /\ QueueInOrder' /\ BufferedInOrder' /\ NoHoles'
         /\ \A e \in Events : Begun(e)' => Begun(e) \/ e = m.item
<1> DEFINE n == Len(queue)
<1>1. TypeOK /\ Carried /\ queue \in Seq(Message)
  BY DEF TypeInv, TypeOK
<1>2. /\ n \in Nat /\ DOMAIN queue = 1 .. n /\ DOMAIN queue' = 1 .. n + 1
      /\ \A k \in DOMAIN queue : queue'[k] = queue[k]
      /\ queue'[n + 1] = m
  BY <1>1, Appended
<1> HIDE DEF n
<1>3. ASSUME NEW k \in DOMAIN queue'
      PROVE  (k \in DOMAIN queue /\ queue'[k] = queue[k]) \/ (k = n + 1 /\ queue'[k] = m)
  <2>1. k \in 1 .. n \/ k = n + 1
    BY <1>2
  <2> QED
    BY <1>2, <2>1
<1>4. \A i : Stored(i)' <=> Stored(i)
  BY DEF Stored
<1>5. Bare'
  BY <1>3 DEF Bare
<1>6. \A e \in Events : Begun(e)' => Begun(e) \/ e = m.item
  BY <1>3 DEF Begun
<1>7. \A e \in Events : Begun(e) => ahead'[e] = ahead[e]
  OBVIOUS
<1>8. BufferedInOrder'
  <2>1. \A p \in pending : p.file = "jsonl" => p.item \in Events /\ Begun(p.item)
    BY <1>1 DEF Carried, Begun
  <2> QED
    BY <1>4, <1>7, <2>1 DEF BufferedInOrder
<1>9. NoHoles'
  <2>1. \A e \in Events : Holds(jsonl, e) => Begun(e)
    BY DEF Begun
  <2> QED
    BY <1>7, <2>1 DEF NoHoles
<1>10. ASSUME ~failure', NEW i \in journaled' PROVE Stored(i)' \/ \E j \in DOMAIN queue' : queue'[j].item = i
  <2>1. CASE i \in journaled
    BY <1>2, <1>4, <1>10, <2>1 DEF QueueInOrder
  <2>2. CASE i = m.item
    BY <1>2, <2>2
  <2> QED
    BY <1>10, <2>1, <2>2
<1>11. ASSUME ~failure', NEW k \in DOMAIN queue', queue'[k].op = "record", NEW i \in ahead'[queue'[k].item]
       PROVE  Stored(i)' \/ \E j \in 1 .. k - 1 : queue'[j].item = i
  <2>1. CASE k \in DOMAIN queue /\ queue'[k] = queue[k]
    <3>1. queue[k].item \in Events /\ Begun(queue[k].item)
      BY <1>1, <1>11, <2>1 DEF Carried, Carries, Begun
    <3>2. i \in ahead[queue[k].item]
      BY <1>7, <1>11, <2>1, <3>1
    <3>3. Stored(i) \/ \E j \in 1 .. k - 1 : queue[j].item = i
      BY <1>11, <2>1, <3>2 DEF QueueInOrder
    <3>4. \A j \in 1 .. k - 1 : j \in DOMAIN queue
      BY <1>2, <2>1
    <3> QED
      BY <1>2, <1>4, <3>3, <3>4
  <2>2. CASE k = n + 1 /\ queue'[k] = m
    <3>1. i \in journaled
      BY <1>11, <2>2
    <3>2. Stored(i) \/ \E j \in DOMAIN queue : queue[j].item = i
      BY <1>11, <3>1 DEF QueueInOrder
    <3>3. \A j \in DOMAIN queue : j \in 1 .. k - 1
      BY <1>2, <2>2
    <3> QED
      BY <1>2, <1>4, <3>2, <3>3
  <2> QED
    BY <1>3, <2>1, <2>2
<1>12. QueueInOrder'
  BY <1>10, <1>11 DEF QueueInOrder
<1> QED
  BY <1>5, <1>6, <1>8, <1>9, <1>12

\* Nobody hands anything over.
LEMMA QuietFresh ==
  ASSUME TypeInv, Fresh, used \subseteq used',
         \A e \in Events : Begun(e)' => Begun(e),
         \A d \in Clients : Asks(d)' => Asks(d) /\ call'[d].item = call[d].item
  PROVE  Fresh'
<1>1. \A d \in Clients : Asks(d) => call[d].item \in Events
  BY DEF Asks, TypeInv, Carried, Carries
<1> QED
  BY <1>1 DEF Fresh

\* A client hands over an event, or waits for the lock to do so.
LEMMA AskedFresh ==
  ASSUME TypeInv, Fresh, NEW c \in Clients, NEW e \in Events, ~Begun(e), used \subseteq used', e \in used',
         \A d \in Clients : d # c => /\ Asks(d)' => Asks(d) /\ call'[d].item = call[d].item
                                     /\ Asks(d) => call[d].item # e,
         \A x \in Events : Begun(x)' => Begun(x) \/ (x = e /\ ~Asks(c)'),
         Asks(c)' => call'[c].item = e
  PROVE  Fresh'
<1>1. \A d \in Clients : Asks(d) => call[d].item \in Events
  BY DEF Asks, TypeInv, Carried, Carries
<1>2. \A x \in Events : Begun(x)' => x \in used'
  BY DEF Fresh
<1>3. \A d \in Clients : Asks(d)' => call'[d].item \in used' /\ (~Begun(call[d].item))'
  BY <1>1 DEF Fresh
<1>4. \A d, f \in Clients : Asks(d)' /\ Asks(f)' /\ call'[d].item = call'[f].item => d = f
  BY DEF Fresh
<1> QED
  BY <1>2, <1>3, <1>4 DEF Fresh

\* The actor takes the first message: its item is stored, or the write has failed.
LEMMA TakeOrdered ==
  ASSUME TypeInv, Bare, QueueInOrder, BufferedInOrder, NoHoles, queue # <<>>, queue' = Tail(queue),
         UNCHANGED <<ahead, journaled>>, failure => failure',
         \A i \in Items : Stored(i) => Stored(i)',
         Head(queue).op \in {"record", "frame"} /\ ~failure' =>
           \A i \in Items : i = Head(queue).item => Stored(i)',
         \A e \in Events : Holds(jsonl', e) =>
           \/ Holds(jsonl, e) \/ \E p \in pending : p.file = "jsonl" /\ p.item = e
           \/ ~failure /\ Head(queue).op = "record" /\ Head(queue).item = e,
         \A p \in pending' : p \in pending \/ /\ ~failure /\ p.item = Head(queue).item
                                              /\ p.file = "jsonl" => Head(queue).op = "record"
  PROVE  /\ Bare' /\ QueueInOrder' /\ BufferedInOrder' /\ NoHoles'
         /\ \A e \in Events : Begun(e)' => Begun(e)
<1> DEFINE h == Head(queue)
<1>1. /\ TypeOK /\ Carried /\ \A e \in Events : ahead[e] \subseteq Items
      /\ journaled \subseteq Items /\ None \notin Items
  BY RecorderAssumption DEF TypeInv, TypeOK, Items
<1>2. /\ h = queue[1] /\ 1 \in DOMAIN queue /\ h \in Message /\ Carries(h.op, h.item)
      /\ \A k \in DOMAIN queue' : k + 1 \in DOMAIN queue /\ queue'[k] = queue[k + 1]
  BY <1>1, QueueHead
<1>3. /\ Len(queue) \in Nat /\ DOMAIN queue = 1 .. Len(queue)
      /\ DOMAIN queue' = 1 .. Len(queue) - 1 /\ \A j \in DOMAIN queue : j = 1 \/ j - 1 \in DOMAIN queue'
  <2>1. Len(queue) \in Nat /\ DOMAIN queue = 1 .. Len(queue) /\ queue \in Seq(Message)
    BY <1>1, QueueTypes
  <2>2. Tail(queue) \in Seq(Message) /\ Len(Tail(queue)) = Len(queue) - 1
    BY <2>1
  <2>3. DOMAIN queue' = 1 .. Len(queue) - 1
    BY <2>2, LenProperties
  <2> QED
    BY <2>1, <2>3
<1> HIDE DEF h
<1>4. h.op \in {"record", "frame"} \/ h.item = None
  BY <1>2 DEF Bare, Message, Ops
<1>5. \A i \in Items : ~failure' /\ h.item = i => Stored(i)'
  BY <1>1, <1>4 DEF h
<1>6. Bare'
  BY <1>2 DEF Bare
<1>7. ~failure /\ h.op = "record" => h.item \in Events /\ \A i \in ahead[h.item] : Stored(i)
  BY <1>2 DEF QueueInOrder, Carries
<1>8. NoHoles'
  <2>1. ASSUME NEW e \in Events, Holds(jsonl', e), NEW i \in ahead[e] PROVE Stored(i)'
    <3>1. CASE Holds(jsonl, e)
      BY <1>1, <2>1, <3>1 DEF NoHoles, Stored
    <3>2. CASE \E p \in pending : p.file = "jsonl" /\ p.item = e
      BY <1>1, <2>1, <3>2 DEF BufferedInOrder
    <3>3. CASE ~failure /\ h.op = "record" /\ h.item = e
      BY <1>1, <1>7, <2>1, <3>3
    <3> QED
      BY <2>1, <3>1, <3>2, <3>3 DEF h
  <2> QED
    BY <2>1 DEF NoHoles, Stored
<1>9. BufferedInOrder'
  <2>1. \A p \in pending : p.file = "jsonl" => p.item \in Events
    BY <1>1 DEF Carried
  <2>2. ASSUME NEW p \in pending', p.file = "jsonl", NEW i \in ahead[p.item] PROVE Stored(i)'
    <3>1. CASE p \in pending
      BY <1>1, <2>1, <2>2, <3>1 DEF BufferedInOrder
    <3>2. CASE ~failure /\ p.item = h.item /\ h.op = "record"
      BY <1>1, <1>7, <2>2, <3>2
    <3> QED
      BY <2>2, <3>1, <3>2 DEF h
  <2> QED
    BY <2>2 DEF BufferedInOrder
<1>10. ASSUME ~failure', NEW i \in Items, NEW j \in DOMAIN queue, queue[j].item = i
       PROVE  Stored(i)' \/ (j - 1 \in DOMAIN queue' /\ queue'[j - 1].item = i)
  <2>1. CASE j = 1
    BY <1>2, <1>5, <1>10, <2>1
  <2>2. CASE j # 1
    <3>1. j - 1 \in DOMAIN queue' /\ (j - 1) + 1 = j
      BY <1>3, <2>2
    <3> QED
      BY <1>2, <1>10, <3>1
  <2> QED
    BY <2>1, <2>2
<1>11. QueueInOrder'
  <2>1. ASSUME ~failure', NEW i \in journaled PROVE Stored(i)' \/ \E j \in DOMAIN queue' : queue'[j].item = i
    <3>1. Stored(i) \/ \E j \in DOMAIN queue : queue[j].item = i
      BY <2>1 DEF QueueInOrder
    <3> QED
      BY <1>1, <1>10, <2>1, <3>1
  <2>2. ASSUME ~failure', NEW k \in DOMAIN queue', queue'[k].op = "record", NEW i \in ahead[queue'[k].item]
        PROVE  Stored(i)' \/ \E j \in 1 .. k - 1 : queue'[j].item = i
    <3>1. k + 1 \in DOMAIN queue /\ queue'[k] = queue[k + 1] /\ k \in Nat /\ k <= Len(queue) - 1
      BY <1>2, <1>3
    <3>2. queue[k + 1].item \in Events
      BY <1>1, <2>2, <3>1 DEF Carried, Carries
    <3>3. i \in Items
      BY <1>1, <2>2, <3>1, <3>2
    <3>4. Stored(i) \/ \E j \in 1 .. (k + 1) - 1 : queue[j].item = i
      BY <2>2, <3>1 DEF QueueInOrder
    <3>5. ASSUME NEW j \in 1 .. (k + 1) - 1, queue[j].item = i
          PROVE  Stored(i)' \/ \E x \in 1 .. k - 1 : queue'[x].item = i
      <4>1. j \in DOMAIN queue
        BY <1>3, <3>1
      <4>2. Stored(i)' \/ (j - 1 \in DOMAIN queue' /\ queue'[j - 1].item = i)
        BY <1>10, <2>2, <3>3, <3>5, <4>1
      <4>3. j - 1 \in DOMAIN queue' => j - 1 \in 1 .. k - 1
        BY <1>3, <3>1
      <4> QED
        BY <4>2, <4>3
    <3> QED
      BY <3>3, <3>4, <3>5
  <2> QED
    BY <2>1, <2>2 DEF QueueInOrder
<1>12. \A e \in Events : Begun(e)' => Begun(e)
  <2>1. ASSUME NEW e \in Events, Begun(e)' PROVE Begun(e)
    <3>1. CASE \E k \in DOMAIN queue' : queue'[k].item = e
      BY <1>2, <3>1 DEF Begun
    <3>2. CASE Holds(jsonl', e)
      BY <1>2, <3>2 DEF Begun, h
    <3>3. CASE \E p \in pending' : p.item = e
      BY <1>2, <3>3 DEF Begun, h
    <3> QED
      BY <2>1, <3>1, <3>2, <3>3 DEF Begun
  <2> QED
    BY <2>1
<1> QED
  BY <1>6, <1>8, <1>9, <1>11, <1>12

\* Neither the files nor the queue change; futures may.
LEMMA StillOrdered ==
  ASSUME TypeInv, Bare, QueueInOrder, BufferedInOrder, NoHoles, DOMAIN queue' = DOMAIN queue,
         \A k \in DOMAIN queue : queue'[k].op = queue[k].op /\ queue'[k].item = queue[k].item,
         UNCHANGED <<jsonl, frames, pending, failure, journaled, ahead>>
  PROVE  /\ Bare' /\ QueueInOrder' /\ BufferedInOrder' /\ NoHoles'
         /\ \A e \in Events : Begun(e)' => Begun(e)
<1>1. \A i : Stored(i)' <=> Stored(i)
  BY DEF Stored
<1>2. Bare' /\ BufferedInOrder' /\ NoHoles'
  BY <1>1 DEF Bare, BufferedInOrder, NoHoles
<1>3. ASSUME ~failure', NEW k \in DOMAIN queue', queue'[k].op = "record", NEW i \in ahead'[queue'[k].item]
      PROVE  Stored(i)' \/ \E j \in 1 .. k - 1 : queue'[j].item = i
  <2>1. Stored(i) \/ \E j \in 1 .. k - 1 : queue[j].item = i
    BY <1>3 DEF QueueInOrder
  <2>2. \A j \in 1 .. k - 1 : j \in DOMAIN queue
    BY QueueTypes DEF TypeInv
  <2> QED
    BY <1>1, <2>1, <2>2
<1>4. \A i \in journaled' : ~failure' => Stored(i)' \/ \E j \in DOMAIN queue' : queue'[j].item = i
  BY <1>1 DEF QueueInOrder
<1>5. QueueInOrder'
  BY <1>3, <1>4 DEF QueueInOrder
<1> QED
  BY <1>2, <1>5 DEF Begun

\* What a call does that has the lock.
LEMMA UnderLockOrdered ==
  ASSUME TypeInv, Bare, QueueInOrder, BufferedInOrder, NoHoles, NEW c \in Clients, NEW op \in Ops,
         NEW item \in Items \cup {None}, Carries(op, item), UnderLock(c, op, item),
         op = "record" => ~Begun(item), UNCHANGED <<failure, fileVars>>
  PROVE  /\ Bare' /\ QueueInOrder' /\ BufferedInOrder' /\ NoHoles'
         /\ \A e \in Events : Begun(e)' => Begun(e) \/ (op = "record" /\ e = item)
         /\ pc'[c] # "lock" /\ \A d \in Clients : d # c => pc'[d] = pc[d]
<1>1. pc'[c] # "lock" /\ \A d \in Clients : d # c => pc'[d] = pc[d]
  BY DEF UnderLock, PutRecord, PutFrame, StartFails, PutClose, TypeInv, TypeOK
<1>2. UNCHANGED <<jsonl, frames, pending, failure>> /\ ahead \in [Events -> SUBSET Items] /\ None \notin Items
  BY RecorderAssumption DEF fileVars, TypeInv, TypeOK, Items
<1>3. CASE op = "record" /\ PutRecord(c, item)
  <2> DEFINE m == [op |-> "record", item |-> item, owner |-> c, future |-> "pending"]
  <2>1. m \in Message /\ m.op = "record" /\ m.item = item /\ item \in Events
    BY <1>3 DEF Message, Ops, Carries
  <2>2. /\ queue' = Append(queue, m) /\ ahead' = [ahead EXCEPT ![item] = journaled]
        /\ journaled' = journaled \cup {item}
    BY <1>3 DEF PutRecord, Put
  <2> HIDE DEF m
  <2>3. ahead'[item] = journaled /\ \A e \in Events : e # item => ahead'[e] = ahead[e]
    BY <1>2, <2>1, <2>2
  <2> QED
    BY <1>1, <1>2, <1>3, <2>1, <2>2, <2>3, PutOrdered
<1>4. CASE op = "frame" /\ PutFrame(c, item)
  <2> DEFINE m == [op |-> "frame", item |-> item, owner |-> c, future |-> "none"]
  <2>1. m \in Message /\ m.op = "frame" /\ m.item = item /\ item \in Frames
    BY <1>4 DEF Message, Ops, Carries
  <2>2. queue' = Append(queue, m) /\ ahead' = ahead /\ journaled' = journaled \cup {item}
    BY <1>4 DEF PutFrame, Put
  <2> HIDE DEF m
  <2>3. item \notin Events
    BY <2>1, RecorderAssumption
  <2> QED
    BY <1>1, <1>2, <2>1, <2>2, <2>3, PutOrdered
<1>5. CASE op = "close" /\ PutClose(c) /\ task # "none"
  <2> DEFINE m == [op |-> "close", item |-> None, owner |-> c, future |-> "pending"]
  <2>1. m \in Message /\ m.op = "close" /\ m.item = None
    BY DEF Message, Ops
  <2>2. queue' = Append(queue, m) /\ ahead' = ahead /\ journaled' = journaled
    BY <1>5 DEF PutClose, Put
  <2> HIDE DEF m
  <2>3. None \notin Events
    BY RecorderAssumption
  <2> QED
    BY <1>1, <1>2, <2>1, <2>2, <2>3, PutOrdered
<1>6. CASE UNCHANGED <<queue, ahead, journaled>>
  BY <1>1, <1>2, <1>6, StillOrdered
<1> QED
  BY <1>3, <1>4, <1>5, <1>6 DEF UnderLock, StartFails, PutClose

\* A call that enters.
LEMMA EnterOrdered ==
  ASSUME TypeInv, OrderInv, NEW c \in Clients, NEW op \in Ops, NEW item \in Items \cup {None},
         Carries(op, item), Enter(c, op, item), used \subseteq used',
         op = "record" => item \notin used /\ item \in used'
  PROVE  OrderInv'
<1>1. /\ Fresh /\ Bare /\ QueueInOrder /\ BufferedInOrder /\ NoHoles /\ UNCHANGED <<failure, fileVars>>
      /\ call \in [Clients -> Call] /\ call' = [call EXCEPT ![c] = [op |-> op, item |-> item]]
      /\ op = "record" => item \in Events
  BY DEF OrderInv, Enter, TypeInv, TypeOK, Carries
<1>2. call'[c].op = op /\ call'[c].item = item /\ \A d \in Clients : d # c => call'[d] = call[d]
  BY <1>1
<1>3. op = "record" => ~Begun(item) /\ \A d \in Clients : Asks(d) => call[d].item # item
  BY <1>1 DEF Fresh
<1>4. /\ Bare' /\ QueueInOrder' /\ BufferedInOrder' /\ NoHoles'
      /\ \A d \in Clients : d # c => pc'[d] = pc[d]
      /\ \/ \A e \in Events : Begun(e)' => Begun(e)
         \/ op = "record" /\ pc'[c] # "lock" /\ \A e \in Events : Begun(e)' => Begun(e) \/ e = item
  <2>1. CASE LockFree /\ UnderLock(c, op, item)
    BY <1>1, <1>3, <2>1, UnderLockOrdered
  <2>2. CASE ~LockFree
    <3>1. UNCHANGED <<queue, ahead, journaled>> /\ pc' = [pc EXCEPT ![c] = "lock"]
      BY <2>2 DEF Enter
    <3>2. \A d \in Clients : d # c => pc'[d] = pc[d]
      BY <3>1 DEF TypeInv, TypeOK
    <3> QED
      BY <1>1, <3>1, <3>2, StillOrdered DEF fileVars
  <2> QED
    BY <2>1, <2>2 DEF Enter
<1>5. \A d \in Clients : d # c => /\ Asks(d)' => Asks(d) /\ call'[d].item = call[d].item
  BY <1>2, <1>4 DEF Asks
<1>6. Fresh'
  <2>1. CASE op = "record"
    <3>1. Asks(c)' => call'[c].item = item
      BY <1>2
    <3>2. \A e \in Events : Begun(e)' => Begun(e) \/ (e = item /\ ~Asks(c)')
      BY <1>4 DEF Asks
    <3> QED
      BY <1>1, <1>3, <1>5, <2>1, <3>1, <3>2, AskedFresh
  <2>2. CASE op # "record"
    <3>1. ~Asks(c)'
      BY <1>2, <2>2 DEF Asks
    <3>2. \A e \in Events : Begun(e)' => Begun(e)
      BY <1>4, <2>2
    <3> QED
      BY <1>1, <1>5, <3>1, <3>2, QuietFresh
  <2> QED
    BY <2>1, <2>2
<1> QED
  BY <1>4, <1>6 DEF OrderInv

\* Writing the row of i, or a part of it, adds at most this row and keeps the others.
LEMMA WrittenHolds ==
  ASSUME NEW S, NEW s \in Seq(Row(S)), NEW i \in S, NEW t \in PartWritten(s, i) \cup {Append(s, Whole(i))}
  PROVE  \A e : (Holds(s, e) => Holds(t, e)) /\ (Holds(t, e) => Holds(s, e) \/ e = i)
<1>1. CASE t \in PartWritten(s, i)
  BY <1>1, PartHolds
<1>2. CASE t = Append(s, Whole(i))
  BY <1>2, AppendHolds
<1> QED
  BY <1>1, <1>2

\* What close() flushes into a file: nothing, or a row that is in the buffer.
LEMMA PendingHolds ==
  ASSUME TypeOK, Carried
  PROVE  /\ \A e : Holds(jsonl, e) => Holds(FlushPending("jsonl", jsonl), e)
         /\ \A e : Holds(frames, e) => Holds(FlushPending("frames", frames), e)
         /\ \A e : Holds(FlushPending("jsonl", jsonl), e) =>
              Holds(jsonl, e) \/ \E p \in pending : p.file = "jsonl" /\ p.item = e
<1>1. ASSUME NEW name \in {"jsonl", "frames"}, NEW S, NEW s \in Seq(Row(S)), NEW e,
             \A p \in pending : p.file = name => p.item \in S
      PROVE  /\ Holds(s, e) => Holds(FlushPending(name, s), e)
             /\ Holds(FlushPending(name, s), e) =>
                  Holds(s, e) \/ \E p \in pending : p.file = name /\ p.item = e
  <2>1. CASE \E p \in pending : p.file = name
    <3> DEFINE q == CHOOSE p \in pending : p.file = name
    <3>1. q \in pending /\ q.file = name
      BY <2>1
    <3>2. q.item \in S
      BY <3>1, <1>1
    <3>3. FlushPending(name, s) = Completed(s, q.item)
      BY <2>1 DEF FlushPending
    <3> HIDE DEF q
    <3>4. /\ Holds(s, e) => Holds(Completed(s, q.item), e)
          /\ Holds(Completed(s, q.item), e) => Holds(s, e) \/ e = q.item
      BY <3>2, CompletedHolds
    <3> QED BY <3>1, <3>3, <3>4
  <2>2. CASE ~ \E p \in pending : p.file = name
    BY <2>2 DEF FlushPending
  <2> QED BY <2>1, <2>2
<1>2. /\ jsonl \in Seq(Row(Events)) /\ frames \in Seq(Row(Frames))
      /\ \A p \in pending : p.file = "jsonl" => p.item \in Events
      /\ \A p \in pending : p.file = "frames" => p.item \in Frames
  BY DEF TypeOK, Carried
<1> QED
  BY <1>1, <1>2

\* The actor's steps: what they store, and what is left in a buffer.
LEMMA ActorOrdered == ASSUME TypeInv, OrderInv, Actor PROVE OrderInv'
<1> DEFINE h == Head(queue)
<1>1. /\ TypeOK /\ Carried /\ Fresh /\ Bare /\ QueueInOrder /\ BufferedInOrder /\ NoHoles
      /\ jsonl \in Seq(Row(Events)) /\ frames \in Seq(Row(Frames))
  BY DEF TypeInv, TypeOK, OrderInv
<1>2. UNCHANGED <<pc, call, used, ahead, journaled>>
  BY DEF Actor, OpenFiles, Reject, WriteRecord, WriteFrame, ServeFlush, ServeClose, Dequeue, callVars, histVars
<1>3. \A d \in Clients : Asks(d)' => Asks(d) /\ call'[d].item = call[d].item
  BY <1>2 DEF Asks
<1>4. ASSUME Bare', QueueInOrder', BufferedInOrder', NoHoles', \A e \in Events : Begun(e)' => Begun(e) PROVE OrderInv'
  BY <1>1, <1>2, <1>3, <1>4, QuietFresh DEF OrderInv
<1>5. CASE OpenFiles
  BY <1>1, <1>2, <1>4, <1>5, StillOrdered DEF OpenFiles, fileVars
<1>6. CASE Reject \/ ServeFlush
  <2>1. /\ queue # <<>> /\ queue' = Tail(queue) /\ UNCHANGED <<failure, jsonl, frames, pending>>
        /\ h.op \notin {"record", "frame"} \/ failure'
    BY <1>6 DEF Reject, ServeFlush, Healthy, Serving, Dequeue, fileVars
  <2>2. \A i \in Items : Stored(i) => Stored(i)'
    BY <2>1 DEF Stored
  <2> QED
    BY <1>1, <1>2, <1>4, <2>1, <2>2, TakeOrdered
<1>7. CASE WriteRecord
  <2>1. /\ queue # <<>> /\ queue' = Tail(queue) /\ ~failure /\ h.op = "record" /\ UNCHANGED frames
    BY <1>7 DEF WriteRecord, Healthy, Serving, Dequeue
  <2>2. h.item \in Events
    BY <1>1, <2>1, QueueHead DEF Carries
  <2> HIDE DEF h
  <2>3. /\ \A i : Holds(jsonl, i) => Holds(jsonl', i)
        /\ \A i : Holds(jsonl', i) => Holds(jsonl, i) \/ h.item = i
        /\ ~failure' => Holds(jsonl', h.item)
        /\ \A p \in pending' : p \in pending \/ p.item = h.item
    <3>1. CASE jsonl' = Append(jsonl, Whole(h.item)) /\ pending' = pending
      BY <1>1, <2>2, <3>1, AppendHolds
    <3>2. CASE failure' /\ UNCHANGED <<jsonl, pending>>
      BY <3>2
    <3>3. ASSUME NEW file \in {"jsonl", "prolog"}, CutShort(file, h.item), failure',
                 pending' = {[file |-> file, item |-> h.item]}
          PROVE  /\ \A i : Holds(jsonl, i) => Holds(jsonl', i)
                 /\ \A i : Holds(jsonl', i) => Holds(jsonl, i) \/ h.item = i
      <4>1. jsonl' \in PartWritten(jsonl, h.item) \cup {Append(jsonl, Whole(h.item))}
        BY <3>3 DEF CutShort
      <4> QED
        BY <1>1, <2>2, <4>1, WrittenHolds
    <3> QED
      BY <1>7, <3>1, <3>2, <3>3 DEF WriteRecord, h
  <2>4. \A i \in Items : Stored(i) => Stored(i)'
    BY <2>1, <2>3 DEF Stored
  <2>5. ~failure' => \A i \in Items : i = h.item => Stored(i)'
    BY <2>3 DEF Stored
  <2> QED
    BY <1>1, <1>2, <1>4, <2>1, <2>3, <2>4, <2>5, TakeOrdered DEF h
<1>8. CASE WriteFrame
  <2>1. /\ queue # <<>> /\ queue' = Tail(queue) /\ ~failure /\ h.op = "frame" /\ UNCHANGED jsonl
    BY <1>8 DEF WriteFrame, Healthy, Serving, Dequeue
  <2>2. h.item \in Frames
    BY <1>1, <2>1, QueueHead DEF Carries
  <2> HIDE DEF h
  <2>3. /\ \A i : Holds(frames, i) => Holds(frames', i)
        /\ ~failure' => Holds(frames', h.item)
        /\ \A p \in pending' : p \in pending \/ (p.item = h.item /\ p.file = "frames")
    <3>1. CASE frames' = Append(frames, Whole(h.item)) /\ pending' = pending
      BY <1>1, <2>2, <3>1, AppendHolds
    <3>2. CASE failure' /\ UNCHANGED <<frames, pending>>
      BY <3>2
    <3>3. CASE failure' /\ frames' \in PartWritten(frames, h.item) /\ pending' = {[file |-> "frames", item |-> h.item]}
      BY <1>1, <2>2, <3>3, PartHolds
    <3> QED
      BY <1>8, <3>1, <3>2, <3>3 DEF WriteFrame, h
  <2>4. \A i \in Items : Stored(i) => Stored(i)'
    BY <2>1, <2>3 DEF Stored
  <2>5. ~failure' => \A i \in Items : i = h.item => Stored(i)'
    BY <2>3 DEF Stored
  <2> QED
    BY <1>1, <1>2, <1>4, <2>1, <2>3, <2>4, <2>5, TakeOrdered DEF h
<1>9. CASE ServeClose
  <2>1. queue # <<>> /\ queue' = Tail(queue) /\ h.op = "close" /\ (failure => failure') /\ pending' \subseteq pending
    BY <1>9 DEF ServeClose, Serving, Dequeue, fileVars
  <2>2. /\ \A i : Holds(jsonl, i) => Holds(jsonl', i)
        /\ \A i : Holds(frames, i) => Holds(frames', i)
        /\ \A i : Holds(jsonl', i) => Holds(jsonl, i) \/ \E p \in pending : p.file = "jsonl" /\ p.item = i
    <3>1. CASE jsonl' = FlushPending("jsonl", jsonl) /\ frames' = FlushPending("frames", frames)
      BY <1>1, <3>1, PendingHolds
    <3>2. CASE UNCHANGED <<jsonl, frames>>
      BY <3>2
    <3> QED
      BY <1>9, <3>1, <3>2 DEF ServeClose, fileVars
  <2>3. \A i \in Items : Stored(i) => Stored(i)'
    BY <2>2 DEF Stored
  <2> QED
    BY <1>1, <1>2, <1>4, <2>1, <2>2, <2>3, TakeOrdered
<1> QED
  BY <1>5, <1>6, <1>7, <1>8, <1>9 DEF Actor

\* A crash leaves at most the row of the first message behind; what is ahead of it was stored.
LEMMA CrashOrdered == ASSUME TypeInv, OrderInv, Crash PROVE OrderInv'
<1> DEFINE h == Head(queue)
<1>1. /\ TypeOK /\ Carried /\ Fresh /\ Bare /\ QueueInOrder /\ BufferedInOrder /\ NoHoles
      /\ jsonl \in Seq(Row(Events)) /\ frames \in Seq(Row(Frames))
  BY DEF TypeInv, TypeOK, OrderInv
<1>2. /\ queue' = <<>> /\ pending' = {} /\ journaled' = {} /\ UNCHANGED <<used, ahead>>
      /\ \A c \in Clients : pc'[c] = "idle"
  BY DEF Crash
<1>3. DOMAIN queue' = {}
  BY <1>2
<1>4. /\ \A i : Holds(jsonl, i) => Holds(jsonl', i)
      /\ \A i : Holds(frames, i) => Holds(frames', i)
      /\ \A i \in Events : Holds(jsonl', i) => Holds(jsonl, i) \/ (Healthy("record") /\ h.item = i)
  <2>1. CASE UNCHANGED <<jsonl, frames>>
    BY <2>1
  <2>2. CASE Healthy("frame") /\ jsonl' = jsonl
             /\ frames' \in PartWritten(frames, h.item) \cup {Append(frames, Whole(h.item))}
    <3>1. h.item \in Frames
      BY <1>1, <2>2, QueueHead DEF Healthy, Serving, Carries
    <3> HIDE DEF h
    <3>2. \A i : Holds(frames, i) => Holds(frames', i)
      BY <1>1, <2>2, <3>1, WrittenHolds
    <3> QED
      BY <2>2, <3>2
  <2>3. CASE /\ Healthy("record") /\ frames' = frames
             /\ jsonl' \in PartWritten(jsonl, h.item) \cup {Append(jsonl, Whole(h.item))}
    <3>1. h.item \in Events
      BY <1>1, <2>3, QueueHead DEF Healthy, Serving, Carries
    <3> HIDE DEF h
    <3>2. \A i : (Holds(jsonl, i) => Holds(jsonl', i)) /\ (Holds(jsonl', i) => Holds(jsonl, i) \/ h.item = i)
      BY <1>1, <2>3, <3>1, WrittenHolds
    <3> QED
      BY <2>3, <3>2
  <2> QED
    BY <2>1, <2>2, <2>3 DEF Crash, CutShort
<1>5. \A i : Stored(i) => Stored(i)'
  BY <1>4 DEF Stored
<1>6. Healthy("record") => h.item \in Events /\ Begun(h.item) /\ \A i \in ahead[h.item] : Stored(i)
  <2> SUFFICES ASSUME Healthy("record") PROVE h.item \in Events /\ Begun(h.item) /\ \A i \in ahead[h.item] : Stored(i)
    OBVIOUS
  <2>1. h = queue[1] /\ 1 \in DOMAIN queue /\ h.op = "record" /\ h.item \in Events /\ ~failure
    BY <1>1, QueueHead DEF Healthy, Serving, Carries
  <2> HIDE DEF h
  <2> QED
    BY <1>1, <2>1 DEF QueueInOrder, Begun
<1>7. NoHoles'
  <2>1. ASSUME NEW e \in Events, Holds(jsonl', e), NEW i \in ahead[e] PROVE Stored(i)'
    <3>1. CASE Holds(jsonl, e)
      BY <1>1, <1>5, <2>1, <3>1 DEF NoHoles, Stored
    <3>2. CASE Healthy("record") /\ h.item = e
      BY <1>5, <1>6, <2>1, <3>2
    <3> QED
      BY <1>4, <2>1, <3>1, <3>2
  <2> QED
    BY <1>2, <2>1 DEF NoHoles, Stored
<1>8. \A e \in Events : Begun(e)' => Begun(e)
  BY <1>2, <1>3, <1>4, <1>6 DEF Begun
<1>9. Fresh'
  BY <1>1, <1>2, <1>8, QuietFresh DEF Asks
<1> QED
  BY <1>2, <1>3, <1>7, <1>9 DEF OrderInv, Bare, QueueInOrder, BufferedInOrder

\* The order is kept.
LEMMA OrderStep == ASSUME TypeInv, Waiting, OrderInv, [Next]_vars PROVE OrderInv'
<1>1. /\ TypeOK /\ Carried /\ Fresh /\ Bare /\ QueueInOrder /\ BufferedInOrder /\ NoHoles
  BY DEF TypeInv, OrderInv
<1>2. ASSUME NEW c \in Clients, NEW e \in Events, Record(c, e) PROVE OrderInv'
  <2>1. Carries("record", e) /\ "record" \in Ops /\ e \in Items
    BY DEF Carries, Ops, Items
  <2> QED
    BY <1>2, <2>1, EnterOrdered DEF Record
<1>3. ASSUME NEW c \in Clients, NEW f \in Frames, JournalFrame(c, f) PROVE OrderInv'
  <2>1. Carries("frame", f) /\ "frame" \in Ops /\ f \in Items
    BY DEF Carries, Ops, Items
  <2> QED
    BY <1>3, <2>1, EnterOrdered DEF JournalFrame
<1>4. ASSUME NEW c \in Clients, Close(c) PROVE OrderInv'
  <2>1. Carries("close", None) /\ "close" \in Ops
    BY DEF Carries, Ops
  <2> QED
    BY <1>4, <2>1, EnterOrdered DEF Close
<1>5. ASSUME NEW c \in Clients, Flush(c) PROVE OrderInv'
  <2> DEFINE m == [op |-> "flush", item |-> None, owner |-> c, future |-> "pending"]
  <2>1. m \in Message /\ m.op = "flush" /\ m.item = None /\ None \notin Events
    BY RecorderAssumption DEF Message, Ops
  <2>2. /\ queue' = Append(queue, m) /\ UNCHANGED <<jsonl, frames, pending, failure, journaled, ahead, used>>
        /\ pc' = [pc EXCEPT ![c] = "future"] /\ call' = [call EXCEPT ![c] = [op |-> "flush", item |-> None]]
    BY <1>5 DEF Flush, Put, fileVars, histVars
  <2> HIDE DEF m
  <2>3. Bare' /\ QueueInOrder' /\ BufferedInOrder' /\ NoHoles' /\ \A e \in Events : Begun(e)' => Begun(e)
    BY <1>1, <2>1, <2>2, PutOrdered
  <2>4. \A d \in Clients : Asks(d)' => Asks(d) /\ call'[d].item = call[d].item
    BY <1>1, <2>2 DEF Asks, TypeOK
  <2> QED
    BY <1>1, <2>2, <2>3, <2>4, QuietFresh DEF OrderInv
<1>6. ASSUME NEW c \in Clients, Acquire(c) PROVE OrderInv'
  <2> DEFINE op == call[c].op
             item == call[c].item
  <2>1. op \in Ops /\ item \in Items \cup {None} /\ Carries(op, item)
    BY <1>1 DEF TypeOK, Call, Carried
  <2>2. pc[c] = "lock"
    <3>1. lockq # <<>> /\ Head(lockq) = c /\ lockq \in Seq(Clients)
      BY <1>1, <1>6 DEF Acquire, TypeOK
    <3>2. 1 \in DOMAIN lockq /\ lockq[1] = c
      BY <3>1, LenProperties
    <3> QED
      BY <3>2 DEF Waiting
  <2>3. UnderLock(c, op, item) /\ UNCHANGED <<call, failure, fileVars, used>>
    BY <1>6 DEF Acquire
  <2>4. op = "record" => Asks(c) /\ item \in Events /\ item \in used /\ ~Begun(item)
    BY <1>1, <2>1, <2>2 DEF Asks, Fresh, Carries
  <2>5. \A d \in Clients : d # c /\ Asks(d) /\ op = "record" => call[d].item # item
    BY <1>1, <2>4 DEF Fresh
  <2> HIDE DEF op, item
  <2>6. /\ Bare' /\ QueueInOrder' /\ BufferedInOrder' /\ NoHoles'
        /\ \A e \in Events : Begun(e)' => Begun(e) \/ (op = "record" /\ e = item)
        /\ pc'[c] # "lock" /\ \A d \in Clients : d # c => pc'[d] = pc[d]
    BY <1>1, <2>1, <2>3, <2>4, UnderLockOrdered
  <2>7. ~Asks(c)' /\ \A d \in Clients : d # c /\ Asks(d)' => Asks(d) /\ call'[d].item = call[d].item
    BY <2>3, <2>6 DEF Asks
  <2>8. Fresh'
    <3>1. CASE op = "record"
      BY <1>1, <2>3, <2>4, <2>5, <2>6, <2>7, <3>1, AskedFresh
    <3>2. CASE op # "record"
      BY <1>1, <2>3, <2>6, <2>7, <3>2, QuietFresh
    <3> QED
      BY <3>1, <3>2
  <2> QED
    BY <2>6, <2>8 DEF OrderInv
<1>7. ASSUME (\E c \in Clients : Return(c) \/ Cancel(c)) \/ UNCHANGED vars PROVE OrderInv'
  <2>1. /\ UNCHANGED <<jsonl, frames, pending, failure, journaled, ahead, used, call>>
        /\ DOMAIN queue' = DOMAIN queue
        /\ \A k \in DOMAIN queue : queue'[k].op = queue[k].op /\ queue'[k].item = queue[k].item
    <3>1. CASE UNCHANGED <<queue, call, failure, fileVars, histVars>>
      BY <3>1 DEF fileVars, histVars
    <3>2. ASSUME NEW c \in Clients, Cancel(c), pc[c] = "future"
          PROVE  /\ DOMAIN queue' = DOMAIN queue
                 /\ \A k \in DOMAIN queue : queue'[k].op = queue[k].op /\ queue'[k].item = queue[k].item
      <4>1. queue' = [k \in DOMAIN queue |->
                        IF queue[k].owner = c /\ queue[k].future = "pending"
                          THEN [queue[k] EXCEPT !.future = "cancelled"] ELSE queue[k]]
        BY <3>2 DEF Cancel
      <4>2. \A k \in DOMAIN queue : queue[k] \in Message
        BY <1>1, QueueTypes
      <4> QED
        BY <4>1, <4>2 DEF Message
    <3> QED
      BY <1>7, <3>1, <3>2 DEF Return, Cancel, vars, callVars, fileVars, histVars
  <2>2. \A d \in Clients : Asks(d)' => Asks(d) /\ call'[d].item = call[d].item
    BY <1>1, <1>7, <2>1 DEF Asks, Return, Cancel, vars, callVars, TypeOK
  <2>3. Bare' /\ QueueInOrder' /\ BufferedInOrder' /\ NoHoles' /\ \A e \in Events : Begun(e)' => Begun(e)
    BY <1>1, <2>1, StillOrdered
  <2> QED
    BY <1>1, <2>1, <2>2, <2>3, QuietFresh DEF OrderInv
<1> QED
  BY <1>2, <1>3, <1>4, <1>5, <1>6, <1>7, ActorOrdered, CrashOrdered DEF Next

\* NoHoles for any callers, faults and crashes: when the row of an event is complete, so is the row
\* of everything that the same process handed to the recorder before.
THEOREM CorpusHasNoHoles == Spec => []NoHoles
<1>1. Init => OrderInv
  <2> SUFFICES ASSUME Init PROVE OrderInv
    OBVIOUS
  <2>1. DOMAIN queue = {} /\ DOMAIN jsonl = {} /\ pending = {} /\ journaled = {} /\ \A c \in Clients : pc[c] = "idle"
    BY EmptySeq DEF Init
  <2> QED
    BY <2>1 DEF OrderInv, Fresh, Bare, QueueInOrder, BufferedInOrder, NoHoles, Begun, Holds, Asks
<1>2. ASSUME IInv, OrderInv, [Next]_vars PROVE OrderInv'
  BY <1>2, OrderStep DEF IInv
<1>3. OrderInv => NoHoles
  BY DEF OrderInv
<1> QED
  BY <1>1, <1>2, <1>3, InitInv, InvStep, PTL DEF Spec

-----------------------------------------------------------------------------
(* The log of the complete rows.                                           *)

LEMMA RankType ==
  ASSUME NEW S \in SUBSET Nat, IsFiniteSet(S), NEW n \in S
  PROVE  Rank(S, n) \in 1 .. Cardinality(S)
<1> DEFINE U == {m \in S : m <= n}
<1>1. IsFiniteSet(U) /\ Cardinality(U) <= Cardinality(S)
  BY FS_Subset
<1>2. n \in U
  OBVIOUS
<1>3. Cardinality(U) \in Nat /\ Cardinality(U) # 0 /\ Cardinality(S) \in Nat
  BY <1>1, <1>2, FS_EmptySet, FS_CardinalityType
<1> QED
  BY <1>1, <1>3 DEF Rank

LEMMA RankGrows ==
  ASSUME NEW S \in SUBSET Nat, IsFiniteSet(S), NEW m \in S, NEW n \in S, m < n
  PROVE  Rank(S, m) < Rank(S, n)
<1> DEFINE U == {x \in S : x <= m}
           V == {x \in S : x <= n}
<1>1. U \subseteq V
  <2>1. \A x \in S : x <= m => x <= n
    OBVIOUS
  <2> QED
    BY <2>1
<1>2. n \in V /\ n \notin U
  OBVIOUS
<1>3. IsFiniteSet(V) /\ IsFiniteSet(U)
  BY FS_Subset
<1>4. Cardinality(U) <= Cardinality(V) /\ (Cardinality(V) = Cardinality(U) => V = U)
  BY <1>1, <1>3, FS_Subset
<1>5. Cardinality(U) \in Nat /\ Cardinality(V) \in Nat
  BY <1>3, FS_CardinalityType
<1>6. Cardinality(U) < Cardinality(V)
  <2> HIDE DEF U, V
  <2> QED
    BY <1>2, <1>4, <1>5
<1> QED
  BY <1>6 DEF Rank

\* InOrder(S) lists the numbers of S, each once, in increasing order.
LEMMA InOrderLists ==
  ASSUME NEW S \in SUBSET Nat, IsFiniteSet(S)
  PROVE  /\ Cardinality(S) \in Nat
         /\ InOrder(S) \in [1 .. Cardinality(S) -> S]
         /\ \A k \in 1 .. Cardinality(S) : Rank(S, InOrder(S)[k]) = k
         /\ \A n \in S : InOrder(S)[Rank(S, n)] = n
<1> DEFINE rank == [n \in S |-> Rank(S, n)]
           N == Cardinality(S)
<1>0. N \in Nat
  BY FS_CardinalityType
<1>1. rank \in [S -> 1 .. N]
  BY RankType
<1>2. \A m, n \in S : Rank(S, m) = Rank(S, n) => m = n
  <2> SUFFICES ASSUME NEW m \in S, NEW n \in S, m # n PROVE Rank(S, m) # Rank(S, n)
    OBVIOUS
  <2>1. m \in Nat /\ n \in Nat /\ Rank(S, m) \in Nat /\ Rank(S, n) \in Nat
    BY RankType
  <2>2. CASE m < n
    BY <2>1, <2>2, RankGrows
  <2>3. CASE n < m
    BY <2>1, <2>3, RankGrows
  <2> QED
    BY <2>1, <2>2, <2>3
<1>3. rank \in Injection(S, 1 .. N)
  BY <1>1, <1>2 DEF Injection, IsInjective
<1>4. IsFiniteSet(1 .. N) /\ Cardinality(1 .. N) = N
  BY <1>0, FS_Interval
<1>5. rank \in Surjection(S, 1 .. N)
  <2> HIDE DEF rank
  <2> QED
    BY <1>3, <1>4, FS_Injection
<1>6. \A k \in 1 .. N : \E n \in S : Rank(S, n) = k
  BY <1>5 DEF Surjection
<1>7. ASSUME NEW k \in 1 .. N PROVE InOrder(S)[k] \in S /\ Rank(S, InOrder(S)[k]) = k
  <2>1. InOrder(S)[k] = CHOOSE n \in S : Rank(S, n) = k
    BY DEF InOrder
  <2> QED
    BY <1>6, <2>1
<1>8. InOrder(S) = [k \in 1 .. N |-> InOrder(S)[k]]
  BY DEF InOrder
<1>9. InOrder(S) \in [1 .. N -> S]
  BY <1>7, <1>8
<1>10. \A n \in S : InOrder(S)[Rank(S, n)] = n
  <2> SUFFICES ASSUME NEW n \in S PROVE InOrder(S)[Rank(S, n)] = n
    OBVIOUS
  <2>1. Rank(S, n) \in 1 .. N
    BY RankType
  <2> QED
    BY <1>2, <1>7, <2>1
<1> QED
  BY <1>0, <1>7, <1>9, <1>10

\* A number above all others comes last.
LEMMA InOrderExtends ==
  ASSUME NEW S \in SUBSET Nat, IsFiniteSet(S), NEW m \in Nat, \A k \in S : k < m
  PROVE  /\ IsFiniteSet(S \cup {m}) /\ Cardinality(S \cup {m}) = Cardinality(S) + 1
         /\ Cardinality(S) \in Nat
         /\ \A n \in 1 .. Cardinality(S) : /\ InOrder(S)[n] \in S
                                           /\ InOrder(S \cup {m})[n] = InOrder(S)[n]
         /\ InOrder(S \cup {m})[Cardinality(S) + 1] = m
<1> DEFINE N == Cardinality(S)
           T == S \cup {m}
<1>1. m \notin S
  OBVIOUS
<1>2. IsFiniteSet(T) /\ Cardinality(T) = N + 1 /\ N \in Nat
  BY <1>1, FS_AddElement, FS_CardinalityType
<1>3. InOrder(S) \in [1 .. N -> S] /\ \A n \in 1 .. N : Rank(S, InOrder(S)[n]) = n
  BY InOrderLists
<1>4. T \in SUBSET Nat /\ \A k \in T : InOrder(T)[Rank(T, k)] = k
  BY <1>2, InOrderLists
<1>5. \A k \in S : Rank(T, k) = Rank(S, k)
  <2>1. \A k \in S : {x \in T : x <= k} = {x \in S : x <= k}
    OBVIOUS
  <2> QED
    BY <2>1 DEF Rank
<1>6. Rank(T, m) = N + 1
  <2>0. \A x \in T : x <= m
    OBVIOUS
  <2>1. {x \in T : x <= m} = T
    BY <2>0
  <2> QED
    BY <1>2, <2>1 DEF Rank
<1> HIDE DEF T, N
<1>7. ASSUME NEW n \in 1 .. N PROVE InOrder(S)[n] \in S /\ InOrder(T)[n] = InOrder(S)[n]
  <2>1. InOrder(S)[n] \in S /\ Rank(S, InOrder(S)[n]) = n
    BY <1>3
  <2>2. InOrder(S)[n] \in T
    BY <2>1 DEF T
  <2> QED
    BY <1>4, <1>5, <2>1, <2>2
<1>8. InOrder(T)[N + 1] = m
  <2>1. m \in T
    BY DEF T
  <2> QED
    BY <1>4, <1>6, <2>1
<1> QED
  BY <1>2, <1>7, <1>8 DEF T, N

LEMMA LogType ==
  ASSUME NEW S, NEW s \in Seq(Row(S))
  PROVE  /\ CompleteRows(s) \in SUBSET Nat /\ IsFiniteSet(CompleteRows(s))
         /\ LogOf(s) \in Seq(S) /\ Len(LogOf(s)) = Cardinality(CompleteRows(s))
         /\ DOMAIN LogOf(s) = 1 .. Cardinality(CompleteRows(s))
         /\ \A n \in DOMAIN LogOf(s) : LogOf(s)[n] = s[InOrder(CompleteRows(s))[n]].item
<1> DEFINE C == CompleteRows(s)
           N == Cardinality(C)
<1>1. Len(s) \in Nat /\ DOMAIN s = 1 .. Len(s) /\ \A k \in DOMAIN s : s[k] \in Row(S)
  BY LenProperties
<1>2. C \in SUBSET Nat /\ C \subseteq 1 .. Len(s)
  BY <1>1 DEF CompleteRows
<1>3. IsFiniteSet(C)
  <2>1. IsFiniteSet(1 .. Len(s))
    BY <1>1, FS_Interval
  <2> QED
    BY <1>2, <2>1, FS_Subset
<1>4. N \in Nat /\ InOrder(C) \in [1 .. N -> C]
  BY <1>2, <1>3, InOrderLists
<1>5. LogOf(s) = [n \in 1 .. N |-> s[InOrder(C)[n]].item]
  BY DEF LogOf
<1>6. \A k \in C : s[k].item \in S
  BY <1>1 DEF CompleteRows, Row
<1> HIDE DEF C, N
<1>7. LogOf(s) \in [1 .. N -> S]
  BY <1>4, <1>5, <1>6
<1>8. LogOf(s) \in Seq(S) /\ Len(LogOf(s)) = N
  BY <1>4, <1>7
<1> QED
  BY <1>2, <1>3, <1>5, <1>8 DEF C, N

LEMMA LogHolds ==
  ASSUME NEW S, NEW s \in Seq(Row(S)), NEW e
  PROVE  Corpus!In(LogOf(s), e) <=> Holds(s, e)
<1> DEFINE C == CompleteRows(s)
           N == Cardinality(C)
<1>1. /\ C \in SUBSET Nat /\ IsFiniteSet(C) /\ DOMAIN LogOf(s) = 1 .. N
      /\ \A n \in 1 .. N : LogOf(s)[n] = s[InOrder(C)[n]].item
  BY LogType
<1>2. /\ InOrder(C) \in [1 .. N -> C]
      /\ \A k \in C : Rank(C, k) \in 1 .. N /\ InOrder(C)[Rank(C, k)] = k
  BY <1>1, InOrderLists, RankType
<1>3. \A k : k \in C <=> k \in DOMAIN s /\ s[k].whole
  BY DEF CompleteRows
<1>4. \A k \in DOMAIN s : s[k] = Whole(e) <=> s[k].whole /\ s[k].item = e
  <2>1. \A k \in DOMAIN s : s[k] \in Row(S)
    BY LenProperties
  <2> QED
    BY <2>1 DEF Row, Whole
<1> HIDE DEF C, N
<1>5. ASSUME Corpus!In(LogOf(s), e) PROVE Holds(s, e)
  <2>1. PICK n \in 1 .. N : LogOf(s)[n] = e
    BY <1>1, <1>5 DEF Corpus!In
  <2>2. InOrder(C)[n] \in C /\ s[InOrder(C)[n]].item = e
    BY <1>1, <1>2, <2>1
  <2> QED
    BY <1>3, <1>4, <2>2 DEF Holds
<1>6. ASSUME Holds(s, e) PROVE Corpus!In(LogOf(s), e)
  <2>1. PICK k \in DOMAIN s : s[k] = Whole(e)
    BY <1>6 DEF Holds
  <2>2. k \in C /\ s[k].item = e
    BY <1>3, <1>4, <2>1
  <2>3. Rank(C, k) \in 1 .. N /\ LogOf(s)[Rank(C, k)] = e
    BY <1>1, <1>2, <2>2
  <2> QED
    BY <1>1, <2>3 DEF Corpus!In
<1> QED
  BY <1>5, <1>6

LEMMA LogExtends ==
  ASSUME NEW S, NEW s \in Seq(Row(S)), NEW t \in Seq(Row(S)), NEW m \in Nat, NEW i \in S,
         CompleteRows(t) = CompleteRows(s) \cup {m}, t[m].item = i,
         \A k \in CompleteRows(s) : k < m /\ t[k] = s[k]
  PROVE  LogOf(t) = Append(LogOf(s), i)
<1> DEFINE C == CompleteRows(s)
           N == Cardinality(C)
           log == LogOf(s)
<1>1. /\ C \in SUBSET Nat /\ IsFiniteSet(C) /\ log \in Seq(S) /\ Len(log) = N
      /\ DOMAIN log = 1 .. N /\ \A n \in 1 .. N : log[n] = s[InOrder(C)[n]].item
  BY LogType
<1>2. /\ LogOf(t) \in Seq(S) /\ Len(LogOf(t)) = Cardinality(C \cup {m})
      /\ DOMAIN LogOf(t) = 1 .. Cardinality(C \cup {m})
      /\ \A n \in 1 .. Cardinality(C \cup {m}) : LogOf(t)[n] = t[InOrder(C \cup {m})[n]].item
  BY LogType
<1>3. /\ Cardinality(C \cup {m}) = N + 1 /\ N \in Nat
      /\ \A n \in 1 .. N : InOrder(C)[n] \in C /\ InOrder(C \cup {m})[n] = InOrder(C)[n]
      /\ InOrder(C \cup {m})[N + 1] = m
  BY <1>1, InOrderExtends
<1> HIDE DEF C, N, log
<1>4. \A n \in 1 .. N : LogOf(t)[n] = log[n]
  <2> SUFFICES ASSUME NEW n \in 1 .. N PROVE LogOf(t)[n] = log[n]
    OBVIOUS
  <2>1. n \in 1 .. Cardinality(C \cup {m})
    BY <1>3
  <2>2. InOrder(C)[n] \in C /\ LogOf(t)[n] = t[InOrder(C)[n]].item
    BY <1>2, <1>3, <2>1
  <2>3. t[InOrder(C)[n]] = s[InOrder(C)[n]]
    BY <2>2 DEF C
  <2> QED
    BY <1>1, <2>2, <2>3
<1>5. LogOf(t)[N + 1] = i
  <2>1. N + 1 \in 1 .. Cardinality(C \cup {m})
    BY <1>3
  <2> QED
    BY <1>2, <1>3, <2>1
<1>6. /\ DOMAIN Append(log, i) = 1 .. N + 1 /\ \A n \in 1 .. N : Append(log, i)[n] = log[n]
      /\ Append(log, i)[N + 1] = i /\ Append(log, i) \in Seq(S)
  BY <1>1, Appended
<1>7. \A n \in 1 .. N + 1 : LogOf(t)[n] = Append(log, i)[n]
  <2> SUFFICES ASSUME NEW n \in 1 .. N + 1 PROVE LogOf(t)[n] = Append(log, i)[n]
    OBVIOUS
  <2>1. n \in 1 .. N \/ n = N + 1
    BY <1>3
  <2> QED
    BY <1>4, <1>5, <1>6, <2>1
<1>8. LogOf(t) \in Seq(S) /\ DOMAIN LogOf(t) = 1 .. N + 1
  BY <1>2, <1>3
<1>9. Len(LogOf(t)) = N + 1 /\ Len(Append(log, i)) = N + 1
  BY <1>1, <1>2, <1>3, AppendProperties
<1>10. LogOf(t) = Append(log, i)
  BY <1>6, <1>7, <1>8, <1>9, SeqEqual
<1> QED
  BY <1>10 DEF log

LEMMA LogAppends ==
  ASSUME NEW S, NEW s \in Seq(Row(S)), NEW i \in S
  PROVE  LogOf(Append(s, Whole(i))) = Append(LogOf(s), i)
<1> DEFINE t == Append(s, Whole(i))
           m == Len(s) + 1
<1>1. Whole(i) \in Row(S) /\ Whole(i).whole /\ Whole(i).item = i
  BY DEF Whole, Row
<1>2. t \in Seq(Row(S))
  BY RowTypes
<1>3. /\ Len(s) \in Nat /\ DOMAIN s = 1 .. Len(s) /\ DOMAIN t = 1 .. Len(s) + 1
      /\ \A k \in DOMAIN s : t[k] = s[k]
      /\ t[m] = Whole(i)
  BY <1>1, Appended
<1>4. m \in Nat /\ DOMAIN t = DOMAIN s \cup {m} /\ \A k \in DOMAIN s : k < m
  BY <1>3
<1> HIDE DEF t, m
<1>5. CompleteRows(t) = CompleteRows(s) \cup {m}
  BY <1>1, <1>3, <1>4 DEF CompleteRows
<1>6. \A k \in CompleteRows(s) : k < m /\ t[k] = s[k]
  BY <1>3, <1>4 DEF CompleteRows
<1>7. LogOf(t) = Append(LogOf(s), i)
  BY <1>1, <1>2, <1>3, <1>4, <1>5, <1>6, LogExtends
<1> QED
  BY <1>7 DEF t

\* A row that is cut short is not in the log.
LEMMA LogParts ==
  ASSUME NEW S, NEW s \in Seq(Row(S)), NEW i \in S, NEW t \in PartWritten(s, i)
  PROVE  LogOf(t) = LogOf(s)
<1>1. CASE t = s
  BY <1>1
<1>2. CASE t = Append(s, Torn(i))
  <2>1. Torn(i) \in Row(S) /\ ~Torn(i).whole
    BY DEF Torn, Row
  <2>2. /\ Len(s) \in Nat /\ DOMAIN s = 1 .. Len(s) /\ DOMAIN t = 1 .. Len(s) + 1
        /\ \A k \in DOMAIN s : t[k] = s[k]
        /\ t[Len(s) + 1] = Torn(i)
    BY <1>2, <2>1, Appended
  <2>3. DOMAIN t = DOMAIN s \cup {Len(s) + 1}
    BY <2>2
  <2>4. CompleteRows(t) = CompleteRows(s)
    BY <2>1, <2>2, <2>3 DEF CompleteRows
  <2>5. \A k \in CompleteRows(s) : t[k] = s[k]
    BY <2>2 DEF CompleteRows
  <2>6. \A n \in 1 .. Cardinality(CompleteRows(s)) : InOrder(CompleteRows(s))[n] \in CompleteRows(s)
    <3>1. CompleteRows(s) \in SUBSET Nat /\ IsFiniteSet(CompleteRows(s))
      BY LogType
    <3> QED
      BY <3>1, InOrderLists
  <2> QED
    BY <2>4, <2>5, <2>6 DEF LogOf
<1> QED
  BY <1>1, <1>2 DEF PartWritten

\* A row whose rest is flushed gets into the log.
LEMMA LogCompletes ==
  ASSUME NEW S, NEW s \in Seq(Row(S)), NEW i \in S
  PROVE  LogOf(Completed(s, i)) = Append(LogOf(s), i)
<1>1. CASE s # <<>> /\ s[Len(s)] = Torn(i)
  <2> DEFINE t == Completed(s, i)
             m == Len(s)
  <2>1. t \in Seq(Row(S)) /\ m \in Nat /\ DOMAIN s = 1 .. m
    BY RowTypes, LenProperties
  <2>2. t = [s EXCEPT ![Len(s)] = Whole(i)]
    BY <1>1 DEF Completed
  <2>3. m \in DOMAIN s
    BY <1>1, <2>1
  <2>4. DOMAIN t = DOMAIN s /\ t[m] = Whole(i) /\ \A k \in DOMAIN s : k # m => t[k] = s[k] /\ k < m
    BY <2>1, <2>2, <2>3
  <2>5. ~s[m].whole /\ Whole(i).whole /\ Whole(i).item = i
    BY <1>1 DEF Torn, Whole
  <2> HIDE DEF t, m
  <2>6. CompleteRows(t) = CompleteRows(s) \cup {m}
    BY <2>3, <2>4, <2>5 DEF CompleteRows
  <2>7. \A k \in CompleteRows(s) : k < m /\ t[k] = s[k]
    BY <2>4, <2>5 DEF CompleteRows
  <2>8. LogOf(t) = Append(LogOf(s), i)
    BY <2>1, <2>4, <2>5, <2>6, <2>7, LogExtends
  <2> QED
    BY <2>8 DEF t
<1>2. CASE ~(s # <<>> /\ s[Len(s)] = Torn(i))
  BY <1>2, LogAppends DEF Completed
<1> QED
  BY <1>1, <1>2

-----------------------------------------------------------------------------
(* The order of the log.                                                   *)

\* An event is handed over once, and not while its record() still waits for the lock.
Sent ==
  /\ \A a, b \in DOMAIN submitted : submitted[a] = submitted[b] => a = b
  /\ \A a \in DOMAIN submitted : submitted[a] \in used
  /\ \A c \in Clients, a \in DOMAIN submitted : Asks(c) => submitted[a] # call[c].item

\* Neither the event nor what was handed over later is in the corpus.
Late(e) ==
  \E i \in DOMAIN submitted :
    submitted[i] = e /\ \A j \in i .. Len(submitted) : ~Holds(jsonl, submitted[j])

Before(d, e) ==
  \A a, b \in DOMAIN submitted : submitted[a] = d /\ submitted[b] = e => a < b

\* As long as no write has failed, the queue is in the order of the calls, and what it holds can
\* still be committed in this order.
QueueLate == ~failure =>
  /\ pending = {}
  /\ \A k \in DOMAIN queue : queue[k].op = "record" =>
       /\ Late(queue[k].item)
       /\ \A j \in 1 .. k - 1 : queue[j].op = "record" => Before(queue[j].item, queue[k].item)

\* At most one row is in a buffer, and nothing is committed before its rest is.
PendingLate == \A p \in pending : pending = {p} /\ (p.file = "jsonl" => Late(p.item))

LogInv == Sent /\ QueueLate /\ PendingLate

\* The corpus does not grow.
LEMMA LateStays ==
  ASSUME UNCHANGED submitted, \A e : Holds(jsonl', e) => Holds(jsonl, e)
  PROVE  /\ \A e : Late(e) => Late(e)'
         /\ \A d, e : Before(d, e)' <=> Before(d, e)
  BY DEF Late, Before

\* An event is committed that was handed over before.
LEMMA LateAfter ==
  ASSUME TypeOK, UNCHANGED submitted, NEW d, NEW e, Late(e), Before(d, e),
         \A x : Holds(jsonl', x) => Holds(jsonl, x) \/ x = d
  PROVE  Late(e)'
<1>1. PICK i \in DOMAIN submitted :
        submitted[i] = e /\ \A j \in i .. Len(submitted) : ~Holds(jsonl, submitted[j])
  BY DEF Late
<1>2. Len(submitted) \in Nat /\ DOMAIN submitted = 1 .. Len(submitted)
  BY LenProperties DEF TypeOK
<1>3. ASSUME NEW j \in i .. Len(submitted) PROVE submitted[j] # d
  <2>1. j \in DOMAIN submitted /\ ~(j < i)
    BY <1>2
  <2> QED
    BY <1>1, <2>1 DEF Before
<1>4. \A j \in i .. Len(submitted) : ~Holds(jsonl', submitted[j])
  BY <1>1, <1>3
<1> QED
  BY <1>1, <1>4 DEF Late

\* No record is put or taken.
LEMMA SameLate ==
  ASSUME TypeInv, QueueLate, PendingLate, UNCHANGED <<submitted, jsonl, pending, failure>>,
         DOMAIN queue \subseteq DOMAIN queue',
         \A k \in DOMAIN queue' : queue'[k].op = "record" =>
           k \in DOMAIN queue /\ queue[k].op = "record" /\ queue[k].item = queue'[k].item
  PROVE  QueueLate' /\ PendingLate'
<1>1. (\A e : Late(e) => Late(e)') /\ \A d, e : Before(d, e)' <=> Before(d, e)
  BY LateStays
<1>2. PendingLate'
  BY <1>1 DEF PendingLate
<1>3. ASSUME ~failure', NEW k \in DOMAIN queue', queue'[k].op = "record"
      PROVE  /\ Late(queue[k].item)'
             /\ \A j \in 1 .. k - 1 : queue'[j].op = "record" => Before(queue[j].item, queue[k].item)'
  <2>1. k \in DOMAIN queue /\ queue[k].op = "record" /\ queue[k].item = queue'[k].item
    BY <1>3
  <2>2. /\ Late(queue[k].item)
        /\ \A j \in 1 .. k - 1 : queue[j].op = "record" => Before(queue[j].item, queue[k].item)
    BY <1>3, <2>1 DEF QueueLate
  <2>3. \A j \in 1 .. k - 1 : j \in DOMAIN queue'
    BY <2>1, QueueTypes DEF TypeInv
  <2> QED
    BY <1>1, <2>1, <2>2, <2>3
<1>4. QueueLate'
  BY <1>3 DEF QueueLate
<1> QED
  BY <1>2, <1>4

\* A message is put that is no record.
LEMMA PutLate ==
  ASSUME TypeInv, QueueLate, PendingLate, UNCHANGED <<submitted, jsonl, pending, failure>>,
         NEW m \in Message, m.op # "record", queue' = Append(queue, m)
  PROVE  QueueLate' /\ PendingLate'
<1>1. queue \in Seq(Message)
  BY DEF TypeInv, TypeOK
<1>2. /\ Len(queue) \in Nat /\ DOMAIN queue = 1 .. Len(queue) /\ DOMAIN queue' = 1 .. Len(queue) + 1
      /\ \A k \in DOMAIN queue : queue'[k] = queue[k]
      /\ queue'[Len(queue) + 1] = m
  BY <1>1, Appended
<1>3. \A k \in DOMAIN queue' : k \in DOMAIN queue \/ k = Len(queue) + 1
  BY <1>2
<1>4. DOMAIN queue \subseteq DOMAIN queue'
  BY <1>2
<1> QED
  BY <1>2, <1>3, <1>4, SameLate

\* record() puts its event.
LEMMA RecordLate ==
  ASSUME TypeInv, QueueLate, PendingLate, NEW c \in Clients, NEW e \in Events, ~Begun(e),
         \A a \in DOMAIN submitted : submitted[a] # e,
         PutRecord(c, e), UNCHANGED <<jsonl, pending, failure>>
  PROVE  QueueLate' /\ PendingLate'
<1> DEFINE m == [op |-> "record", item |-> e, owner |-> c, future |-> "pending"]
           n == Len(submitted)
           l == Len(queue)
<1>1. m \in Message /\ m.op = "record" /\ m.item = e
  BY DEF Message, Ops, Items
<1>2. queue' = Append(queue, m) /\ submitted' = Append(submitted, e)
  BY DEF PutRecord, Put
<1>3. queue \in Seq(Message) /\ submitted \in Seq(Events)
  BY DEF TypeInv, TypeOK
<1> HIDE DEF m
<1>4. /\ l \in Nat /\ DOMAIN queue = 1 .. l /\ DOMAIN queue' = 1 .. l + 1
      /\ \A k \in DOMAIN queue : queue'[k] = queue[k]
      /\ queue'[l + 1] = m
  BY <1>1, <1>2, <1>3, Appended
<1>5. /\ n \in Nat /\ DOMAIN submitted = 1 .. n /\ DOMAIN submitted' = 1 .. n + 1
      /\ \A k \in DOMAIN submitted : submitted'[k] = submitted[k]
      /\ submitted'[n + 1] = e
  BY <1>2, <1>3, Appended
<1>6. Len(submitted') = n + 1
  BY <1>2, <1>3, AppendProperties
<1> HIDE DEF n, l
<1>7. \A a \in DOMAIN submitted' : a \in DOMAIN submitted \/ a = n + 1
  BY <1>5
<1>8. ~Holds(jsonl', e)
  BY DEF Begun
<1>9. ASSUME NEW x, Late(x) PROVE Late(x)'
  <2>1. PICK i \in DOMAIN submitted :
          submitted[i] = x /\ \A j \in i .. n : ~Holds(jsonl, submitted[j])
    BY <1>9 DEF Late, n
  <2>2. ASSUME NEW j \in i .. n + 1 PROVE ~Holds(jsonl', submitted'[j])
    <3>1. (j \in i .. n /\ j \in DOMAIN submitted) \/ j = n + 1
      BY <1>5
    <3> QED
      BY <1>5, <1>8, <2>1, <3>1
  <2>3. i \in DOMAIN submitted' /\ submitted'[i] = x
    BY <1>5, <2>1
  <2> QED
    BY <1>6, <2>2, <2>3 DEF Late
<1>10. ASSUME NEW x, NEW y, x # e, Before(x, y) \/ y = e PROVE Before(x, y)'
  <2> SUFFICES ASSUME NEW a \in DOMAIN submitted', NEW b \in DOMAIN submitted',
                      submitted'[a] = x, submitted'[b] = y
               PROVE  a < b
    BY DEF Before
  <2>1. a \in DOMAIN submitted /\ submitted[a] = x
    BY <1>5, <1>7, <1>10
  <2>2. CASE b = n + 1
    BY <1>5, <2>1, <2>2
  <2>3. CASE b \in DOMAIN submitted
    <3>1. submitted[b] = y /\ y # e
      BY <1>5, <2>3
    <3> QED
      BY <1>10, <2>1, <2>3, <3>1 DEF Before
  <2> QED
    BY <1>7, <2>2, <2>3
<1>11. Late(e)'
  <2>1. n + 1 \in DOMAIN submitted' /\ \A j \in n + 1 .. n + 1 : j = n + 1
    BY <1>5
  <2> QED
    BY <1>5, <1>6, <1>8, <2>1 DEF Late
<1>12. \A k \in DOMAIN queue : queue[k].op = "record" => queue[k].item # e
  BY DEF Begun
<1>13. PendingLate'
  BY <1>9 DEF PendingLate
<1>14. ASSUME ~failure', NEW k \in DOMAIN queue', queue'[k].op = "record"
       PROVE  /\ Late(queue[k].item)'
              /\ \A j \in 1 .. k - 1 : queue'[j].op = "record" => Before(queue[j].item, queue[k].item)'
  <2>1. \A j \in 1 .. k - 1 : j \in DOMAIN queue
    BY <1>4
  <2>2. CASE k = l + 1
    <3>1. queue'[k].item = e
      BY <1>1, <1>4, <2>2
    <3>2. ASSUME NEW j \in 1 .. k - 1, queue'[j].op = "record" PROVE Before(queue[j].item, e)'
      <4>1. queue'[j] = queue[j] /\ queue[j].item # e
        BY <1>4, <1>12, <2>1, <3>2
      <4> QED
        BY <1>10, <4>1
    <3> QED
      BY <1>11, <3>1, <3>2
  <2>3. CASE k \in DOMAIN queue
    <3>1. queue'[k] = queue[k] /\ queue[k].op = "record"
      BY <1>4, <1>14, <2>3
    <3>2. /\ Late(queue[k].item)
          /\ \A j \in 1 .. k - 1 : queue[j].op = "record" => Before(queue[j].item, queue[k].item)
      BY <1>14, <2>3, <3>1 DEF QueueLate
    <3>3. ASSUME NEW j \in 1 .. k - 1, queue'[j].op = "record"
          PROVE  Before(queue[j].item, queue[k].item)'
      <4>1. queue'[j] = queue[j] /\ queue[j].item # e
        BY <1>4, <1>12, <2>1, <3>3
      <4>2. Before(queue[j].item, queue[k].item)
        BY <3>2, <3>3, <4>1
      <4> QED
        BY <1>10, <3>1, <4>1, <4>2
    <3> QED
      BY <1>9, <3>1, <3>2, <3>3
  <2> QED
    BY <1>4, <2>2, <2>3
<1>15. QueueLate'
  BY <1>14 DEF QueueLate
<1> QED
  BY <1>13, <1>15

\* The actor takes the first message, and commits at most its event.
LEMMA TakeLate ==
  ASSUME TypeInv, QueueLate, queue # <<>>, queue' = Tail(queue), UNCHANGED submitted,
         failure => failure', ~failure' => pending' = {},
         ~failure' => \A x : Holds(jsonl', x) =>
           Holds(jsonl, x) \/ (Head(queue).op = "record" /\ Head(queue).item = x)
  PROVE  QueueLate'
<1> DEFINE h == Head(queue)
<1>1. /\ h = queue[1] /\ 1 \in DOMAIN queue /\ TypeOK
      /\ \A k \in DOMAIN queue' : k + 1 \in DOMAIN queue /\ queue'[k] = queue[k + 1]
  BY QueueHead DEF TypeInv
<1>2. Len(queue) \in Nat /\ DOMAIN queue = 1 .. Len(queue)
  BY QueueTypes DEF TypeInv
<1>3. queue' \in Seq(Message)
  BY QueueHead DEF TypeInv
<1> HIDE DEF h
<1>4. ASSUME ~failure', NEW k \in DOMAIN queue', queue'[k].op = "record"
      PROVE  /\ Late(queue[k].item)'
             /\ \A j \in 1 .. k - 1 : queue'[j].op = "record" => Before(queue[j].item, queue[k].item)'
  <2>1. k + 1 \in DOMAIN queue /\ queue'[k] = queue[k + 1] /\ queue[k + 1].op = "record" /\ k \in Nat \ {0}
    <3>1. DOMAIN queue' = 1 .. Len(queue') /\ Len(queue') \in Nat
      BY <1>3, LenProperties
    <3> QED
      BY <1>1, <1>4, <3>1
  <2>2. /\ Late(queue[k + 1].item)
        /\ \A j \in 1 .. (k + 1) - 1 : queue[j].op = "record" => Before(queue[j].item, queue[k + 1].item)
    BY <1>4, <2>1 DEF QueueLate
  <2> PICK x : x = queue[k + 1].item
    OBVIOUS
  <2>3. Late(x)'
    <3>1. CASE h.op = "record"
      <4>1. 1 \in 1 .. (k + 1) - 1
        BY <2>1
      <4>2. Before(h.item, queue[k + 1].item)
        BY <1>1, <2>2, <3>1, <4>1
      <4>3. \A y : Holds(jsonl', y) => Holds(jsonl, y) \/ y = h.item
        BY <1>4 DEF h
      <4> PICK d : d = h.item
        OBVIOUS
      <4> QED
        BY <1>1, <2>1, <2>2, <4>2, <4>3, LateAfter
    <3>2. CASE h.op # "record"
      <4>1. \A y : Holds(jsonl', y) => Holds(jsonl, y)
        BY <1>4, <3>2 DEF h
      <4> QED
        BY <2>1, <2>2, <4>1, LateStays
    <3> QED
      BY <3>1, <3>2
  <2>4. ASSUME NEW j \in 1 .. k - 1, queue'[j].op = "record"
        PROVE  Before(queue[j].item, queue[k].item)'
    <3>1. j \in DOMAIN queue'
      <4>1. DOMAIN queue' = 1 .. Len(queue') /\ Len(queue') \in Nat
        BY <1>3, LenProperties
      <4> QED
        BY <4>1
    <3>2. queue'[j] = queue[j + 1] /\ j + 1 \in 1 .. (k + 1) - 1
      BY <1>1, <2>1, <3>1
    <3>3. Before(queue[j + 1].item, queue[k + 1].item)
      BY <2>2, <2>4, <3>2
    <3> QED
      BY <2>1, <3>2, <3>3 DEF Before
  <2> QED
    BY <2>1, <2>3, <2>4
<1> QED
  BY <1>4 DEF QueueLate

\* Nothing is handed over; who begins to wait for the lock asks for an event nobody has used.
LEMMA SentQuiet ==
  ASSUME Sent, UNCHANGED submitted, used \subseteq used',
         \A d \in Clients : Asks(d)' =>
           (Asks(d) /\ call'[d].item = call[d].item) \/ call'[d].item \notin used
  PROVE  Sent'
  BY DEF Sent

LEMMA SentPut ==
  ASSUME TypeOK, Sent, NEW e \in Events, submitted' = Append(submitted, e), used \subseteq used', e \in used',
         \A a \in DOMAIN submitted : submitted[a] # e,
         \A d \in Clients : Asks(d)' =>
           Asks(d) /\ call'[d].item = call[d].item /\ call[d].item # e
  PROVE  Sent'
<1> DEFINE n == Len(submitted)
<1>1. submitted \in Seq(Events)
  BY DEF TypeOK
<1>2. /\ n \in Nat /\ DOMAIN submitted = 1 .. n /\ DOMAIN submitted' = 1 .. n + 1
      /\ \A k \in DOMAIN submitted : submitted'[k] = submitted[k]
      /\ submitted'[n + 1] = e
  BY <1>1, Appended
<1>3. \A a \in DOMAIN submitted' : a \in DOMAIN submitted \/ a = n + 1
  BY <1>2
<1> HIDE DEF n
<1> QED
  BY <1>2, <1>3 DEF Sent

LEMMA UnderLockLate ==
  ASSUME TypeInv, QueueLate, PendingLate, NEW c \in Clients, NEW op \in Ops,
         NEW item \in Items \cup {None}, Carries(op, item), UnderLock(c, op, item),
         op = "record" => ~Begun(item) /\ \A a \in DOMAIN submitted : submitted[a] # item,
         UNCHANGED <<failure, fileVars>>
  PROVE  /\ QueueLate' /\ PendingLate'
         /\ submitted' = submitted \/ (op = "record" /\ submitted' = Append(submitted, item))
         /\ pc'[c] # "lock" /\ \A d \in Clients : d # c => pc'[d] = pc[d]
<1>1. pc'[c] # "lock" /\ \A d \in Clients : d # c => pc'[d] = pc[d]
  BY DEF UnderLock, PutRecord, PutFrame, StartFails, PutClose, TypeInv, TypeOK
<1>2. UNCHANGED <<jsonl, pending, failure>>
  BY DEF fileVars
<1>3. CASE op = "record" /\ PutRecord(c, item)
  <2>1. item \in Events
    BY <1>3 DEF Carries
  <2> QED
    BY <1>1, <1>2, <1>3, <2>1, RecordLate DEF PutRecord
<1>4. CASE op = "frame" /\ PutFrame(c, item)
  <2> DEFINE m == [op |-> "frame", item |-> item, owner |-> c, future |-> "none"]
  <2>1. m \in Message /\ m.op # "record" /\ queue' = Append(queue, m) /\ submitted' = submitted
    BY <1>4 DEF Message, Ops, PutFrame, Put
  <2> HIDE DEF m
  <2> QED
    BY <1>1, <1>2, <2>1, PutLate
<1>5. CASE op = "close" /\ PutClose(c) /\ task # "none"
  <2> DEFINE m == [op |-> "close", item |-> None, owner |-> c, future |-> "pending"]
  <2>1. m \in Message /\ m.op # "record" /\ queue' = Append(queue, m) /\ submitted' = submitted
    BY <1>5 DEF Message, Ops, PutClose, Put
  <2> HIDE DEF m
  <2> QED
    BY <1>1, <1>2, <2>1, PutLate
<1>6. CASE UNCHANGED <<queue, submitted>>
  BY <1>1, <1>2, <1>6, SameLate
<1> QED
  BY <1>3, <1>4, <1>5, <1>6 DEF UnderLock, StartFails, PutClose

\* A step of the recorder, as the log sees it.
LogStep == Corpus!Next \/ UNCHANGED Corpus!vars

LEMMA Stutters == ASSUME UNCHANGED <<submitted, acked>>, LogOf(jsonl)' = LogOf(jsonl) PROVE LogStep
  BY DEF LogStep, Corpus!vars

LEMMA Commits ==
  ASSUME TypeOK, NEW e \in Events, Late(e), UNCHANGED <<submitted, acked>>,
         LogOf(jsonl)' = Append(LogOf(jsonl), e)
  PROVE  LogStep
<1>1. \A x : Corpus!In(LogOf(jsonl), x) <=> Holds(jsonl, x)
  BY LogHolds DEF TypeOK
<1>2. Corpus!Commit(e)
  BY <1>1 DEF Corpus!Commit, Late
<1> QED
  BY <1>2 DEF LogStep, Corpus!Next

LEMMA Submits ==
  ASSUME NEW e \in Events, \A a \in DOMAIN submitted : submitted[a] # e,
         submitted' = Append(submitted, e), UNCHANGED <<jsonl, acked>>
  PROVE  LogStep
<1>1. Corpus!Submit(e)
  BY DEF Corpus!Submit, Corpus!In
<1> QED
  BY <1>1 DEF LogStep, Corpus!Next

\* A call enters, or goes on once it has the lock.
LEMMA EnterLog ==
  ASSUME TypeInv, Fresh, LogInv, NEW c \in Clients, NEW op \in Ops, NEW item \in Items \cup {None},
         Carries(op, item), Enter(c, op, item), used \subseteq used',
         op = "record" => item \notin used /\ item \in used'
  PROVE  LogInv' /\ LogStep
<1>1. /\ Sent /\ QueueLate /\ PendingLate /\ UNCHANGED <<failure, fileVars, jsonl, acked>>
      /\ call' = [call EXCEPT ![c] = [op |-> op, item |-> item]] /\ call \in [Clients -> Call]
      /\ TypeOK
  BY DEF LogInv, Enter, fileVars, TypeInv, TypeOK
<1>2. call'[c].op = op /\ call'[c].item = item /\ \A d \in Clients : d # c => call'[d] = call[d]
  BY <1>1
<1>3. op = "record" => /\ item \in Events /\ ~Begun(item)
                       /\ \A a \in DOMAIN submitted : submitted[a] # item
                       /\ \A d \in Clients : Asks(d) => call[d].item # item
  BY <1>1 DEF Fresh, Sent, Carries
<1>4. CASE LockFree /\ UnderLock(c, op, item)
  <2>1. /\ QueueLate' /\ PendingLate'
        /\ submitted' = submitted \/ (op = "record" /\ submitted' = Append(submitted, item))
        /\ pc'[c] # "lock" /\ \A d \in Clients : d # c => pc'[d] = pc[d]
    BY <1>1, <1>3, <1>4, UnderLockLate
  <2>2. \A d \in Clients : Asks(d)' => d # c /\ Asks(d) /\ call'[d].item = call[d].item
    BY <1>2, <2>1 DEF Asks
  <2>3. CASE submitted' = submitted
    BY <1>1, <2>1, <2>2, <2>3, SentQuiet, Stutters DEF LogInv
  <2>4. CASE op = "record" /\ submitted' = Append(submitted, item)
    BY <1>1, <1>3, <2>1, <2>2, <2>4, SentPut, Submits DEF LogInv
  <2> QED
    BY <2>1, <2>3, <2>4
<1>5. CASE ~LockFree
  <2>1. UNCHANGED <<queue, submitted, jsonl, pending, failure>> /\ pc' = [pc EXCEPT ![c] = "lock"]
    BY <1>5 DEF Enter, fileVars
  <2>2. \A d \in Clients : d # c => pc'[d] = pc[d]
    BY <1>1, <2>1 DEF TypeOK
  <2>3. \A d \in Clients : Asks(d)' =>
          (Asks(d) /\ call'[d].item = call[d].item) \/ call'[d].item \notin used
    BY <1>2, <2>2 DEF Asks
  <2>4. QueueLate' /\ PendingLate'
    BY <1>1, <2>1, SameLate
  <2> QED
    BY <1>1, <2>1, <2>3, <2>4, SentQuiet, Stutters DEF LogInv
<1> QED
  BY <1>4, <1>5 DEF Enter

LEMMA AcquireLog ==
  ASSUME TypeInv, Waiting, Fresh, LogInv, NEW c \in Clients, Acquire(c)
  PROVE  LogInv' /\ LogStep
<1> DEFINE op == call[c].op
           item == call[c].item
<1>1. /\ Sent /\ QueueLate /\ PendingLate /\ UNCHANGED <<failure, fileVars, jsonl, acked, call, used>>
      /\ TypeOK /\ UnderLock(c, op, item)
  BY DEF LogInv, Acquire, fileVars, TypeInv
<1>2. op \in Ops /\ item \in Items \cup {None} /\ Carries(op, item)
  BY <1>1 DEF TypeInv, TypeOK, Call, Carried
<1>3. pc[c] = "lock"
  <2>1. lockq # <<>> /\ Head(lockq) = c /\ lockq \in Seq(Clients)
    BY <1>1 DEF Acquire, TypeOK
  <2>2. 1 \in DOMAIN lockq /\ lockq[1] = c
    BY <2>1, LenProperties
  <2> QED
    BY <2>2 DEF Waiting
<1>4. op = "record" => /\ item \in Events /\ ~Begun(item) /\ item \in used
                       /\ \A a \in DOMAIN submitted : submitted[a] # item
                       /\ \A d \in Clients : d # c /\ Asks(d) => call[d].item # item
  BY <1>1, <1>2, <1>3 DEF Fresh, Sent, Carries, Asks
<1> HIDE DEF op, item
<1>5. /\ QueueLate' /\ PendingLate'
      /\ submitted' = submitted \/ (op = "record" /\ submitted' = Append(submitted, item))
      /\ pc'[c] # "lock" /\ \A d \in Clients : d # c => pc'[d] = pc[d]
  BY <1>1, <1>2, <1>4, UnderLockLate
<1>6. \A d \in Clients : Asks(d)' => d # c /\ Asks(d) /\ call'[d].item = call[d].item
  BY <1>1, <1>5 DEF Asks
<1>7. CASE submitted' = submitted
  BY <1>1, <1>5, <1>6, <1>7, SentQuiet, Stutters DEF LogInv
<1>8. CASE op = "record" /\ submitted' = Append(submitted, item)
  BY <1>1, <1>4, <1>5, <1>6, <1>8, SentPut, Submits DEF LogInv
<1> QED
  BY <1>5, <1>7, <1>8

\* A row is written, or the write is cut short: the event of the row gets into the log or not.
LEMMA PartLog ==
  ASSUME TypeOK, NEW e \in Events, Late(e), NEW file \in {"jsonl", "prolog"}, CutShort(file, e),
         UNCHANGED <<submitted, acked>>
  PROVE  LogStep /\ (file = "jsonl" => Late(e)')
<1>1. jsonl \in Seq(Row(Events))
  BY DEF TypeOK
<1>2. CASE file = "jsonl" /\ jsonl' \in PartWritten(jsonl, e)
  <2>1. LogOf(jsonl)' = LogOf(jsonl)
    BY <1>1, <1>2, LogParts
  <2>2. \A x : Holds(jsonl', x) => Holds(jsonl, x)
    BY <1>1, <1>2, PartHolds
  <2>3. Late(e)'
    BY <2>2, LateStays
  <2> QED
    BY <2>1, <2>3, Stutters
<1>3. CASE file = "prolog" /\ jsonl' = Append(jsonl, Whole(e))
  <2>1. LogOf(jsonl)' = Append(LogOf(jsonl), e)
    BY <1>1, <1>3, LogAppends
  <2> QED
    BY <1>3, <2>1, Commits
<1> QED
  BY <1>2, <1>3 DEF CutShort

\* What close() flushes into events.jsonl: nothing, or the one event whose rest was in the buffer.
LEMMA CloseLog ==
  ASSUME TypeOK, Carried, PendingLate, UNCHANGED <<submitted, acked>>,
         jsonl' = FlushPending("jsonl", jsonl)
  PROVE  LogStep
<1>1. jsonl \in Seq(Row(Events))
  BY DEF TypeOK
<1>2. CASE \E p \in pending : p.file = "jsonl"
  <2> PICK p : p = CHOOSE q \in pending : q.file = "jsonl"
    OBVIOUS
  <2>1. p \in pending /\ p.file = "jsonl" /\ jsonl' = Completed(jsonl, p.item)
    BY <1>2 DEF FlushPending
  <2>2. p.item \in Events /\ Late(p.item)
    BY <2>1 DEF Carried, PendingLate
  <2>3. LogOf(jsonl)' = Append(LogOf(jsonl), p.item)
    BY <1>1, <2>1, <2>2, LogCompletes
  <2> QED
    BY <2>2, <2>3, Commits
<1>3. CASE ~ \E p \in pending : p.file = "jsonl"
  <2>1. jsonl' = jsonl
    BY <1>3 DEF FlushPending
  <2> QED
    BY <2>1, Stutters
<1> QED
  BY <1>2, <1>3

\* The actor commits in the order of its queue.
LEMMA ActorLog == ASSUME TypeInv, LogInv, Actor PROVE LogInv' /\ LogStep
<1> DEFINE h == Head(queue)
<1>1. /\ TypeOK /\ Carried /\ Sent /\ QueueLate /\ PendingLate /\ jsonl \in Seq(Row(Events))
  BY DEF TypeInv, TypeOK, LogInv
<1>2. UNCHANGED <<pc, call, used, submitted, acked>>
  BY DEF Actor, OpenFiles, Reject, WriteRecord, WriteFrame, ServeFlush, ServeClose, Dequeue, callVars, histVars
<1>3. Sent'
  BY <1>1, <1>2, SentQuiet DEF Asks
<1>4. CASE OpenFiles
  <2>1. UNCHANGED <<submitted, jsonl, pending, failure, queue>>
    BY <1>2, <1>4 DEF OpenFiles, fileVars
  <2>2. QueueLate' /\ PendingLate'
    BY <1>1, <2>1, SameLate
  <2> QED
    BY <1>2, <1>3, <2>1, <2>2, Stutters DEF LogInv
<1>5. CASE Reject \/ ServeFlush
  <2>1. queue # <<>> /\ queue' = Tail(queue) /\ UNCHANGED <<failure, jsonl, pending>>
    BY <1>5 DEF Reject, ServeFlush, Healthy, Serving, Dequeue, fileVars
  <2>2. QueueLate'
    <3>1. ~failure => pending = {}
      BY <1>1 DEF QueueLate
    <3> QED
      BY <1>1, <1>2, <2>1, <3>1, TakeLate
  <2>3. \A e : Late(e) => Late(e)'
    BY <1>2, <2>1, LateStays
  <2>4. PendingLate'
    BY <1>1, <2>1, <2>3 DEF PendingLate
  <2> QED
    BY <1>2, <1>3, <2>1, <2>2, <2>4, Stutters DEF LogInv
<1>6. CASE WriteRecord
  <2>1. /\ queue # <<>> /\ queue' = Tail(queue) /\ ~failure /\ h.op = "record"
    BY <1>6 DEF WriteRecord, Healthy, Serving, Dequeue
  <2>2. h.item \in Events /\ h = queue[1] /\ 1 \in DOMAIN queue
    BY <1>1, <2>1, QueueHead DEF Carries
  <2> HIDE DEF h
  <2> PICK e : e = h.item
    OBVIOUS
  <2>3. e \in Events /\ Late(e) /\ pending = {}
    BY <1>1, <2>1, <2>2 DEF QueueLate
  <2>4. CASE jsonl' = Append(jsonl, Whole(e)) /\ UNCHANGED <<failure, pending>>
    <3>1. LogOf(jsonl)' = Append(LogOf(jsonl), e)
      BY <1>1, <2>3, <2>4, LogAppends
    <3>2. LogStep
      BY <1>1, <1>2, <2>3, <3>1, Commits
    <3>3. \A x : Holds(jsonl', x) => Holds(jsonl, x) \/ h.item = x
      BY <1>1, <2>3, <2>4, AppendHolds
    <3>4. QueueLate'
      BY <1>1, <1>2, <2>1, <2>3, <2>4, <3>3, TakeLate DEF h
    <3>5. PendingLate'
      BY <2>3, <2>4 DEF PendingLate
    <3> QED
      BY <1>3, <3>2, <3>4, <3>5 DEF LogInv
  <2>5. CASE failure' /\ UNCHANGED <<jsonl, pending>>
    <3>1. QueueLate' /\ PendingLate'
      BY <2>3, <2>5 DEF QueueLate, PendingLate
    <3> QED
      BY <1>2, <1>3, <2>5, <3>1, Stutters DEF LogInv
  <2>6. ASSUME NEW file \in {"jsonl", "prolog"}, CutShort(file, e), failure',
               pending' = {[file |-> file, item |-> e]}
        PROVE  LogInv' /\ LogStep
    <3>1. LogStep /\ (file = "jsonl" => Late(e)')
      BY <1>1, <1>2, <2>3, <2>6, PartLog
    <3>2. QueueLate' /\ PendingLate'
      BY <2>6, <3>1 DEF QueueLate, PendingLate
    <3> QED
      BY <1>3, <3>1, <3>2 DEF LogInv
  <2> QED
    BY <1>6, <2>4, <2>5, <2>6 DEF WriteRecord, h
<1>7. CASE WriteFrame
  <2>1. /\ queue # <<>> /\ queue' = Tail(queue) /\ ~failure /\ jsonl' = jsonl
        /\ failure' \/ (failure' = failure /\ pending' = pending)
        /\ pending' = pending \/ \E f : pending' = {[file |-> "frames", item |-> f]}
    BY <1>7 DEF WriteFrame, Healthy, Serving, Dequeue
  <2>2. pending = {}
    BY <1>1, <2>1 DEF QueueLate
  <2>3. QueueLate'
    BY <1>1, <1>2, <2>1, <2>2, TakeLate
  <2>4. PendingLate'
    BY <2>1, <2>2 DEF PendingLate
  <2> QED
    BY <1>2, <1>3, <2>1, <2>3, <2>4, Stutters DEF LogInv
<1>8. CASE ServeClose
  <2>1. queue # <<>> /\ queue' = Tail(queue) /\ h.op = "close" /\ (failure => failure')
    BY <1>8 DEF ServeClose, Serving, Dequeue, fileVars
  <2>2. CASE jsonl' = FlushPending("jsonl", jsonl) /\ pending' = {}
    <3>1. LogStep
      BY <1>1, <1>2, <2>2, CloseLog
    <3>2. ~failure' => \A x : Holds(jsonl', x) => Holds(jsonl, x)
      BY <1>1, <2>1, <2>2 DEF QueueLate, FlushPending
    <3>3. QueueLate'
      BY <1>1, <1>2, <2>1, <2>2, <3>2, TakeLate
    <3>4. PendingLate'
      BY <2>2 DEF PendingLate
    <3> QED
      BY <1>3, <3>1, <3>3, <3>4 DEF LogInv
  <2>3. CASE failure' /\ UNCHANGED <<jsonl, pending>>
    <3>1. \A e : Late(e) => Late(e)'
      BY <1>2, <2>3, LateStays
    <3>2. QueueLate' /\ PendingLate'
      BY <1>1, <2>3, <3>1 DEF QueueLate, PendingLate
    <3> QED
      BY <1>2, <1>3, <2>3, <3>2, Stutters DEF LogInv
  <2> QED
    BY <1>8, <2>2, <2>3 DEF ServeClose, fileVars
<1> QED
  BY <1>4, <1>5, <1>6, <1>7, <1>8 DEF Actor

\* A crash commits at most the first event of the queue.
LEMMA CrashLog == ASSUME TypeInv, LogInv, Crash PROVE LogInv' /\ LogStep
<1> DEFINE h == Head(queue)
<1>1. /\ TypeOK /\ Carried /\ Sent /\ QueueLate /\ PendingLate /\ jsonl \in Seq(Row(Events))
  BY DEF TypeInv, TypeOK, LogInv
<1>2. /\ queue' = <<>> /\ pending' = {} /\ UNCHANGED <<call, used, submitted, acked>>
      /\ \A c \in Clients : pc'[c] = "idle"
  BY DEF Crash
<1>3. Sent'
  BY <1>1, <1>2, SentQuiet DEF Asks
<1>4. QueueLate' /\ PendingLate'
  <2>1. DOMAIN queue' = {}
    BY <1>2
  <2> QED
    BY <1>2, <2>1 DEF QueueLate, PendingLate
<1>5. CASE jsonl' = jsonl
  BY <1>2, <1>3, <1>4, <1>5, Stutters DEF LogInv
<1>6. CASE /\ Healthy("record")
           /\ \/ \E file \in {"jsonl", "prolog"} : CutShort(file, h.item)
              \/ jsonl' = Append(jsonl, Whole(h.item))
  <2>1. queue # <<>> /\ ~failure /\ h.op = "record"
    BY <1>6 DEF Healthy, Serving
  <2>2. h.item \in Events /\ h = queue[1] /\ 1 \in DOMAIN queue
    BY <1>1, <2>1, QueueHead DEF Carries
  <2> HIDE DEF h
  <2> PICK e : e = h.item
    OBVIOUS
  <2>3. e \in Events /\ Late(e)
    BY <1>1, <2>1, <2>2 DEF QueueLate
  <2>4. CASE jsonl' = Append(jsonl, Whole(e))
    <3>1. LogOf(jsonl)' = Append(LogOf(jsonl), e)
      BY <1>1, <2>3, <2>4, LogAppends
    <3> QED
      BY <1>1, <1>2, <1>3, <1>4, <2>3, <3>1, Commits DEF LogInv
  <2>5. ASSUME NEW file \in {"jsonl", "prolog"}, CutShort(file, e) PROVE LogStep
    BY <1>1, <1>2, <2>3, <2>5, PartLog
  <2> QED
    BY <1>3, <1>4, <1>6, <2>4, <2>5 DEF LogInv
<1> QED
  BY <1>5, <1>6 DEF Crash

\* record() returns only for an event that is in the log.
LEMMA ReturnLog ==
  ASSUME TypeInv, GrantedDurable, LogInv, NEW c \in Clients, Return(c)
  PROVE  LogInv' /\ LogStep
<1>1. /\ TypeOK /\ Carried /\ Sent /\ QueueLate /\ PendingLate /\ jsonl \in Seq(Row(Events))
  BY DEF TypeInv, TypeOK, LogInv
<1>2. UNCHANGED <<call, queue, failure, jsonl, pending, used, submitted>> /\ pc' = [pc EXCEPT ![c] = "idle"]
  BY DEF Return, fileVars, histVars
<1>3. Sent'
  BY <1>1, <1>2, SentQuiet DEF Asks, TypeOK
<1>4. QueueLate' /\ PendingLate'
  BY <1>1, <1>2, SameLate
<1>5. CASE call[c].op = "record" /\ reply[c] = "ok"
  <2>1. call[c].item \in Events /\ Holds(jsonl, call[c].item)
    BY <1>1, <1>5 DEF Carried, Carries, GrantedDurable, Written
  <2>2. Corpus!In(LogOf(jsonl), call[c].item)
    BY <1>1, <2>1, LogHolds
  <2>3. Corpus!Acknowledge(call[c].item)
    BY <1>2, <1>5, <2>2 DEF Corpus!Acknowledge, Return
  <2> QED
    BY <1>3, <1>4, <2>1, <2>3 DEF LogInv, LogStep, Corpus!Next
<1>6. CASE ~(call[c].op = "record" /\ reply[c] = "ok")
  <2>1. acked' = acked
    BY <1>6 DEF Return
  <2> QED
    BY <1>2, <1>3, <1>4, <2>1, Stutters DEF LogInv
<1> QED
  BY <1>5, <1>6

\* Every step of the recorder is a step of the log or leaves it alone.
LEMMA LogInvStep ==
  ASSUME TypeInv, Waiting, GrantedDurable, Fresh, LogInv, [Next]_vars
  PROVE  LogInv' /\ LogStep
<1>1. /\ TypeOK /\ Carried /\ Sent /\ QueueLate /\ PendingLate
  BY DEF TypeInv, LogInv
<1>2. ASSUME NEW c \in Clients, NEW e \in Events, Record(c, e) PROVE LogInv' /\ LogStep
  <2>1. /\ Carries("record", e) /\ "record" \in Ops /\ e \in Items
        /\ e \notin used /\ used' = used \cup {e} /\ Enter(c, "record", e)
    BY <1>2 DEF Carries, Ops, Items, Record
  <2> QED
    BY <2>1, EnterLog
<1>3. ASSUME NEW c \in Clients, NEW f \in Frames, JournalFrame(c, f) PROVE LogInv' /\ LogStep
  <2>1. /\ Carries("frame", f) /\ "frame" \in Ops /\ f \in Items
        /\ used' = used \cup {f} /\ Enter(c, "frame", f)
    BY <1>3 DEF Carries, Ops, Items, JournalFrame
  <2> QED
    BY <2>1, EnterLog
<1>4. ASSUME NEW c \in Clients, Close(c) PROVE LogInv' /\ LogStep
  <2>1. Carries("close", None) /\ "close" \in Ops /\ used' = used /\ Enter(c, "close", None)
    BY <1>4 DEF Carries, Ops, Close
  <2> QED
    BY <2>1, EnterLog
<1>5. ASSUME NEW c \in Clients, Flush(c) PROVE LogInv' /\ LogStep
  <2> DEFINE m == [op |-> "flush", item |-> None, owner |-> c, future |-> "pending"]
  <2>1. m \in Message /\ m.op # "record"
    BY DEF Message, Ops
  <2>2. /\ queue' = Append(queue, m) /\ UNCHANGED <<submitted, jsonl, pending, failure, used, acked>>
        /\ pc' = [pc EXCEPT ![c] = "future"] /\ call' = [call EXCEPT ![c] = [op |-> "flush", item |-> None]]
    BY <1>5 DEF Flush, Put, fileVars, histVars
  <2> HIDE DEF m
  <2>3. QueueLate' /\ PendingLate'
    BY <1>1, <2>1, <2>2, PutLate
  <2>4. Sent'
    BY <1>1, <2>2, SentQuiet DEF Asks, TypeOK
  <2> QED
    BY <2>2, <2>3, <2>4, Stutters DEF LogInv
<1>6. ASSUME (\E c \in Clients : Cancel(c)) \/ UNCHANGED vars PROVE LogInv' /\ LogStep
  <2>1. /\ UNCHANGED <<submitted, jsonl, pending, failure, used, acked, call>>
        /\ DOMAIN queue' = DOMAIN queue
        /\ \A k \in DOMAIN queue : queue'[k].op = queue[k].op /\ queue'[k].item = queue[k].item
    <3>1. CASE UNCHANGED <<queue, call, failure, fileVars, histVars, acked>>
      BY <3>1 DEF fileVars, histVars
    <3>2. ASSUME NEW c \in Clients, Cancel(c), pc[c] = "future"
          PROVE  /\ DOMAIN queue' = DOMAIN queue
                 /\ \A k \in DOMAIN queue : queue'[k].op = queue[k].op /\ queue'[k].item = queue[k].item
      <4>1. queue' = [k \in DOMAIN queue |->
                        IF queue[k].owner = c /\ queue[k].future = "pending"
                          THEN [queue[k] EXCEPT !.future = "cancelled"] ELSE queue[k]]
        BY <3>2 DEF Cancel
      <4>2. \A k \in DOMAIN queue : queue[k] \in Message
        BY <1>1, QueueTypes
      <4> QED
        BY <4>1, <4>2 DEF Message
    <3> QED
      BY <1>6, <3>1, <3>2 DEF Cancel, vars, callVars, fileVars, histVars
  <2>2. \A d \in Clients : Asks(d)' => Asks(d) /\ call'[d].item = call[d].item
    BY <1>1, <1>6, <2>1 DEF Asks, Cancel, vars, callVars, TypeOK
  <2>3. QueueLate' /\ PendingLate'
    BY <1>1, <2>1, SameLate
  <2>4. Sent'
    BY <1>1, <2>1, <2>2, SentQuiet
  <2> QED
    BY <2>1, <2>3, <2>4, Stutters DEF LogInv
<1> QED
  BY <1>2, <1>3, <1>4, <1>5, <1>6, AcquireLog, ReturnLog, ActorLog, CrashLog DEF Next

\* The recorder implements CaptureLog for any callers, faults, cancellations and crashes: the complete
\* rows of events.jsonl grow as a log does, in the order of the calls and each event at most once, and
\* record() returns only for an event of this log.
THEOREM RecorderImplementsLog == Spec => ImplementsCaptureLog
<1>1. ASSUME Init PROVE OrderInv /\ LogInv /\ Corpus!Init
  <2>1. /\ DOMAIN queue = {} /\ DOMAIN jsonl = {} /\ DOMAIN submitted = {} /\ pending = {} /\ journaled = {}
        /\ \A c \in Clients : pc[c] = "idle"
    BY <1>1, EmptySeq DEF Init
  <2>2. OrderInv
    BY <2>1 DEF OrderInv, Fresh, Bare, QueueInOrder, BufferedInOrder, NoHoles, Begun, Holds, Asks
  <2>3. LogInv
    BY <2>1 DEF LogInv, Sent, QueueLate, PendingLate
  <2>4. LogOf(jsonl) = <<>>
    <3>1. CompleteRows(jsonl) = {}
      BY <2>1 DEF CompleteRows
    <3>2. Cardinality({}) = 0
      BY FS_EmptySet
    <3> QED
      BY <3>1, <3>2 DEF LogOf
  <2> QED
    BY <1>1, <2>2, <2>3, <2>4 DEF Corpus!Init, Init
<1>2. ASSUME IInv, OrderInv, LogInv, [Next]_vars PROVE OrderInv' /\ LogInv' /\ LogStep
  BY <1>2, OrderStep, LogInvStep DEF IInv, OrderInv
<1>3. LogStep => [Corpus!Next]_(Corpus!vars)
  BY DEF LogStep
<1> QED
  BY <1>1, <1>2, <1>3, InitInv, InvStep, PTL DEF Spec, ImplementsCaptureLog, Corpus!Spec
=============================================================================
