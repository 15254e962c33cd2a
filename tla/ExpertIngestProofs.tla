------------------------- MODULE ExpertIngestProofs -------------------------
(***************************************************************************)
(* Proofs about ExpertIngest for any events, operators, options, faults    *)
(* and numbers of starts and runs.                                         *)
(***************************************************************************)
EXTENDS ExpertIngest, SequenceTheorems, WellFoundedInduction, TLAPS

USE ExpertIngestAssumption

\* The part of TypeOK that the proofs use.
RunType ==
  [pc : {"off", "read", "wait", "truncate", "write", "replace", "passed", "failed"},
   opts : Options \cup {None}, pos : Nat, selected : Nat, failed : BOOLEAN]

IngestType ==
  /\ corpus \in Seq(Events \cup {Torn})
  /\ writing \in Events \cup {None} /\ cut \in BOOLEAN
  /\ tasks \subseteq Task /\ \A t \in tasks : t.left # <<>>
  /\ run \in [Runners -> RunType]
  /\ \A b \in Runners : run[b].pc # "off" => run[b].opts \in Options
  /\ file \in Files /\ tmp \in Files

\* The row that is being written is the last one, and cannot be read yet.
RowBegun == writing # None /\ ~cut => corpus # <<>> /\ corpus[Len(corpus)] = Torn

\* A task of a backfill is the only one of its run, which waits for it, and is about the next
\* row; what it does not hold any more has been stored.
TaskOfRun(t) ==
  LET b == t.owner IN
    /\ run[b].pc = "wait" /\ run[b].pos + 1 <= Len(corpus)
    /\ corpus[run[b].pos + 1] = t.event /\ t.event # Torn
    /\ \A s \in ToSet(ReplaySteps(t.event, run[b].opts.transport)) :
         Has(t.event, s) \/ s \in ToSet(t.left)
    /\ \A u \in tasks : u.owner = b => u = t

TasksOwned == \A t \in tasks : t.owner \in Runners => TaskOfRun(t)

\* A dry run never posts, a run that has failed leaves the checkpoint alone, and a run passes
\* only without a failure.
RunHonest(r) ==
  /\ r.pc \in {"wait", "truncate", "write", "replace"} => ~r.opts.dry
  /\ r.pc \in {"truncate", "write", "replace"} => ~r.failed /\ r.pos # 0
  /\ r.pc = "passed" => ~r.failed
RunsHonest == \A b \in Runners : RunHonest(run[b])

\* What a run without a failure has passed is in the knowledge base.
RunCovered(r) ==
  r.pc # "off" /\ ~r.failed /\ ~r.opts.dry => Covered(r.pos, ModeOf(r.opts))
RunsCover == \A b \in Runners : RunCovered(run[b])

\* So the temporary file, too, covers what it says.
TmpCovers == tmp \notin {None, Torn} => Covered(tmp.line, tmp.mode)

CoverInv ==
  /\ IngestType /\ RowBegun /\ TasksOwned /\ RunsHonest
  /\ RunsCover /\ TmpCovers /\ CheckpointCovers

-----------------------------------------------------------------------------
(* Sequences of exchanges.                                                 *)

LEMMA ToSetSplit ==
  ASSUME NEW S, NEW q \in Seq(S), q # <<>>
  PROVE  /\ Head(q) \in S /\ Tail(q) \in Seq(S)
         /\ \A s \in ToSet(q) : s = Head(q) \/ s \in ToSet(Tail(q))
<1>1. Head(q) \in S /\ Tail(q) \in Seq(S) /\ Head(q) = q[1]
  OBVIOUS
<1>2. ASSUME NEW i \in 1 .. Len(q), i # 1
      PROVE  q[i] \in ToSet(Tail(q))
  <2>1. Len(Tail(q)) = Len(q) - 1 /\ Len(q) \in Nat
        /\ \A j \in 1 .. Len(Tail(q)) : Tail(q)[j] = q[j + 1]
    BY HeadTailProperties
  <2>2. i - 1 \in 1 .. Len(Tail(q)) /\ Tail(q)[i - 1] = q[i]
    BY <1>2, <2>1
  <2>3. DOMAIN Tail(q) = 1 .. Len(Tail(q))
    BY <1>1
  <2> QED
    BY <2>2, <2>3 DEF ToSet
<1> QED
  BY <1>1, <1>2 DEF ToSet

LEMMA ObserveFirst ==
  ASSUME NEW A \in Seq(Steps), NEW B \in Seq(Steps), NEW C \in Seq(Steps)
  PROVE  /\ <<"observe">> \o A \o B \o C \in Seq(Steps)
         /\ <<"observe">> \o A \o B \o C # <<>>
         /\ Head(<<"observe">> \o A \o B \o C) = "observe"
<1>1. <<"observe">> \in Seq(Steps) /\ Len(<<"observe">>) = 1 /\ <<"observe">>[1] = "observe"
  BY DEF Steps
<1>2. <<"observe">> \o A \in Seq(Steps) /\ (<<"observe">> \o A)[1] = "observe"
      /\ Len(<<"observe">> \o A) >= 1
  BY <1>1, ConcatProperties
<1>3. <<"observe">> \o A \o B \in Seq(Steps) /\ (<<"observe">> \o A \o B)[1] = "observe"
      /\ Len(<<"observe">> \o A \o B) >= 1
  BY <1>2, ConcatProperties
<1>4. <<"observe">> \o A \o B \o C \in Seq(Steps) /\ (<<"observe">> \o A \o B \o C)[1] = "observe"
      /\ Len(<<"observe">> \o A \o B \o C) >= 1
  BY <1>3, ConcatProperties
<1> QED
  BY <1>4

LEMMA StepsType ==
  ASSUME NEW q, (\E e : q = LiveSteps(e)) \/ (\E e, transport : q = ReplaySteps(e, transport))
  PROVE  q \in Seq(Steps) /\ q # <<>> /\ Head(q) = "observe"
<1>1. \A condition : \A step \in Steps : If(condition, step) \in Seq(Steps)
  BY DEF If
<1>2. CASE \E e : q = LiveSteps(e)
  <2>1. PICK e : q = LiveSteps(e)
    BY <1>2
  <2> DEFINE A == If(shape[e].usage, "usage")
             B == If(shape[e].mined = "some", "mined")
             C == If(shape[e].mined # "toomany" /\ LiveMessage(e) # None, "classify")
  <2>2. A \in Seq(Steps) /\ B \in Seq(Steps) /\ C \in Seq(Steps)
    BY <1>1 DEF Steps
  <2>3. q = <<"observe">> \o A \o B \o C
    BY <2>1 DEF LiveSteps
  <2> HIDE DEF A, B, C
  <2> QED
    BY <2>2, <2>3, ObserveFirst
<1>3. CASE \E e, transport : q = ReplaySteps(e, transport)
  <2>1. PICK e, transport : q = ReplaySteps(e, transport)
    BY <1>3
  <2>2. /\ If(ReplayMessage(e) # None, "classify") \in Seq(Steps)
        /\ If(shape[e].usage, "usage") \in Seq(Steps)
        /\ If(transport, "transport") \in Seq(Steps)
    BY <1>1 DEF Steps
  <2> QED
    BY <2>1, <2>2, ObserveFirst DEF ReplaySteps
<1> QED
  BY <1>2, <1>3

-----------------------------------------------------------------------------
(* Rows that can be read and documents stay.                               *)

Kept ==
  /\ Len(corpus) \in Nat /\ Len(corpus') \in Nat /\ Len(corpus) <= Len(corpus')
  /\ \A i \in 1 .. Len(corpus) : corpus[i] # Torn => corpus'[i] = corpus[i]
  /\ docs \subseteq docs' /\ shape' = shape

LEMMA StepsKept ==
  ASSUME Kept
  PROVE  /\ \A e, transport : ReplaySteps(e, transport)' = ReplaySteps(e, transport)
         /\ \A e, step : Has(e, step) => Has(e, step)'
<1>1. shape' = shape /\ docs \subseteq docs'
  BY DEF Kept
<1>2. \A e : ReplayMessage(e)' = ReplayMessage(e)
  BY <1>1 DEF ReplayMessage
<1> QED
  BY <1>1, <1>2 DEF ReplaySteps, Has

LEMMA CoveredKept ==
  ASSUME Kept
  PROVE  \A n, mode : Covered(n, mode) => Covered(n, mode)'
<1>1. shape' = shape
  BY DEF Kept
<1>2. \A e, transport : Complete(e, transport) => Complete(e, transport)'
  BY StepsKept DEF Complete
<1>3. ASSUME NEW n, NEW mode, Covered(n, mode), NEW i \in 1 .. n
      PROVE  /\ i <= Len(corpus') /\ corpus'[i] # Torn
             /\ Chosen(mode.since, corpus[i])' => Complete(corpus[i], mode.transport)'
  <2>1. /\ i <= Len(corpus) /\ corpus[i] # Torn
        /\ Chosen(mode.since, corpus[i]) => Complete(corpus[i], mode.transport)
    BY <1>3 DEF Covered, Readable
  <2>2. i <= Len(corpus') /\ corpus'[i] = corpus[i]
    BY <2>1 DEF Kept
  <2> QED
    BY <1>1, <1>2, <2>1, <2>2 DEF Chosen
<1> QED
  BY <1>3 DEF Covered, Readable

LEMMA RunSteps ==
  ASSUME NEW r \in RunType
  PROVE  /\ Failed(r) \in RunType /\ Failed(r).opts = r.opts
         /\ Failed(r).pc \in {"read", "failed"} /\ Failed(r).failed
         /\ Replayed(r) \in RunType /\ Replayed(r).opts = r.opts /\ Replayed(r).failed = r.failed
         /\ Replayed(r).pos = r.pos + 1 /\ Replayed(r).pc \in {"truncate", "read"}
         /\ (Replayed(r).pc = "truncate" => ~r.failed)
         /\ Ended(r) \in RunType /\ Ended(r).opts = r.opts /\ Ended(r).failed = r.failed
         /\ Ended(r).pos = r.pos /\ Ended(r).pc \in {"passed", "failed"}
         /\ (Ended(r).pc = "passed" => ~r.failed)
<1>1. /\ Failed(r) \in RunType /\ Failed(r).opts = r.opts
      /\ Failed(r).pc \in {"read", "failed"} /\ Failed(r).failed
  <2>1. CASE r.opts.continue
    <3>1. Failed(r) = [r EXCEPT !.pc = "read", !.pos = @ + 1, !.failed = TRUE]
      BY <2>1 DEF Failed
    <3>2. r.pos + 1 \in Nat
      BY DEF RunType
    <3> QED
      BY <3>1, <3>2 DEF RunType
  <2>2. CASE ~r.opts.continue
    BY <2>2 DEF Failed, RunType
  <2> QED
    BY <2>1, <2>2
<1>2. /\ Replayed(r) \in RunType /\ Replayed(r).opts = r.opts /\ Replayed(r).failed = r.failed
      /\ Replayed(r).pos = r.pos + 1 /\ Replayed(r).pc \in {"truncate", "read"}
      /\ (Replayed(r).pc = "truncate" => ~r.failed)
  <2>1. r.pos + 1 \in Nat
    BY DEF RunType
  <2>2. CASE r.opts.file /\ ~r.failed
    <3>1. Replayed(r) = [r EXCEPT !.pos = @ + 1, !.pc = "truncate"]
      BY <2>2 DEF Replayed
    <3> QED
      BY <2>1, <2>2, <3>1 DEF RunType
  <2>3. CASE ~(r.opts.file /\ ~r.failed)
    <3>1. Replayed(r) = [r EXCEPT !.pos = @ + 1, !.pc = "read"]
      BY <2>3 DEF Replayed
    <3> QED
      BY <2>1, <3>1 DEF RunType
  <2> QED
    BY <2>2, <2>3
<1>3. /\ Ended(r) \in RunType /\ Ended(r).opts = r.opts /\ Ended(r).failed = r.failed
      /\ Ended(r).pos = r.pos /\ Ended(r).pc \in {"passed", "failed"}
      /\ (Ended(r).pc = "passed" => ~r.failed)
  BY DEF Ended, RunType
<1> QED
  BY <1>1, <1>2, <1>3

LEMMA RowStep == IngestType /\ RowBegun /\ [Next]_vars => Kept /\ RowBegun'
<1> SUFFICES ASSUME IngestType, RowBegun, [Next]_vars PROVE Kept /\ RowBegun'
  OBVIOUS
<1> USE DEF rowVars
<1>1. Len(corpus) \in Nat
  BY DEF IngestType
<1>2. CASE UNCHANGED <<rowVars, docs>>
  BY <1>1, <1>2 DEF Kept, RowBegun
<1>3. ASSUME NEW e \in Events, BeginRow(e) PROVE Kept /\ RowBegun'
  BY <1>1, <1>3 DEF BeginRow, Kept, RowBegun, IngestType
<1>4. CASE EndRow
  <2>1. CASE cut
    BY <1>1, <1>4, <2>1 DEF EndRow, Kept, RowBegun
  <2>2. CASE ~cut
    BY <1>1, <1>4, <2>2 DEF EndRow, Kept, RowBegun, IngestType
  <2> QED
    BY <2>1, <2>2
<1>5. CASE Serve
  <2>1. UNCHANGED rowVars /\ docs \subseteq docs'
    BY <1>5 DEF Serve, Exchange
  <2> QED
    BY <1>1, <2>1 DEF Kept, RowBegun
<1>6. CASE Kill
  BY <1>1, <1>6 DEF Kill, Kept, RowBegun
<1>7. ASSUME NEW b \in Runners, (\E o \in Options : Begin(b, o)) \/ NextLine(b) \/ WriteCheckpoint(b) \/ GiveUp(b) \/ Stop(b)
      PROVE  UNCHANGED <<rowVars, docs>>
  BY <1>7 DEF Begin, NextLine, WriteCheckpoint, GiveUp, Stop
<1>8. CASE Start \/ BeginStop \/ ClosePlane \/ EndStop \/ UNCHANGED vars
  BY <1>2, <1>8 DEF Start, BeginStop, ClosePlane, EndStop, vars
<1> QED
  BY <1>2, <1>3, <1>4, <1>5, <1>6, <1>7, <1>8 DEF Next

LEMMA TypeStep == IngestType /\ TasksOwned /\ RunsHonest /\ [Next]_vars => IngestType'
<1> SUFFICES ASSUME IngestType, TasksOwned, RunsHonest, [Next]_vars PROVE IngestType'
  OBVIOUS
<1> USE DEF IngestType
<1>1. ASSUME NEW b \in Runners, NEW o \in Options, Begin(b, o) PROVE IngestType'
  <2>1. Checkpoint(o) \in Nat
    BY <1>1 DEF Begin, Checkpoint, Files
  <2>2. [Off EXCEPT !.pc = "read", !.opts = o, !.pos = Checkpoint(o)] \in RunType
    BY <2>1 DEF Off, RunType
  <2> QED
    BY <1>1, <2>2 DEF Begin, rowVars, fileVars, Off
<1>2. ASSUME NEW b \in Runners, NextLine(b) PROVE IngestType'
  <2> DEFINE r == run[b]
             e == corpus[r.pos + 1]
  <2>1. r \in RunType /\ r.opts \in Options
    BY <1>2 DEF NextLine
  <2>2. PICK q \in RunType : run' = [run EXCEPT ![b] = q] /\ q.opts \in Options
    <3> DEFINE chosen == [r EXCEPT !.selected = @ + 1]
    <3>1. r.pos + 1 \in Nat /\ r.selected + 1 \in Nat
      BY <2>1 DEF RunType
    <3>2. chosen \in RunType /\ chosen.opts = r.opts
      BY <2>1, <3>1 DEF RunType
    <3>3. \A q \in {Ended(r), Failed(chosen), [r EXCEPT !.pc = "failed"], [r EXCEPT !.pos = r.pos + 1],
                    [chosen EXCEPT !.pos = r.pos + 1], [chosen EXCEPT !.pc = "wait"]} :
            q \in RunType /\ q.opts = r.opts
      <4>1. Ended(r) \in RunType /\ Ended(r).opts = r.opts
            /\ Failed(chosen) \in RunType /\ Failed(chosen).opts = r.opts
        BY <2>1, <3>2, RunSteps
      <4>2. [r EXCEPT !.pc = "failed"] \in RunType /\ [r EXCEPT !.pc = "failed"].opts = r.opts
            /\ [r EXCEPT !.pos = r.pos + 1] \in RunType /\ [r EXCEPT !.pos = r.pos + 1].opts = r.opts
        BY <2>1, <3>1 DEF RunType
      <4> HIDE DEF chosen
      <4>3. [chosen EXCEPT !.pos = r.pos + 1] \in RunType /\ [chosen EXCEPT !.pos = r.pos + 1].opts = r.opts
            /\ [chosen EXCEPT !.pc = "wait"] \in RunType /\ [chosen EXCEPT !.pc = "wait"].opts = r.opts
        BY <3>1, <3>2 DEF RunType
      <4> QED
        BY <4>1, <4>2, <4>3
    <3>4. \E q \in {Ended(r), Failed(chosen), [r EXCEPT !.pc = "failed"], [r EXCEPT !.pos = r.pos + 1],
                    [chosen EXCEPT !.pos = r.pos + 1], [chosen EXCEPT !.pc = "wait"]} :
            run' = [run EXCEPT ![b] = q]
      BY <1>2 DEF NextLine
    <3> QED
      BY <2>1, <3>3, <3>4
  <2>3. tasks' \subseteq Task /\ \A t \in tasks' : t.left # <<>>
    <3>1. CASE UNCHANGED tasks
      BY <3>1
    <3>2. CASE /\ tasks' = tasks \cup {[owner |-> b, event |-> e, left |-> ReplaySteps(e, r.opts.transport)]}
               /\ r.pos + 1 <= Len(corpus) /\ Readable(r.pos + 1)
      <4>1. e \in Events
        BY <2>1, <3>2 DEF Readable, RunType
      <4>2. /\ ReplaySteps(e, r.opts.transport) \in Seq(Steps)
            /\ ReplaySteps(e, r.opts.transport) # <<>>
        BY StepsType
      <4> QED
        BY <3>2, <4>1, <4>2 DEF Task
    <3> QED
      BY <1>2, <3>1, <3>2 DEF NextLine
  <2> QED
    BY <1>2, <2>1, <2>2, <2>3 DEF NextLine, rowVars, fileVars
<1>3. ASSUME NEW b \in Runners, WriteCheckpoint(b) PROVE IngestType'
  <2>1. run[b] \in RunType /\ run[b].opts \in Options
    BY <1>3 DEF WriteCheckpoint
  <2>2. tmp' \in Files /\ file' \in Files
    BY <1>3, <2>1 DEF WriteCheckpoint, Files, fileVars, Modes, ModeOf, RunType, OptionType
  <2>3. PICK q \in RunType : run' = [run EXCEPT ![b] = q] /\ q.opts \in Options
    <3> DEFINE before == [run[b] EXCEPT !.pos = @ - 1]
    <3>1. CASE run[b].pc = "replace" /\ tmp = None
      <4>1. run[b].pos # 0
        BY <1>3, <3>1 DEF RunsHonest, RunHonest
      <4>2. before \in RunType /\ before.opts = run[b].opts
        BY <2>1, <4>1 DEF RunType
      <4>3. run' = [run EXCEPT ![b] = Failed(before)]
        BY <1>3, <3>1 DEF WriteCheckpoint
      <4> HIDE DEF before
      <4>4. Failed(before) \in RunType /\ Failed(before).opts \in Options
        BY <2>1, <4>2, RunSteps
      <4> QED
        BY <4>3, <4>4
    <3>2. CASE ~(run[b].pc = "replace" /\ tmp = None)
      <4>1. PICK pc \in {"write", "replace", "read"} : run' = [run EXCEPT ![b].pc = pc]
        BY <1>3, <3>2 DEF WriteCheckpoint
      <4>2. [run[b] EXCEPT !.pc = pc] \in RunType /\ [run[b] EXCEPT !.pc = pc].opts = run[b].opts
        BY <2>1 DEF RunType
      <4>3. run' = [run EXCEPT ![b] = [run[b] EXCEPT !.pc = pc]]
        BY <4>1
      <4> DEFINE q == [run[b] EXCEPT !.pc = pc]
      <4>4. q \in RunType /\ q.opts \in Options /\ run' = [run EXCEPT ![b] = q]
        BY <2>1, <4>2, <4>3
      <4> HIDE DEF q
      <4> QED
        BY <4>4
    <3> QED
      BY <3>1, <3>2
  <2> QED
    BY <1>3, <2>1, <2>2, <2>3 DEF WriteCheckpoint, rowVars
<1>4. ASSUME NEW b \in Runners, GiveUp(b) \/ Stop(b) PROVE IngestType'
  <2>1. run[b] \in RunType /\ run[b].opts \in Options
    BY <1>4 DEF GiveUp, Stop
  <2>2. Abandoned(b) \subseteq Task /\ \A t \in Abandoned(b) : t.left # <<>>
    BY DEF Abandoned, Task
  <2>3. PICK q \in RunType : run' = [run EXCEPT ![b] = q] /\ (q.pc # "off" => q.opts \in Options)
    <3>1. Off \in RunType /\ Off.pc = "off"
      BY DEF Off, RunType
    <3> QED
      BY <1>4, <2>1, <3>1, RunSteps DEF GiveUp, Stop
  <2> QED
    BY <1>4, <2>1, <2>2, <2>3 DEF GiveUp, Stop, rowVars, fileVars
<1>5. ASSUME NEW e \in Events, BeginRow(e) PROVE IngestType'
  BY <1>5 DEF BeginRow, fileVars
<1>6. CASE EndRow
  <2>1. corpus' \in Seq(Events \cup {Torn})
    BY <1>6 DEF EndRow
  <2>2. /\ LiveSteps(writing) \in Seq(Steps) /\ LiveSteps(writing) # <<>>
    BY StepsType
  <2>3. tasks' \subseteq Task /\ \A t \in tasks' : t.left # <<>>
    BY <1>6, <2>2 DEF EndRow, Task
  <2> QED
    BY <1>6, <2>1, <2>3 DEF EndRow, fileVars
<1>7. ASSUME NEW t \in tasks, Exchange(t) PROVE IngestType'
  <2>1. PICK ok \in BOOLEAN : Finish(t, ok)
    BY <1>7 DEF Exchange
  <2>2. /\ t \in Task /\ t.left # <<>> /\ Tail(t.left) \in Seq(Steps)
    BY ToSetSplit DEF Task
  <2>3. tasks' \subseteq Task /\ \A u \in tasks' : u.left # <<>>
    <3>1. [t EXCEPT !.left = Tail(t.left)] \in Task /\ [t EXCEPT !.left = Tail(t.left)].left = Tail(t.left)
      BY <2>2 DEF Task
    <3>2. CASE tasks' = tasks \ {t}
      BY <3>2
    <3>3. CASE Tail(t.left) # <<>> /\ tasks' = (tasks \ {t}) \cup {[t EXCEPT !.left = Tail(t.left)]}
      BY <3>1, <3>3
    <3> QED
      BY <2>1, <3>2, <3>3 DEF Finish
  <2>4. run' \in [Runners -> RunType] /\ \A b \in Runners : run'[b].pc # "off" => run'[b].opts \in Options
    <3>1. CASE UNCHANGED run
      BY <3>1
    <3>2. CASE /\ t.owner \in Runners
               /\ run' = [run EXCEPT ![t.owner] = IF ok THEN Replayed(@) ELSE Failed(@)]
      <4>1. run[t.owner] \in RunType /\ run[t.owner].opts \in Options
        BY <3>2 DEF TasksOwned, TaskOfRun
      <4> DEFINE q == IF ok THEN Replayed(run[t.owner]) ELSE Failed(run[t.owner])
      <4>2. q \in RunType /\ q.opts \in Options
        BY <4>1, RunSteps
      <4>3. run' = [run EXCEPT ![t.owner] = q]
        BY <3>2
      <4> HIDE DEF q
      <4> QED
        BY <4>2, <4>3
    <3> QED
      BY <2>1, <3>1, <3>2 DEF Finish
  <2> QED
    BY <1>7, <2>3, <2>4 DEF Exchange, rowVars, fileVars
<1>8. CASE Kill
  <2>1. run' \in [Runners -> RunType] /\ \A b \in Runners : run'[b].pc # "off" => run'[b].opts \in Options
    <3>1. \A b \in Runners : run[b] \in RunType /\ Failed(run[b]) \in RunType /\ Failed(run[b]).opts = run[b].opts
      BY RunSteps
    <3> QED
      BY <1>8, <3>1 DEF Kill
  <2> QED
    BY <1>8, <2>1 DEF Kill, fileVars
<1>9. CASE Start \/ BeginStop \/ ClosePlane \/ EndStop \/ UNCHANGED vars
  BY <1>9 DEF Start, BeginStop, ClosePlane, EndStop, vars, rowVars, fileVars
<1> QED
  BY <1>1, <1>2, <1>3, <1>4, <1>5, <1>6, <1>7, <1>8, <1>9 DEF Next, Serve

LEMMA HonestRuns ==
  /\ RunHonest(Off)
  /\ \A r \in RunType : RunHonest(Failed(r)) /\ RunHonest(Ended(r)) /\ (~r.opts.dry => RunHonest(Replayed(r)))
<1>1. RunHonest(Off)
  BY DEF RunHonest, Off
<1>2. ASSUME NEW r \in RunType
      PROVE  RunHonest(Failed(r)) /\ RunHonest(Ended(r)) /\ (~r.opts.dry => RunHonest(Replayed(r)))
  <2>1. RunHonest(Failed(r)) /\ RunHonest(Ended(r))
    BY RunSteps DEF RunHonest
  <2>2. r.pos + 1 # 0
    BY DEF RunType
  <2>3. ASSUME ~r.opts.dry PROVE RunHonest(Replayed(r))
    BY <2>2, <2>3, RunSteps DEF RunHonest
  <2> QED
    BY <2>1, <2>3
<1> QED
  BY <1>1, <1>2

LEMMA HonestStep == IngestType /\ TasksOwned /\ RunsHonest /\ [Next]_vars => RunsHonest'
<1> SUFFICES ASSUME IngestType, TasksOwned, RunsHonest, [Next]_vars PROVE RunsHonest'
  OBVIOUS
<1>1. \A b \in Runners : run[b] \in RunType /\ RunHonest(run[b])
  BY DEF IngestType, RunsHonest
<1>2. ASSUME NEW b \in Runners, NEW q, RunHonest(q), run' = [run EXCEPT ![b] = q]
      PROVE  RunsHonest'
  BY <1>1, <1>2 DEF IngestType, RunsHonest
<1>3. CASE run' = run
  BY <1>3 DEF RunsHonest
<1>4. ASSUME NEW b \in Runners, NEW o \in Options, Begin(b, o) PROVE RunsHonest'
  <2> DEFINE q == [Off EXCEPT !.pc = "read", !.opts = o, !.pos = Checkpoint(o)]
  <2>1. RunHonest(q)
    BY DEF RunHonest, Off
  <2> QED
    BY <1>2, <1>4, <2>1 DEF Begin
<1>5. ASSUME NEW b \in Runners, NextLine(b) PROVE RunsHonest'
  <2> DEFINE r == run[b]
             chosen == [r EXCEPT !.selected = @ + 1]
  <2>1. chosen \in RunType /\ chosen.opts = r.opts
    BY <1>1 DEF RunType
  <2>2. PICK q : /\ run' = [run EXCEPT ![b] = q]
                 /\ \/ q \in {Ended(r), Failed(chosen)}
                    \/ q \in {[r EXCEPT !.pc = "failed"], [r EXCEPT !.pos = r.pos + 1],
                              [chosen EXCEPT !.pos = r.pos + 1]} /\ r.pc = "read"
                    \/ q = [chosen EXCEPT !.pc = "wait"] /\ ~r.opts.dry
    BY <1>5 DEF NextLine
  <2>3. RunHonest(q)
    <3>1. CASE q \in {Ended(r), Failed(chosen)}
      BY <1>1, <2>1, <3>1, HonestRuns
    <3>2. CASE q \in {[r EXCEPT !.pc = "failed"], [r EXCEPT !.pos = r.pos + 1],
                      [chosen EXCEPT !.pos = r.pos + 1]} /\ r.pc = "read"
      <4>1. q.pc \in {"failed", "read"}
        BY <1>1, <3>2 DEF RunType
      <4> QED
        BY <4>1 DEF RunHonest
    <3>3. CASE q = [chosen EXCEPT !.pc = "wait"] /\ ~r.opts.dry
      BY <1>1, <3>3 DEF RunType, RunHonest
    <3> QED
      BY <2>2, <3>1, <3>2, <3>3
  <2> QED
    BY <1>2, <2>2, <2>3
<1>6. ASSUME NEW b \in Runners, WriteCheckpoint(b) PROVE RunsHonest'
  <2> DEFINE r == run[b]
             before == [r EXCEPT !.pos = r.pos - 1]
  <2>1. PICK q : /\ run' = [run EXCEPT ![b] = q]
                 /\ \/ q = [r EXCEPT !.pc = "write"] /\ r.pc = "truncate"
                    \/ q = [r EXCEPT !.pc = "replace"] /\ r.pc = "write"
                    \/ q = [r EXCEPT !.pc = "read"] /\ r.pc = "replace"
                    \/ q = Failed(before) /\ r.pc = "replace"
    BY <1>6 DEF WriteCheckpoint
  <2>2. CASE q = Failed(before) /\ r.pc = "replace"
    <3>1. before \in RunType
      BY <1>1, <2>2 DEF RunType, RunHonest
    <3> QED
      BY <1>2, <2>1, <2>2, <3>1, HonestRuns
  <2>3. CASE q \in {[r EXCEPT !.pc = "write"], [r EXCEPT !.pc = "replace"], [r EXCEPT !.pc = "read"]}
             /\ r.pc \in {"truncate", "write", "replace"}
    <3>1. RunHonest(q)
      BY <1>1, <2>3 DEF RunType, RunHonest
    <3> QED
      BY <1>2, <2>1, <3>1
  <2> QED
    BY <2>1, <2>2, <2>3
<1>7. ASSUME NEW b \in Runners, GiveUp(b) \/ Stop(b) PROVE RunsHonest'
  BY <1>1, <1>2, <1>7, HonestRuns DEF GiveUp, Stop
<1>8. ASSUME NEW t \in tasks, Exchange(t) PROVE RunsHonest'
  <2>1. PICK ok \in BOOLEAN : Finish(t, ok)
    BY <1>8 DEF Exchange
  <2>2. CASE t.owner \in Runners /\ run' # run
    <3>1. run[t.owner].pc = "wait"
      BY <2>2 DEF TasksOwned, TaskOfRun
    <3>2. ~run[t.owner].opts.dry
      BY <1>1, <2>2, <3>1 DEF RunHonest
    <3> DEFINE q == IF ok THEN Replayed(run[t.owner]) ELSE Failed(run[t.owner])
    <3>3. RunHonest(q)
      BY <1>1, <2>2, <3>2, HonestRuns
    <3>4. run' = [run EXCEPT ![t.owner] = q]
      BY <2>1, <2>2 DEF Finish
    <3> HIDE DEF q
    <3> QED
      BY <1>2, <2>2, <3>3, <3>4
  <2> QED
    BY <1>3, <2>1, <2>2 DEF Finish
<1>9. CASE Kill
  BY <1>1, <1>9, HonestRuns DEF Kill, RunsHonest
<1>10. ASSUME NEW e \in Events, BeginRow(e) PROVE RunsHonest'
  BY <1>3, <1>10 DEF BeginRow
<1>11. CASE Start \/ EndRow \/ BeginStop \/ ClosePlane \/ EndStop \/ UNCHANGED vars
  BY <1>3, <1>11 DEF Start, EndRow, BeginStop, ClosePlane, EndStop, vars
<1> QED
  BY <1>4, <1>5, <1>6, <1>7, <1>8, <1>9, <1>10, <1>11 DEF Next, Serve

\* A task stays with its run while that run waits.
LEMMA OwnedKept ==
  ASSUME Kept, NEW t \in tasks, IngestType, t.owner \in Runners, TaskOfRun(t),
         run'[t.owner] = run[t.owner], \A u \in tasks' : u.owner = t.owner => u = t
  PROVE  TaskOfRun(t)'
<1> DEFINE r == run[t.owner]
<1>1. r \in RunType
  BY DEF IngestType
<1>2. r.pos + 1 \in 1 .. Len(corpus) /\ corpus[r.pos + 1] # Torn
  BY <1>1 DEF TaskOfRun, Kept, RunType
<1>3. r.pos + 1 <= Len(corpus') /\ corpus'[r.pos + 1] = t.event
  BY <1>2 DEF Kept, TaskOfRun
<1>4. \A s \in ToSet(ReplaySteps(t.event, r.opts.transport)') : Has(t.event, s)' \/ s \in ToSet(t.left)
  BY StepsKept DEF TaskOfRun
<1> QED
  BY <1>3, <1>4 DEF TaskOfRun

LEMMA OwnedStep == IngestType /\ RowBegun /\ TasksOwned /\ [Next]_vars => TasksOwned'
<1> SUFFICES ASSUME IngestType, RowBegun, TasksOwned, [Next]_vars PROVE TasksOwned'
  OBVIOUS
<1>1. Kept
  BY RowStep
<1>2. \A t \in tasks : t.owner \in Runners =>
        TaskOfRun(t) /\ run[t.owner].pc = "wait" /\ \A u \in tasks : u.owner = t.owner => u = t
  BY DEF TasksOwned, TaskOfRun
\* A step that changes only runs without a task.
<1>3. ASSUME \A t \in tasks' : t.owner \in Runners => t \in tasks /\ run'[t.owner] = run[t.owner]
      PROVE  TasksOwned'
  <2>1. ASSUME NEW t \in tasks', t.owner \in Runners PROVE TaskOfRun(t)'
    <3>1. t \in tasks /\ run'[t.owner] = run[t.owner] /\ TaskOfRun(t)
      BY <1>2, <1>3, <2>1
    <3>2. \A u \in tasks' : u.owner = t.owner => u = t
      BY <1>2, <1>3, <2>1
    <3> QED
      BY <1>1, <2>1, <3>1, <3>2, OwnedKept
  <2> QED
    BY <2>1 DEF TasksOwned
<1>4. ASSUME NEW b \in Runners, run[b].pc # "wait", tasks' = tasks,
             \A c \in Runners : c # b => run'[c] = run[c]
      PROVE  TasksOwned'
  BY <1>2, <1>3, <1>4
<1>5. ASSUME NEW b \in Runners, NEW o \in Options, Begin(b, o) PROVE TasksOwned'
  BY <1>4, <1>5 DEF Begin, IngestType
<1>6. ASSUME NEW b \in Runners, NextLine(b) PROVE TasksOwned'
  <2> DEFINE r == run[b]
  <2>1. r.pc = "read" /\ \A c \in Runners : c # b => run'[c] = run[c]
    BY <1>6 DEF NextLine, IngestType
  <2>2. CASE tasks' = tasks
    BY <1>4, <2>1, <2>2
  <2>3. CASE \E n, e, transport, q :
               /\ n = r.pos + 1 /\ e = corpus[n] /\ transport = r.opts.transport
               /\ q = [owner |-> b, event |-> e, left |-> ReplaySteps(e, transport)]
               /\ tasks' = tasks \cup {q} /\ n <= Len(corpus) /\ Readable(n)
               /\ run' = [run EXCEPT ![b] = [[r EXCEPT !.selected = @ + 1] EXCEPT !.pc = "wait"]]
    <3> PICK n, e, transport, q :
               /\ n = r.pos + 1 /\ e = corpus[n] /\ transport = r.opts.transport
               /\ q = [owner |-> b, event |-> e, left |-> ReplaySteps(e, transport)]
               /\ tasks' = tasks \cup {q} /\ n <= Len(corpus) /\ Readable(n)
               /\ run' = [run EXCEPT ![b] = [[r EXCEPT !.selected = @ + 1] EXCEPT !.pc = "wait"]]
      BY <2>3
    <3>1. r \in RunType /\ n \in 1 .. Len(corpus)
      BY DEF IngestType, RunType
    <3>2. e # Torn /\ corpus'[n] = e /\ n <= Len(corpus')
      BY <1>1, <3>1 DEF Readable, Kept
    <3>3. run'[b].pc = "wait" /\ run'[b].pos + 1 = n /\ run'[b].opts.transport = transport
      BY <3>1 DEF IngestType, RunType
    <3>4. \A t \in tasks : t.owner \in Runners => t.owner # b
      BY <1>2, <2>1
    <3>5. q.owner = b /\ q.event = e /\ q.left = ReplaySteps(e, transport)
      OBVIOUS
    <3>6. ReplaySteps(e, transport)' = q.left
      BY <1>1, <3>5, StepsKept
    <3>7. TaskOfRun(q)'
      BY <3>2, <3>3, <3>4, <3>5, <3>6 DEF TaskOfRun
    <3>8. ASSUME NEW t \in tasks', t.owner \in Runners PROVE TaskOfRun(t)'
      <4>1. CASE t = q
        BY <3>7, <4>1
      <4>2. CASE t \in tasks
        <5>1. t.owner # b /\ run'[t.owner] = run[t.owner] /\ TaskOfRun(t)
          BY <1>2, <2>1, <3>4, <3>8, <4>2
        <5>2. \A u \in tasks' : u.owner = t.owner => u = t
          BY <1>2, <3>5, <3>8, <4>2, <5>1
        <5> QED
          BY <1>1, <3>8, <4>2, <5>1, <5>2, OwnedKept
      <4> QED
        BY <3>8, <4>1, <4>2
    <3> QED
      BY <3>8 DEF TasksOwned
  <2> QED
    BY <1>6, <2>2, <2>3 DEF NextLine
<1>7. ASSUME NEW b \in Runners, WriteCheckpoint(b) PROVE TasksOwned'
  BY <1>4, <1>7 DEF WriteCheckpoint, IngestType
<1>8. ASSUME NEW b \in Runners, GiveUp(b) \/ Stop(b) PROVE TasksOwned'
  <2>1. tasks' = Abandoned(b) /\ \A c \in Runners : c # b => run'[c] = run[c]
    BY <1>8 DEF GiveUp, Stop, IngestType
  <2>2. \A t \in tasks' : t.owner \in Runners => t \in tasks /\ t.owner # b
    <3>1. ASSUME NEW t \in tasks, NEW u, u = IF t.owner = b THEN [t EXCEPT !.owner = Gone] ELSE t,
                 u.owner \in Runners
          PROVE  u \in tasks /\ u.owner # b
      BY <3>1 DEF IngestType, Task
    <3> QED
      BY <2>1, <3>1 DEF Abandoned
  <2> QED
    BY <1>3, <2>1, <2>2
<1>9. CASE EndRow
  <2>1. \A t \in tasks' : t.owner \in Runners => t \in tasks
    BY <1>9 DEF EndRow
  <2> QED
    BY <1>3, <1>9, <2>1 DEF EndRow
<1>10. ASSUME NEW t \in tasks, Exchange(t) PROVE TasksOwned'
  <2>1. PICK ok \in BOOLEAN : Finish(t, ok) /\ (ok => docs' = docs \cup Effect(t))
    BY <1>10 DEF Exchange
  <2> DEFINE q == [t EXCEPT !.left = Tail(t.left)]
  <2>2. t \in Task /\ q.owner = t.owner /\ q.event = t.event /\ q.left = Tail(t.left)
        /\ \A s \in ToSet(t.left) : s = Head(t.left) \/ s \in ToSet(q.left)
    BY ToSetSplit DEF IngestType, Task
  <2> HIDE DEF q
  <2>3. CASE tasks' = tasks \ {t} /\ \A b \in Runners : b # t.owner => run'[b] = run[b]
    BY <1>2, <1>3, <2>3
  <2>4. CASE ok /\ tasks' = (tasks \ {t}) \cup {q} /\ run' = run
    <3>1. Has(t.event, Head(t.left))'
      <4>1. DocOf(t) \in docs' /\ DocOf(t).event = t.event /\ DocOf(t).step = Head(t.left)
        BY <2>1, <2>4 DEF Effect, DocOf
      <4> QED
        BY <4>1 DEF Has
    <3>2. ASSUME t.owner \in Runners PROVE TaskOfRun(q)'
      <4> DEFINE r == run[t.owner]
      <4>1. TaskOfRun(t) /\ r \in RunType
        BY <1>2, <3>2 DEF IngestType
      <4>2. r.pos + 1 \in 1 .. Len(corpus) /\ corpus[r.pos + 1] # Torn
        BY <1>1, <4>1 DEF TaskOfRun, Kept, RunType
      <4>3. r.pos + 1 <= Len(corpus') /\ corpus'[r.pos + 1] = t.event /\ t.event # Torn /\ r.pc = "wait"
        BY <1>1, <4>1, <4>2 DEF Kept, TaskOfRun
      <4>4. \A s \in ToSet(ReplaySteps(t.event, r.opts.transport)') : Has(t.event, s)' \/ s \in ToSet(q.left)
        BY <1>1, <2>2, <2>4, <3>1, <4>1, StepsKept DEF TaskOfRun
      <4>5. \A u \in tasks' : u.owner = q.owner => u = q
        BY <1>2, <2>2, <2>4, <3>2
      <4> QED
        BY <2>2, <2>4, <4>3, <4>4, <4>5 DEF TaskOfRun
    <3>3. ASSUME NEW u \in tasks', u.owner \in Runners PROVE TaskOfRun(u)'
      <4>1. CASE u = q
        BY <2>2, <3>2, <3>3, <4>1
      <4>2. CASE u \in tasks /\ u # t
        <5>1. TaskOfRun(u) /\ u.owner # t.owner
          BY <1>2, <3>3, <4>2
        <5>2. \A v \in tasks' : v.owner = u.owner => v = u
          BY <1>2, <2>2, <2>4, <3>3, <4>2, <5>1
        <5> QED
          BY <1>1, <2>4, <3>3, <4>2, <5>1, <5>2, OwnedKept
      <4> QED
        BY <2>4, <3>3, <4>1, <4>2
    <3> QED
      BY <3>3 DEF TasksOwned
  <2> QED
    BY <2>1, <2>3, <2>4 DEF Finish, IngestType, q
<1>11. CASE Kill
  BY <1>11 DEF Kill, TasksOwned
<1>12. ASSUME NEW e \in Events, BeginRow(e) PROVE TasksOwned'
  BY <1>3, <1>12 DEF BeginRow
<1>13. CASE Start \/ BeginStop \/ ClosePlane \/ EndStop \/ UNCHANGED vars
  BY <1>3, <1>13 DEF Start, BeginStop, ClosePlane, EndStop, vars
<1> QED
  BY <1>5, <1>6, <1>7, <1>8, <1>9, <1>10, <1>11, <1>12, <1>13 DEF Next, Serve

LEMMA RunsCoverStep ==
  IngestType /\ RowBegun /\ TasksOwned /\ RunsHonest /\ RunsCover /\ CheckpointCovers /\ [Next]_vars
    => RunsCover'
<1> SUFFICES ASSUME IngestType, RowBegun, TasksOwned, RunsHonest, RunsCover, CheckpointCovers, [Next]_vars
             PROVE  RunsCover'
  OBVIOUS
<1>1. Kept /\ \A n, mode : Covered(n, mode) => Covered(n, mode)'
  BY RowStep, CoveredKept
<1>2. \A b \in Runners : run[b] \in RunType /\ RunCovered(run[b])
  BY DEF IngestType, RunsCover
<1>3. \A r : RunCovered(r) => RunCovered(r)'
  BY <1>1 DEF RunCovered
<1>4. ASSUME \A b \in Runners : \E q : run'[b] = q /\ RunCovered(q)'
      PROVE  RunsCover'
  <2>1. ASSUME NEW b \in Runners PROVE RunCovered(run[b])'
    <3>1. PICK q : run'[b] = q /\ RunCovered(q)'
      BY <1>4
    <3> QED
      BY <3>1 DEF RunCovered
  <2> QED
    BY <2>1 DEF RunsCover
<1>5. ASSUME NEW b \in Runners, NEW q, RunCovered(q)', run' = [run EXCEPT ![b] = q]
      PROVE  RunsCover'
  BY <1>2, <1>3, <1>4, <1>5 DEF IngestType
<1>6. CASE run' = run
  BY <1>2, <1>3, <1>4, <1>6
<1>7. \A r \in RunType : RunCovered(Failed(r))'
  BY RunSteps DEF RunCovered
<1>8. ASSUME NEW b \in Runners, NEW o \in Options, Begin(b, o) PROVE RunsCover'
  <2>1. PICK n : n = Checkpoint(o) /\ n # None
    BY <1>8 DEF Begin
  <2>2. Covered(n, ModeOf(o))
    <3>1. CASE ~o.file \/ o.fromStart \/ file = None
      BY <2>1, <3>1 DEF Checkpoint, Covered
    <3>2. CASE ~(~o.file \/ o.fromStart \/ file = None)
      <4>1. file \notin {None, Torn} /\ n = file.line /\ file.mode = ModeOf(o)
        BY <2>1, <3>2 DEF Checkpoint
      <4> QED
        BY <4>1 DEF CheckpointCovers
    <3> QED
      BY <3>1, <3>2
  <2>3. PICK q : q = [Off EXCEPT !.pc = "read", !.opts = o, !.pos = n]
    OBVIOUS
  <2>4. q.opts = o /\ q.pos = n
    BY <2>3 DEF Off
  <2>5. RunCovered(q)'
    BY <1>1, <2>2, <2>4 DEF RunCovered
  <2> QED
    BY <1>5, <1>8, <2>1, <2>3, <2>5 DEF Begin
<1>9. ASSUME NEW b \in Runners, NextLine(b) PROVE RunsCover'
  <2>1. PICK r \in RunType : r = run[b] /\ r.pc = "read" /\ RunCovered(r)
    BY <1>2, <1>9 DEF NextLine
  <2>2. PICK chosen : chosen = [r EXCEPT !.selected = @ + 1]
    OBVIOUS
  <2>3. chosen \in RunType /\ chosen.opts = r.opts /\ chosen.pos = r.pos /\ chosen.failed = r.failed
    BY <2>1, <2>2 DEF RunType
  <2>4. PICK q : /\ run' = [run EXCEPT ![b] = q]
                 /\ \/ q \in {Ended(r), Failed(chosen), [r EXCEPT !.pc = "failed"],
                              [chosen EXCEPT !.pc = "wait"]}
                    \/ q = [chosen EXCEPT !.pos = r.pos + 1] /\ r.opts.dry
                    \/ /\ q = [r EXCEPT !.pos = r.pos + 1] /\ r.pos + 1 <= Len(corpus)
                       /\ Readable(r.pos + 1) /\ ~Chosen(r.opts.since, corpus[r.pos + 1])
    BY <1>9, <2>1, <2>2 DEF NextLine
  <2>5. CASE q = Failed(chosen)
    BY <1>5, <1>7, <2>3, <2>4, <2>5
  <2>6. CASE q \in {Ended(r), [r EXCEPT !.pc = "failed"], [chosen EXCEPT !.pc = "wait"]}
    <3>1. q.opts = r.opts /\ q.pos = r.pos /\ q.failed = r.failed
      <4>1. CASE q = Ended(r)
        BY <4>1, RunSteps
      <4>2. CASE q = [r EXCEPT !.pc = "failed"]
        BY <4>2 DEF RunType
      <4>3. CASE q = [chosen EXCEPT !.pc = "wait"]
        BY <2>3, <4>3 DEF RunType
      <4> QED
        BY <2>6, <4>1, <4>2, <4>3
    <3>2. RunCovered(q)'
      BY <1>1, <2>1, <3>1 DEF RunCovered
    <3> QED
      BY <1>5, <2>4, <3>2
  <2>7. CASE q = [chosen EXCEPT !.pos = r.pos + 1] /\ r.opts.dry
    <3>1. q.opts = r.opts
      BY <2>3, <2>7 DEF RunType
    <3>2. RunCovered(q)'
      BY <2>7, <3>1 DEF RunCovered
    <3> QED
      BY <1>5, <2>4, <3>2
  <2>8. CASE /\ q = [r EXCEPT !.pos = r.pos + 1] /\ r.pos + 1 <= Len(corpus)
             /\ Readable(r.pos + 1) /\ ~Chosen(r.opts.since, corpus[r.pos + 1])
    <3>1. q.opts = r.opts /\ q.pos = r.pos + 1 /\ q.failed = r.failed /\ r.pos \in Nat
      BY <2>1, <2>8 DEF RunType
    <3>2. Covered(r.pos, ModeOf(r.opts)) => Covered(r.pos + 1, ModeOf(r.opts))
      BY <2>8, <3>1 DEF Covered, ModeOf
    <3>3. RunCovered(q)'
      BY <1>1, <2>1, <3>1, <3>2 DEF RunCovered
    <3> QED
      BY <1>5, <2>4, <3>3
  <2> QED
    BY <2>4, <2>5, <2>6, <2>7, <2>8
<1>10. ASSUME NEW b \in Runners, WriteCheckpoint(b) PROVE RunsCover'
  <2>1. PICK r \in RunType : r = run[b] /\ r.pc # "off" /\ RunCovered(r) /\ RunHonest(r)
    BY <1>2, <1>10 DEF WriteCheckpoint, RunsHonest
  <2>2. PICK q : /\ run' = [run EXCEPT ![b] = q]
                 /\ \/ \E pc \in {"write", "replace", "read"} : q = [r EXCEPT !.pc = pc]
                    \/ q = Failed([r EXCEPT !.pos = r.pos - 1]) /\ r.pc = "replace"
    BY <1>10, <2>1 DEF WriteCheckpoint
  <2>3. CASE \E pc \in {"write", "replace", "read"} : q = [r EXCEPT !.pc = pc]
    <3>1. q.opts = r.opts /\ q.pos = r.pos /\ q.failed = r.failed
      BY <2>1, <2>3 DEF RunType
    <3>2. RunCovered(q)'
      BY <1>1, <2>1, <3>1 DEF RunCovered
    <3> QED
      BY <1>5, <2>2, <3>2
  <2>4. CASE q = Failed([r EXCEPT !.pos = r.pos - 1]) /\ r.pc = "replace"
    <3>1. [r EXCEPT !.pos = r.pos - 1] \in RunType
      BY <2>1, <2>4 DEF RunType, RunHonest
    <3> QED
      BY <1>5, <1>7, <2>2, <2>4, <3>1
  <2> QED
    BY <2>2, <2>3, <2>4
<1>11. ASSUME NEW b \in Runners, GiveUp(b) \/ Stop(b) PROVE RunsCover'
  <2>1. CASE GiveUp(b)
    <3>1. PICK q : q = Failed(run[b]) /\ RunCovered(q)'
      BY <1>2, RunSteps DEF RunCovered
    <3> QED
      BY <1>5, <2>1, <3>1 DEF GiveUp
  <2>2. CASE Stop(b)
    <3>1. PICK q : q = Off
      OBVIOUS
    <3>2. RunCovered(q)'
      BY <3>1 DEF Off, RunCovered
    <3> QED
      BY <1>5, <2>2, <3>1, <3>2 DEF Stop
  <2> QED
    BY <1>11, <2>1, <2>2
<1>12. ASSUME NEW t \in tasks, Exchange(t) PROVE RunsCover'
  <2>1. PICK ok \in BOOLEAN : Finish(t, ok) /\ (ok => docs' = docs \cup Effect(t))
    BY <1>12 DEF Exchange
  <2>2. CASE t.owner \in Runners /\ run' # run
    <3>1. TaskOfRun(t)
      BY <2>2 DEF TasksOwned
    <3>2. PICK r \in RunType : r = run[t.owner] /\ r.pc = "wait" /\ RunCovered(r)
      BY <1>2, <2>2, <3>1 DEF TaskOfRun
    <3>3. CASE ~ok
      <4>1. run' = [run EXCEPT ![t.owner] = Failed(r)]
        BY <2>1, <2>2, <3>2, <3>3 DEF Finish
      <4>2. PICK q : q = Failed(r) /\ RunCovered(q)'
        BY <3>2, RunSteps DEF RunCovered
      <4> QED
        BY <1>5, <2>2, <4>1, <4>2
    <3>4. CASE ok
      <4>1. run' = [run EXCEPT ![t.owner] = Replayed(r)] /\ Tail(t.left) = <<>>
        BY <2>1, <2>2, <3>2, <3>4 DEF Finish
      <4>2. PICK q : q = Replayed(r)
        OBVIOUS
      <4>3. q.opts = r.opts /\ q.pos = r.pos + 1 /\ q.failed = r.failed /\ r.pos \in Nat
        <5>1. r.pos \in Nat
          BY DEF RunType
        <5> QED
          BY <4>2, <5>1, RunSteps
      <4>4. Has(t.event, Head(t.left))'
        <5>1. DocOf(t) \in docs' /\ DocOf(t).event = t.event /\ DocOf(t).step = Head(t.left)
          BY <2>1, <3>4 DEF Effect, DocOf
        <5> QED
          BY <5>1 DEF Has
      <4>5. \A s \in ToSet(t.left) : s = Head(t.left)
        <5>1. ToSet(Tail(t.left)) = {}
          BY <4>1 DEF ToSet
        <5> QED
          BY <5>1, ToSetSplit DEF IngestType, Task
      <4>6. PICK transport : transport = r.opts.transport
        OBVIOUS
      <4>7. \A s \in ToSet(ReplaySteps(t.event, transport)) : Has(t.event, s)'
        BY <1>1, <3>1, <3>2, <4>4, <4>5, <4>6, StepsKept DEF TaskOfRun
      <4>8. Complete(t.event, transport)'
        BY <1>1, <4>7, StepsKept DEF Complete
      <4>9. r.pos + 1 \in 1 .. Len(corpus) /\ corpus[r.pos + 1] = t.event /\ t.event # Torn
        BY <1>1, <3>1, <3>2, <4>3 DEF TaskOfRun, Kept
      <4>10. r.pos + 1 <= Len(corpus') /\ corpus'[r.pos + 1] = t.event
        BY <1>1, <4>9 DEF Kept
      <4>11. ASSUME Covered(r.pos, ModeOf(r.opts)) PROVE Covered(r.pos + 1, ModeOf(r.opts))'
        <5>1. Covered(r.pos, ModeOf(r.opts))'
          BY <1>1, <4>11
        <5>2. PICK n : n = r.pos + 1
          OBVIOUS
        <5>3. Complete(corpus[n], transport)'
          BY <4>8, <4>10, <5>2 DEF Complete
        <5>4. ModeOf(r.opts).transport = transport
          BY <4>6 DEF ModeOf
        <5> QED
          BY <4>3, <4>9, <4>10, <5>1, <5>2, <5>3, <5>4 DEF Covered, Readable
      <4>12. RunCovered(q)'
        <5>1. PICK o, n : o = r.opts /\ n = r.pos + 1
          OBVIOUS
        <5>2. ~r.failed /\ ~r.opts.dry => Covered(n, ModeOf(o))'
          BY <3>2, <4>11, <5>1 DEF RunCovered
        <5> QED
          BY <4>3, <5>1, <5>2 DEF RunCovered
      <4> QED
        BY <1>5, <2>2, <4>1, <4>2, <4>12
    <3> QED
      BY <3>3, <3>4
  <2> QED
    BY <1>6, <2>1, <2>2 DEF Finish
<1>13. CASE Kill
  <2>1. ASSUME NEW b \in Runners PROVE \E q : run'[b] = q /\ RunCovered(q)'
    <3>1. CASE run[b].pc = "wait"
      <4>1. PICK q : q = Failed(run[b]) /\ RunCovered(q)'
        BY <1>2, RunSteps DEF RunCovered
      <4> QED
        BY <1>13, <3>1, <4>1 DEF Kill
    <3>2. CASE run[b].pc # "wait"
      BY <1>2, <1>3, <1>13, <3>2 DEF Kill
    <3> QED
      BY <3>1, <3>2
  <2> QED
    BY <1>4, <2>1
<1>14. ASSUME NEW e \in Events, BeginRow(e) PROVE RunsCover'
  BY <1>6, <1>14 DEF BeginRow
<1>15. CASE Start \/ EndRow \/ BeginStop \/ ClosePlane \/ EndStop \/ UNCHANGED vars
  BY <1>6, <1>15 DEF Start, EndRow, BeginStop, ClosePlane, EndStop, vars
<1> QED
  BY <1>8, <1>9, <1>10, <1>11, <1>12, <1>13, <1>14, <1>15 DEF Next, Serve

LEMMA FilesStep ==
  IngestType /\ RowBegun /\ RunsHonest /\ RunsCover /\ TmpCovers /\ CheckpointCovers /\ [Next]_vars
    => TmpCovers' /\ CheckpointCovers'
<1> SUFFICES ASSUME IngestType, RowBegun, RunsHonest, RunsCover, TmpCovers, CheckpointCovers, [Next]_vars
             PROVE  TmpCovers' /\ CheckpointCovers'
  OBVIOUS
<1>1. \A n, mode : Covered(n, mode) => Covered(n, mode)'
  BY RowStep, CoveredKept
<1>2. ASSUME NEW f, f \notin {None, Torn} => Covered(f.line, f.mode)
      PROVE  (file' = f => CheckpointCovers') /\ (tmp' = f => TmpCovers')
  <2>1. f \notin {None, Torn} => Covered(f.line, f.mode)'
    BY <1>1, <1>2
  <2> QED
    BY <2>1 DEF CheckpointCovers, TmpCovers
<1>3. CASE UNCHANGED fileVars
  <2>1. PICK f, g : f = file /\ g = tmp
    OBVIOUS
  <2> QED
    BY <1>2, <1>3, <2>1 DEF fileVars, CheckpointCovers, TmpCovers
<1>4. ASSUME NEW b \in Runners, WriteCheckpoint(b) PROVE TmpCovers' /\ CheckpointCovers'
  <2>1. PICK f, g, r : f = file /\ g = tmp /\ r = run[b]
    OBVIOUS
  <2>2. /\ f \notin {None, Torn} => Covered(f.line, f.mode)
        /\ g \notin {None, Torn} => Covered(g.line, g.mode)
    BY <2>1 DEF CheckpointCovers, TmpCovers
  <2>3. CASE r.pc = "truncate"
    BY <1>2, <1>4, <2>1, <2>2, <2>3 DEF WriteCheckpoint
  <2>4. CASE r.pc = "write"
    <3>1. PICK h : h = [line |-> r.pos, mode |-> ModeOf(r.opts)]
      OBVIOUS
    <3>2. Covered(h.line, h.mode)
      BY <2>1, <2>4, <3>1 DEF RunsHonest, RunHonest, RunsCover, RunCovered
    <3>3. tmp' = h /\ file' = f
      BY <1>4, <2>1, <2>4, <3>1 DEF WriteCheckpoint
    <3> QED
      BY <1>2, <2>2, <3>2, <3>3
  <2>5. CASE r.pc = "replace"
    <3>1. PICK none : none = None
      OBVIOUS
    <3>2. (file' = g /\ tmp' = none) \/ (file' = f /\ tmp' = g)
      BY <1>4, <2>1, <2>5, <3>1 DEF WriteCheckpoint, fileVars
    <3> QED
      BY <1>2, <2>2, <3>1, <3>2
  <2> QED
    BY <1>4, <2>1, <2>3, <2>4, <2>5 DEF WriteCheckpoint
<1>5. ASSUME NEW b \in Runners, (\E o \in Options : Begin(b, o)) \/ NextLine(b) \/ GiveUp(b) \/ Stop(b)
      PROVE  UNCHANGED fileVars
  BY <1>5 DEF Begin, NextLine, GiveUp, Stop
<1>6. CASE (\E e \in Events : BeginRow(e)) \/ EndRow \/ Serve
  BY <1>3, <1>6 DEF BeginRow, EndRow, Serve, Exchange
<1>7. CASE Start \/ BeginStop \/ ClosePlane \/ EndStop \/ Kill \/ UNCHANGED vars
  BY <1>3, <1>7 DEF Start, BeginStop, ClosePlane, EndStop, Kill, vars
<1> QED
  BY <1>3, <1>4, <1>5, <1>6, <1>7 DEF Next

LEMMA CoverInitial == Init => CoverInv
<1> SUFFICES ASSUME Init PROVE CoverInv
  OBVIOUS
<1>1. \A b \in Runners : run[b] = Off
  BY DEF Init
<1>2. IngestType
  <2>1. Off \in RunType /\ Off.pc = "off"
    BY DEF RunType, Off
  <2>2. run \in [Runners -> RunType] /\ \A b \in Runners : run[b].pc = "off"
    BY <2>1 DEF Init
  <2>3. corpus \in Seq(Events \cup {Torn})
    BY DEF Init
  <2> QED
    BY <2>2, <2>3 DEF Init, IngestType, Files
<1>3. RowBegun /\ TasksOwned
  BY DEF Init, RowBegun, TasksOwned
<1>4. RunsHonest /\ RunsCover
  BY <1>1 DEF RunsHonest, RunHonest, RunsCover, RunCovered, Off
<1>5. TmpCovers /\ CheckpointCovers
  BY DEF Init, TmpCovers, CheckpointCovers
<1> QED
  BY <1>2, <1>3, <1>4, <1>5 DEF CoverInv

LEMMA CoverStep == CoverInv /\ [Next]_vars => CoverInv'
BY RowStep, TypeStep, OwnedStep, HonestStep, RunsCoverStep, FilesStep DEF CoverInv

\* CheckpointCovers, for any corpus, number of backfills and crashes: a checkpoint of the
\* backfill names a prefix of the corpus of which the knowledge base misses nothing.
THEOREM CheckpointNamesCoveredPrefix == Spec => []CheckpointCovers
<1>1. CoverInv => CheckpointCovers
  BY DEF CoverInv
<1> QED
  BY CoverInitial, CoverStep, <1>1, PTL DEF Spec

\* SuccessCovers, likewise: a backfill that reports success has left nothing out.
THEOREM SuccessLeavesNothingOut == Spec => []SuccessCovers
<1>1. CoverInv => SuccessCovers
  BY DEF CoverInv, RunsHonest, RunHonest, RunsCover, RunCovered, SuccessCovers
<1> QED
  BY CoverInitial, CoverStep, <1>1, PTL DEF Spec

-----------------------------------------------------------------------------
(* The knowledge base rests on the corpus.                                 *)

\* What can be read has been recorded; what is asked about an event is asked after its
\* request has been stored.
RowsRecorded  == \A i \in 1 .. Len(corpus) : corpus[i] # Torn => corpus[i] \in recorded
TasksGrounded ==
  \A t \in tasks : t.event \in recorded /\ (Head(t.left) = "observe" \/ Has(t.event, "observe"))
GroundInv == RowsRecorded /\ TasksGrounded /\ DocumentsGrounded

LEMMA GroundStep == IngestType /\ RowBegun /\ GroundInv /\ [Next]_vars => GroundInv'
<1> SUFFICES ASSUME IngestType, RowBegun, GroundInv, [Next]_vars PROVE GroundInv'
  OBVIOUS
<1>1. Kept /\ Len(corpus) \in Nat
  BY RowStep DEF Kept
<1>2. RowsRecorded /\ TasksGrounded /\ DocumentsGrounded
  BY DEF GroundInv
<1>3. \A e, step : Has(e, step) => Has(e, step)'
  BY <1>1, StepsKept
\* Tasks that stay, or go on for another owner; no document is added.
<1>4. ASSUME UNCHANGED <<rowVars, docs>>,
             \A t \in tasks' : \E u \in tasks : t.event = u.event /\ t.left = u.left
      PROVE  GroundInv'
  <2>1. RowsRecorded' /\ DocumentsGrounded'
    BY <1>2, <1>4 DEF rowVars, RowsRecorded, DocumentsGrounded, Has
  <2>2. TasksGrounded'
    BY <1>2, <1>3, <1>4 DEF rowVars, TasksGrounded
  <2> QED
    BY <2>1, <2>2 DEF GroundInv
<1>5. ASSUME NEW b \in Runners, NextLine(b) PROVE GroundInv'
  <2>1. CASE tasks' = tasks
    BY <1>4, <1>5, <2>1 DEF NextLine
  <2>2. CASE \E n, e, transport :
               /\ n = run[b].pos + 1 /\ e = corpus[n] /\ n <= Len(corpus) /\ Readable(n)
               /\ tasks' = tasks \cup {[owner |-> b, event |-> e, left |-> ReplaySteps(e, transport)]}
    <3>1. PICK n, e, transport :
               /\ n = run[b].pos + 1 /\ e = corpus[n] /\ n <= Len(corpus) /\ Readable(n)
               /\ tasks' = tasks \cup {[owner |-> b, event |-> e, left |-> ReplaySteps(e, transport)]}
      BY <2>2
    <3>2. n \in 1 .. Len(corpus)
      BY <3>1 DEF IngestType, RunType
    <3>3. e \in recorded
      BY <1>2, <3>1, <3>2 DEF RowsRecorded, Readable
    <3>4. Head(ReplaySteps(e, transport)) = "observe"
      BY StepsType
    <3>5. UNCHANGED <<rowVars, docs>>
      BY <1>5 DEF NextLine
    <3>6. RowsRecorded' /\ DocumentsGrounded'
      BY <1>2, <3>5 DEF rowVars, RowsRecorded, DocumentsGrounded, Has
    <3>7. TasksGrounded'
      BY <1>2, <1>3, <3>1, <3>3, <3>4, <3>5 DEF rowVars, TasksGrounded
    <3> QED
      BY <3>6, <3>7 DEF GroundInv
  <2> QED
    BY <1>5, <2>1, <2>2 DEF NextLine
<1>6. ASSUME NEW b \in Runners, GiveUp(b) \/ Stop(b) PROVE GroundInv'
  <2>1. \A t \in tasks' : \E u \in tasks : t.event = u.event /\ t.left = u.left
    <3>1. tasks' = Abandoned(b)
      BY <1>6 DEF GiveUp, Stop
    <3>2. ASSUME NEW t \in tasks', NEW u \in tasks,
                 t = IF u.owner = b THEN [u EXCEPT !.owner = Gone] ELSE u
          PROVE  t.event = u.event /\ t.left = u.left
      BY <3>2 DEF IngestType, Task
    <3> QED
      BY <3>1, <3>2 DEF Abandoned
  <2> QED
    BY <1>4, <1>6, <2>1 DEF GiveUp, Stop
<1>7. ASSUME NEW e \in Events, BeginRow(e) PROVE GroundInv'
  <2>1. RowsRecorded'
    BY <1>1, <1>2, <1>7 DEF BeginRow, RowsRecorded, IngestType
  <2>2. TasksGrounded' /\ DocumentsGrounded'
    BY <1>2, <1>3, <1>7 DEF BeginRow, TasksGrounded, DocumentsGrounded
  <2> QED
    BY <2>1, <2>2 DEF GroundInv
<1>8. CASE EndRow
  <2>1. RowsRecorded'
    <3>1. CASE cut
      BY <1>2, <1>8, <3>1 DEF EndRow, RowsRecorded
    <3>2. CASE ~cut
      <4>1. Len(corpus') = Len(corpus)
            /\ \A i \in 1 .. Len(corpus) : corpus'[i] = corpus[i] \/ corpus'[i] = writing
        BY <1>8, <3>2 DEF EndRow, IngestType, RowBegun
      <4>2. writing \in recorded' /\ recorded \subseteq recorded'
        BY <1>8 DEF EndRow
      <4>3. ASSUME NEW i \in 1 .. Len(corpus), corpus'[i] # Torn PROVE corpus'[i] \in recorded'
        <5>1. CASE corpus'[i] = writing
          BY <4>2, <5>1
        <5>2. CASE corpus'[i] = corpus[i]
          BY <1>2, <4>2, <4>3, <5>2 DEF RowsRecorded
        <5> QED
          BY <4>1, <5>1, <5>2
      <4> QED
        BY <4>1, <4>3 DEF RowsRecorded
    <3> QED
      BY <3>1, <3>2
  <2>2. Head(LiveSteps(writing)) = "observe"
    BY StepsType
  <2>3. TasksGrounded' /\ DocumentsGrounded'
    BY <1>2, <1>3, <1>8, <2>2 DEF EndRow, TasksGrounded, DocumentsGrounded
  <2> QED
    BY <2>1, <2>3 DEF GroundInv
<1>9. ASSUME NEW t \in tasks, Exchange(t) PROVE GroundInv'
  <2>1. PICK ok \in BOOLEAN : Finish(t, ok) /\ (ok => docs' = docs \cup Effect(t))
    BY <1>9 DEF Exchange
  <2>2. UNCHANGED rowVars /\ docs' \subseteq docs \cup Effect(t)
    BY <1>9 DEF Exchange
  <2>3. t.event \in recorded /\ (Head(t.left) = "observe" \/ Has(t.event, "observe"))
    BY <1>2 DEF TasksGrounded
  <2>4. DocOf(t).event = t.event /\ DocOf(t).step = Head(t.left)
    BY DEF DocOf
  <2>5. ASSUME NEW d \in docs' PROVE d.event \in recorded /\ Has(d.event, "observe")'
    <3>1. CASE d \in docs
      BY <1>2, <1>3, <3>1 DEF DocumentsGrounded
    <3>2. CASE d \in Effect(t)
      <4>1. d.event = t.event /\ d.step \in {Head(t.left), "observe"}
        BY <2>4, <3>2 DEF Effect
      <4>2. CASE Has(t.event, "observe")
        BY <1>3, <2>3, <4>1, <4>2
      <4>3. CASE Head(t.left) = "observe"
        BY <2>3, <2>5, <4>1, <4>3 DEF Has
      <4> QED
        BY <2>3, <4>2, <4>3
    <3> QED
      BY <2>2, <2>5, <3>1, <3>2
  <2>6. ok => Has(t.event, "observe")'
    <3>1. ASSUME ok PROVE DocOf(t) \in docs'
      BY <2>1, <3>1 DEF Effect
    <3> QED
      BY <2>4, <2>5, <3>1
  <2>7. TasksGrounded'
    <3> DEFINE q == [t EXCEPT !.left = Tail(t.left)]
    <3>1. t \in Task /\ q.event = t.event
      BY DEF IngestType, Task
    <3> HIDE DEF q
    <3>2. CASE tasks' = tasks \ {t}
      BY <1>2, <1>3, <2>2, <3>2 DEF TasksGrounded, rowVars
    <3>3. CASE ok /\ tasks' = (tasks \ {t}) \cup {q}
      BY <1>2, <1>3, <2>2, <2>3, <2>6, <3>1, <3>3 DEF TasksGrounded, rowVars
    <3> QED
      BY <2>1, <3>2, <3>3 DEF Finish, q
  <2>8. RowsRecorded' /\ DocumentsGrounded'
    BY <1>2, <2>2, <2>5 DEF RowsRecorded, DocumentsGrounded, rowVars
  <2> QED
    BY <2>7, <2>8 DEF GroundInv
<1>10. CASE Kill
  <2>1. UNCHANGED <<corpus, recorded, docs>> /\ tasks' = {}
    BY <1>10 DEF Kill
  <2> QED
    BY <1>2, <2>1 DEF GroundInv, RowsRecorded, TasksGrounded, DocumentsGrounded, Has
<1>11. ASSUME NEW b \in Runners, (\E o \in Options : Begin(b, o)) \/ WriteCheckpoint(b)
       PROVE  GroundInv'
  BY <1>4, <1>11 DEF Begin, WriteCheckpoint
<1>12. CASE Start \/ BeginStop \/ ClosePlane \/ EndStop \/ UNCHANGED vars
  BY <1>4, <1>12 DEF Start, BeginStop, ClosePlane, EndStop, vars
<1> QED
  BY <1>5, <1>6, <1>7, <1>8, <1>9, <1>10, <1>11, <1>12 DEF Next, Serve

\* DocumentsGrounded: whatever is served, refused, lost or killed, a document is of an event
\* whose record() has returned, and its request is stored.
LEMMA KnowledgeRestsOnCorpus == Spec => []DocumentsGrounded
<1>1. Init => GroundInv
  BY DEF Init, GroundInv, RowsRecorded, TasksGrounded, DocumentsGrounded
<1>2. CoverInv /\ GroundInv /\ [Next]_vars => GroundInv'
  BY GroundStep DEF CoverInv
<1>3. GroundInv => DocumentsGrounded
  BY DEF GroundInv
<1> QED
  BY CoverInitial, CoverStep, <1>1, <1>2, <1>3, PTL DEF Spec

-----------------------------------------------------------------------------
(* What the two extractions find.                                          *)

LEMMA LeastNumber ==
  ASSUME NEW S \in SUBSET Nat, S # {} PROVE \E i \in S : \A j \in S : i <= j
<1> DEFINE R == OpToRel(<, Nat)
<1>1. IsWellFoundedOn(R, Nat)
  BY NatLessThanWellFounded
<1>2. \E i \in S : \A j \in S : ~(<<j, i>> \in R)
  <2> HIDE DEF R
  <2> QED
    BY <1>1, WFMin
<1>3. PICK i \in S : \A j \in S : ~(<<j, i>> \in R)
  BY <1>2
<1>4. ASSUME NEW j \in S PROVE i <= j
  <2>1. i \in Nat /\ j \in Nat /\ ~(<<j, i>> \in R)
    BY <1>3
  <2>2. ASSUME j < i PROVE <<j, i>> \in R
    BY <2>1, <2>2 DEF OpToRel
  <2> HIDE DEF R
  <2> QED
    BY <2>1, <2>2
<1> QED
  BY <1>4

LEMMA FirstFound ==
  ASSUME NEW S, NEW lines \in Seq(S), NEW kinds
  PROVE  /\ Places(lines, kinds) = {} => FirstLine(lines, kinds) = None
         /\ Places(lines, kinds) # {} =>
              \E i \in Places(lines, kinds) :
                FirstLine(lines, kinds) = lines[i] /\ \A j \in Places(lines, kinds) : i <= j
<1> DEFINE found == Places(lines, kinds)
           i == CHOOSE n \in found : \A j \in found : n <= j
<1>1. found \subseteq Nat
  BY DEF Places
<1>2. found # {} => i \in found /\ \A j \in found : i <= j
  BY <1>1, LeastNumber
<1>3. found # {} => FirstLine(lines, kinds) = lines[i]
  BY DEF FirstLine
<1> QED
  BY <1>2, <1>3 DEF FirstLine

\* Where the proxy finds a user message, the replay finds the same one.
LEMMA MessagesAgree ==
  ASSUME shape \in Captures, NEW e \in Events
  PROVE  /\ ReplayMessage(e) \in Messages \cup {None}
         /\ LiveMessage(e) \in Messages \cup {None}
         /\ LiveMessage(e) # None => LiveMessage(e) = ReplayMessage(e)
<1> DEFINE lines == shape[e].lines
           wide  == Messages \cup {"empty"}
<1>1. lines \in Seq(Messages \cup {"other", "empty"})
  <2>1. shape[e] \in ShapeType
    BY ExpertIngestAssumption DEF ExpertIngestAssumption
  <2> QED
    BY <2>1 DEF ShapeType, Lines
<1> HIDE DEF lines
<1>2. \A i \in Places(lines, Messages) : lines[i] \in Messages /\ i \in Places(lines, wide) /\ i \in Nat
  BY <1>1 DEF Places
<1>3. \A i \in Places(lines, wide) :
        i \in Nat /\ (lines[i] = "empty" \/ (lines[i] \in Messages /\ i \in Places(lines, Messages)))
  BY <1>1 DEF Places
<1>4. ReplayMessage(e) = FirstLine(lines, Messages)
  BY DEF ReplayMessage, lines
<1>5. LiveMessage(e) # None => LiveMessage(e) = FirstLine(lines, wide) /\ FirstLine(lines, wide) # "empty"
  BY DEF LiveMessage, lines
<1>6. ReplayMessage(e) \in Messages \cup {None}
  BY <1>1, <1>2, <1>4, FirstFound
<1>7. ASSUME LiveMessage(e) # None
      PROVE  LiveMessage(e) = ReplayMessage(e)
  <2>1. Places(lines, wide) # {}
    BY <1>1, <1>5, <1>7, FirstFound
  <2>2. PICK i \in Places(lines, wide) :
          FirstLine(lines, wide) = lines[i] /\ \A j \in Places(lines, wide) : i <= j
    BY <1>1, <2>1, FirstFound
  <2>3. i \in Places(lines, Messages)
    BY <1>3, <1>5, <1>7, <2>2
  <2>4. PICK k \in Places(lines, Messages) :
          FirstLine(lines, Messages) = lines[k] /\ \A j \in Places(lines, Messages) : k <= j
    BY <1>1, <2>3, FirstFound
  <2>5. i \in Nat /\ k \in Nat /\ i <= k /\ k <= i
    BY <1>2, <2>2, <2>3, <2>4
  <2>6. i = k
    BY <2>5
  <2> QED
    BY <1>4, <1>5, <1>7, <2>2, <2>4, <2>6
<1> QED
  BY <1>6, <1>7

-----------------------------------------------------------------------------
(* Types, and what the store is asked.                                     *)

\* The rest of TypeOK.
StoreType ==
  /\ shape \in Captures /\ recorded \subseteq Events
  /\ proxy \in {"down", "up", "stopping", "closed"} /\ plane \in BOOLEAN
  /\ docs \subseteq Doc
  /\ starts \in 0 .. MaxStarts /\ runs \in 0 .. MaxRuns

LEMMA DocType ==
  ASSUME shape \in Captures, IngestType, NEW t \in tasks
  PROVE  DocOf(t) \in Doc /\ Effect(t) \subseteq Doc
<1>1. t.event \in Events /\ t.left \in Seq(Steps) /\ t.left # <<>>
  BY DEF IngestType, Task
<1>2. Head(t.left) \in Steps
  BY <1>1, ToSetSplit
<1>3. LiveMessage(t.event) \in Messages \cup {None} /\ ReplayMessage(t.event) \in Messages \cup {None}
  BY <1>1, MessagesAgree
<1>4. DocOf(t) \in Doc
  BY <1>1, <1>2, <1>3 DEF DocOf, Doc
<1>5. [event |-> t.event, step |-> "observe", says |-> None] \in Doc
  BY <1>1 DEF Doc, Steps
<1> QED
  BY <1>4, <1>5 DEF Effect

LEMMA StoreTypeStep == IngestType /\ StoreType /\ [Next]_vars => StoreType'
<1> SUFFICES ASSUME IngestType, StoreType, [Next]_vars PROVE StoreType'
  OBVIOUS
<1> USE DEF StoreType
<1>1. ASSUME NEW b \in Runners, NEW o \in Options, Begin(b, o) PROVE StoreType'
  BY <1>1 DEF Begin, ExpertIngestAssumption, rowVars, proxyVars
<1>2. ASSUME NEW b \in Runners, NextLine(b) \/ WriteCheckpoint(b) \/ GiveUp(b) \/ Stop(b) PROVE StoreType'
  <2>1. UNCHANGED <<rowVars, proxyVars, docs, runs>>
    BY <1>2 DEF NextLine, WriteCheckpoint, GiveUp, Stop
  <2> QED
    BY <2>1 DEF rowVars, proxyVars
<1>3. CASE Start
  BY <1>3 DEF Start, ExpertIngestAssumption, rowVars
<1>4. ASSUME NEW e \in Events, BeginRow(e) PROVE StoreType'
  BY <1>4 DEF BeginRow, proxyVars
<1>5. CASE EndRow
  BY <1>5 DEF EndRow, proxyVars, IngestType
<1>6. ASSUME NEW t \in tasks, Exchange(t) PROVE StoreType'
  <2>1. docs' \subseteq docs \cup Effect(t) /\ plane' \in BOOLEAN /\ UNCHANGED <<rowVars, proxy, starts, runs>>
    BY <1>6 DEF Exchange
  <2>2. Effect(t) \subseteq Doc
    BY DocType
  <2> QED
    BY <2>1, <2>2 DEF rowVars
<1>7. CASE BeginStop \/ ClosePlane \/ EndStop
  BY <1>7 DEF BeginStop, ClosePlane, EndStop, rowVars
<1>8. CASE Kill
  BY <1>8 DEF Kill
<1>9. CASE UNCHANGED vars
  BY <1>9 DEF vars, rowVars, proxyVars
<1> QED
  BY <1>1, <1>2, <1>3, <1>4, <1>5, <1>6, <1>7, <1>8, <1>9 DEF Next, Serve

\* StoreSafe: the state keeps its types, and the knowledge base holds only documents of events
\* that have been recorded and of requests that it holds.
THEOREM StoreRestsOnCorpus == Spec => []StoreSafe
<1>1. Init => StoreType
  <2>1. 0 \in 0 .. MaxStarts /\ 0 \in 0 .. MaxRuns
    BY DEF ExpertIngestAssumption
  <2> QED
    BY <2>1 DEF Init, StoreType
<1>2. Init => GroundInv
  BY DEF Init, GroundInv, RowsRecorded, TasksGrounded, DocumentsGrounded
<1>3. CoverInv /\ StoreType /\ GroundInv /\ [Next]_vars => StoreType' /\ GroundInv'
  BY StoreTypeStep, GroundStep DEF CoverInv
<1>4. CoverInv /\ StoreType /\ GroundInv => StoreSafe
  <2> SUFFICES ASSUME IngestType, StoreType PROVE TypeOK
    BY DEF CoverInv, GroundInv, StoreSafe
  <2>1. ASSUME NEW b \in Runners
        PROVE  /\ run[b].pc \in {"off", "read", "wait", "truncate", "write", "replace",
                                 "passed", "failed"}
               /\ run[b].opts \in Options \cup {None}
               /\ run[b].pos \in Nat /\ run[b].selected \in Nat /\ run[b].failed \in BOOLEAN
    BY DEF IngestType, RunType
  <2> QED
    BY <2>1 DEF TypeOK, IngestType, StoreType
<1> QED
  BY CoverInitial, CoverStep, <1>1, <1>2, <1>3, <1>4, PTL DEF Spec

-----------------------------------------------------------------------------
(* The store never refuses.                                                *)

LEMMA ConcatElements ==
  ASSUME NEW S, NEW p \in Seq(S), NEW q \in Seq(S)
  PROVE  ToSet(p \o q) \subseteq ToSet(p) \cup ToSet(q)
<1> SUFFICES ASSUME NEW i \in 1 .. Len(p \o q) PROVE (p \o q)[i] \in ToSet(p) \cup ToSet(q)
  <2>1. DOMAIN (p \o q) = 1 .. Len(p \o q)
    BY ConcatProperties
  <2> QED
    BY <2>1 DEF ToSet
<1>1. /\ Len(p \o q) = Len(p) + Len(q) /\ Len(p) \in Nat /\ Len(q) \in Nat
      /\ (p \o q)[i] = IF i <= Len(p) THEN p[i] ELSE q[i - Len(p)]
  BY ConcatProperties
<1>2. CASE i <= Len(p)
  <2>1. i \in DOMAIN p /\ (p \o q)[i] = p[i]
    BY <1>1, <1>2
  <2> QED
    BY <2>1 DEF ToSet
<1>3. CASE ~(i <= Len(p))
  <2>1. i - Len(p) \in DOMAIN q /\ (p \o q)[i] = q[i - Len(p)]
    BY <1>1, <1>3
  <2> QED
    BY <2>1 DEF ToSet
<1> QED
  BY <1>2, <1>3

\* The proxy asks for a classification only if it has found a message.
LEMMA LiveClassify ==
  ASSUME NEW e, "classify" \in ToSet(LiveSteps(e)) PROVE LiveMessage(e) # None
<1> SUFFICES ASSUME LiveMessage(e) = None PROVE FALSE
  OBVIOUS
<1> DEFINE A == If(shape[e].usage, "usage")
           B == If(shape[e].mined = "some", "mined")
           T == {"observe", "usage", "mined"}
<1>1. A \in Seq(T) /\ B \in Seq(T) /\ <<"observe">> \in Seq(T) /\ <<>> \in Seq(T)
  <2> HIDE DEF T
  <2>1. \A condition : \A step \in T : If(condition, step) \in Seq(T)
    BY DEF If
  <2>2. {"observe", "usage", "mined"} \subseteq T
    BY DEF T
  <2> QED
    BY <2>1, <2>2
<1>2. LiveSteps(e) = <<"observe">> \o A \o B \o <<>>
  BY DEF LiveSteps, If
<1> HIDE DEF A, B
<1>3. LiveSteps(e) \in Seq(T)
  BY <1>1, <1>2, ConcatProperties
<1>4. ToSet(LiveSteps(e)) \subseteq T
  BY <1>3 DEF ToSet
<1> QED
  BY <1>4

\* Documents say what the replay finds; the proxy classifies only what it has found.
Said(e, step) == IF step = "classify" THEN ReplayMessage(e) ELSE None
SaidInv ==
  /\ \A d \in docs : d.says = Said(d.event, d.step)
  /\ \A t \in tasks : t.owner = Live /\ "classify" \in ToSet(t.left) => LiveMessage(t.event) # None

LEMMA WhatIsAsked ==
  ASSUME IngestType, StoreType, SaidInv, NEW t \in tasks
  PROVE  /\ DocOf(t).event = t.event /\ DocOf(t).step = Head(t.left)
         /\ DocOf(t).says = Said(t.event, Head(t.left))
<1>1. t.event \in Events /\ t.left \in Seq(Steps) /\ t.left # <<>>
  BY DEF IngestType, Task
<1>2. Head(t.left) \in ToSet(t.left)
  BY <1>1 DEF ToSet
<1>3. t.owner = Live /\ Head(t.left) = "classify" => LiveMessage(t.event) = ReplayMessage(t.event)
  BY <1>1, <1>2, MessagesAgree DEF SaidInv, StoreType
<1> QED
  BY <1>3 DEF DocOf, Said

LEMMA SaidStep == IngestType /\ StoreType /\ SaidInv /\ [Next]_vars => SaidInv'
<1> SUFFICES ASSUME IngestType, StoreType, SaidInv, [Next]_vars PROVE SaidInv'
  OBVIOUS
<1>1. \A d \in docs : d.says = Said(d.event, d.step)
  BY DEF SaidInv
<1>2. \A t \in tasks : t.owner = Live /\ "classify" \in ToSet(t.left) => LiveMessage(t.event) # None
  BY DEF SaidInv
<1>3. shape' = shape
  BY DEF Next, Begin, NextLine, WriteCheckpoint, GiveUp, Stop, Start, BeginRow, EndRow, Serve, Exchange,
         BeginStop, ClosePlane, EndStop, Kill, vars, rowVars
<1>4. \A e, step : Said(e, step)' = Said(e, step) /\ LiveMessage(e)' = LiveMessage(e)
  BY <1>3 DEF Said, ReplayMessage, LiveMessage
\* Tasks that stay, or are no longer waited for; no document is added.
<1>5. ASSUME UNCHANGED docs,
             \A t \in tasks' : t.owner = Live =>
               \E u \in tasks : u.owner = Live /\ t.event = u.event /\ t.left = u.left
      PROVE  SaidInv'
  BY <1>1, <1>2, <1>4, <1>5 DEF SaidInv
<1>6. ASSUME NEW b \in Runners, NextLine(b) PROVE SaidInv'
  <2>1. UNCHANGED docs
    BY <1>6 DEF NextLine
  <2>2. \A t \in tasks' : t \in tasks \/ t.owner = b
    BY <1>6 DEF NextLine
  <2>3. b # Live
    BY DEF ExpertIngestAssumption
  <2> QED
    BY <1>5, <2>1, <2>2, <2>3
<1>7. ASSUME NEW b \in Runners, GiveUp(b) \/ Stop(b) PROVE SaidInv'
  <2>1. tasks' = Abandoned(b) /\ UNCHANGED docs
    BY <1>7 DEF GiveUp, Stop
  <2>2. ASSUME NEW t \in tasks', t.owner = Live
        PROVE  t \in tasks
    <3>1. PICK u \in tasks : t = IF u.owner = b THEN [u EXCEPT !.owner = Gone] ELSE u
      BY <2>1 DEF Abandoned
    <3>2. CASE u.owner = b
      <4>1. t.owner = Gone
        BY <3>1, <3>2 DEF IngestType, Task
      <4> QED
        BY <2>2, <4>1 DEF ExpertIngestAssumption
    <3> QED
      BY <3>1, <3>2
  <2> QED
    BY <1>5, <2>1, <2>2
<1>8. CASE EndRow
  <2>1. "classify" \in ToSet(LiveSteps(writing)) => LiveMessage(writing) # None
    BY LiveClassify
  <2>2. /\ tasks' = tasks \cup {[owner |-> Live, event |-> writing, left |-> LiveSteps(writing)]}
        /\ UNCHANGED docs
    BY <1>8 DEF EndRow
  <2> QED
    BY <1>1, <1>2, <1>4, <2>1, <2>2 DEF SaidInv
<1>9. ASSUME NEW t \in tasks, Exchange(t) PROVE SaidInv'
  <2>1. PICK ok \in BOOLEAN : Finish(t, ok)
    BY <1>9 DEF Exchange
  <2>2. docs' \subseteq docs \cup Effect(t)
    BY <1>9 DEF Exchange
  <2>3. \A d \in Effect(t) : d.says = Said(d.event, d.step)
    BY WhatIsAsked DEF Effect, Said
  <2>4. \A d \in docs' : d.says = Said(d.event, d.step)'
    BY <1>1, <1>4, <2>2, <2>3
  <2> DEFINE q == [t EXCEPT !.left = Tail(t.left)]
  <2>5. /\ q.owner = t.owner /\ q.event = t.event /\ q.left = Tail(t.left)
        /\ t.left \in Seq(Steps) /\ t.left # <<>>
    BY DEF IngestType, Task
  <2>6. \A u \in tasks' : u \in tasks \/ u = q
    BY <2>1 DEF Finish
  <2>7. ToSet(Tail(t.left)) \subseteq ToSet(t.left)
    <3>1. /\ DOMAIN t.left = 1 .. Len(t.left) /\ DOMAIN Tail(t.left) = 1 .. Len(Tail(t.left))
          /\ Len(Tail(t.left)) = Len(t.left) - 1 /\ Len(t.left) \in Nat
          /\ \A j \in 1 .. Len(Tail(t.left)) : Tail(t.left)[j] = t.left[j + 1]
      BY <2>5, HeadTailProperties
    <3>2. \A j \in DOMAIN Tail(t.left) : j + 1 \in DOMAIN t.left /\ Tail(t.left)[j] = t.left[j + 1]
      BY <3>1
    <3> QED
      BY <3>2 DEF ToSet
  <2> HIDE DEF q
  <2>8. \A u \in tasks' : u.owner = Live /\ "classify" \in ToSet(u.left) => LiveMessage(u.event)' # None
    BY <1>2, <1>4, <2>5, <2>6, <2>7
  <2> QED
    BY <2>4, <2>8 DEF SaidInv
<1>10. CASE Kill
  <2>1. UNCHANGED docs /\ tasks' = {}
    BY <1>10 DEF Kill
  <2> QED
    BY <1>5, <2>1
<1>11. ASSUME NEW b \in Runners, (\E o \in Options : Begin(b, o)) \/ WriteCheckpoint(b)
       PROVE  SaidInv'
  BY <1>5, <1>11 DEF Begin, WriteCheckpoint
<1>12. ASSUME NEW e \in Events, BeginRow(e) PROVE SaidInv'
  BY <1>5, <1>12 DEF BeginRow
<1>13. CASE Start \/ BeginStop \/ ClosePlane \/ EndStop \/ UNCHANGED vars
  BY <1>5, <1>13 DEF Start, BeginStop, ClosePlane, EndStop, vars
<1> QED
  BY <1>6, <1>7, <1>8, <1>9, <1>10, <1>11, <1>12, <1>13 DEF Next, Serve

\* NeverRefused: however the proxy's ingest and any number of backfills interleave, fail or are
\* killed, no exchange they have left asks for what the store refuses.
THEOREM StoreNeverRefuses == Spec => []NeverRefused
<1>1. Init => StoreType /\ GroundInv /\ SaidInv
  <2>1. 0 \in 0 .. MaxStarts /\ 0 \in 0 .. MaxRuns
    BY DEF ExpertIngestAssumption
  <2>2. Init => StoreType
    BY <2>1 DEF Init, StoreType
  <2>3. Init => GroundInv
    BY DEF Init, GroundInv, RowsRecorded, TasksGrounded, DocumentsGrounded
  <2> QED
    BY <2>2, <2>3 DEF Init, SaidInv
<1>2. CoverInv /\ StoreType /\ GroundInv /\ SaidInv /\ [Next]_vars => StoreType' /\ GroundInv' /\ SaidInv'
  BY StoreTypeStep, GroundStep, SaidStep DEF CoverInv
<1>3. CoverInv /\ StoreType /\ GroundInv /\ SaidInv => NeverRefused
  <2> SUFFICES ASSUME IngestType, StoreType, GroundInv, SaidInv, NEW t \in tasks
               PROVE  Accepts(DocOf(t))
    BY DEF CoverInv, NeverRefused
  <2>1. /\ DocOf(t).event = t.event /\ DocOf(t).step = Head(t.left)
        /\ DocOf(t).says = Said(t.event, Head(t.left)) /\ DocOf(t) \in Doc
    BY WhatIsAsked, DocType DEF StoreType
  <2>2. ASSUME NEW o \in docs, o.event = DocOf(t).event, o.step = DocOf(t).step
        PROVE  o = DocOf(t)
    <3>1. o \in Doc /\ o.says = DocOf(t).says
      BY <2>1, <2>2 DEF StoreType, SaidInv
    <3> QED
      BY <2>1, <2>2, <3>1 DEF Doc
  <2>3. DocOf(t).step = "usage" => Has(t.event, "observe")
    BY <2>1 DEF GroundInv, TasksGrounded
  <2> QED
    BY <2>1, <2>2, <2>3 DEF Accepts
<1> QED
  BY CoverInitial, CoverStep, <1>1, <1>2, <1>3, PTL DEF Spec
=============================================================================
