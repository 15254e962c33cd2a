-------------------------- MODULE CorpusToolsProofs -------------------------
(***************************************************************************)
(* Proofs about the tools that work on the corpus while it is in use:      *)
(* HistoryImport, for any importers, texts and faults, and DatasetExport, for*)
(* any assertions, pages and changes meanwhile.  Names that begin with Export*)
(* belong to the second.                                                   *)
(***************************************************************************)
EXTENDS HistoryImport, DatasetExport, FiniteSetTheorems, SequenceTheorems, TLAPS

-----------------------------------------------------------------------------
(* Numbers in increasing order.                                            *)

LEMMA RankType ==
  ASSUME NEW S \in SUBSET Nat, IsFiniteSet(S), NEW n \in S
  PROVE  Rank(S, n) \in 1 .. Cardinality(S)
<1> DEFINE U == {m \in S : m <= n}
<1>1. IsFiniteSet(U) /\ Cardinality(U) <= Cardinality(S)
  BY FS_Subset
<1>2. n \in U
  OBVIOUS
<1>3. Cardinality(U) \in Nat /\ Cardinality(U) # 0 /\ Cardinality(S) \in Nat
  BY <1>1, <1>2, FS_EmptySet, FS_CardinalityType
<1> QED
  BY <1>1, <1>3 DEF Rank

LEMMA RankGrows ==
  ASSUME NEW S \in SUBSET Nat, IsFiniteSet(S), NEW m \in S, NEW n \in S, m < n
  PROVE  Rank(S, m) < Rank(S, n)
<1> DEFINE U == {x \in S : x <= m}
           V == {x \in S : x <= n}
<1>1. U \subseteq V
  <2>1. \A x \in S : x <= m => x <= n
    OBVIOUS
  <2> QED
    BY <2>1
<1>2. n \in V /\ n \notin U
  OBVIOUS
<1>3. IsFiniteSet(V) /\ IsFiniteSet(U)
  BY FS_Subset
<1>4. Cardinality(U) <= Cardinality(V) /\ (Cardinality(V) = Cardinality(U) => V = U)
  BY <1>1, <1>3, FS_Subset
<1>5. Cardinality(U) \in Nat /\ Cardinality(V) \in Nat
  BY <1>3, FS_CardinalityType
<1>6. Cardinality(U) < Cardinality(V)
  <2> HIDE DEF U, V
  <2> QED
    BY <1>2, <1>4, <1>5
<1> QED
  BY <1>6 DEF Rank

\* InOrder(S) lists the numbers of S, each once, in increasing order.
LEMMA InOrderLists ==
  ASSUME NEW S \in SUBSET Nat, IsFiniteSet(S)
  PROVE  /\ Cardinality(S) \in Nat
         /\ InOrder(S) \in [1 .. Cardinality(S) -> S]
         /\ \A k \in 1 .. Cardinality(S) : Rank(S, InOrder(S)[k]) = k
         /\ \A n \in S : InOrder(S)[Rank(S, n)] = n
<1> DEFINE rank == [n \in S |-> Rank(S, n)]
           N == Cardinality(S)
<1>0. N \in Nat
  BY FS_CardinalityType
<1>1. rank \in [S -> 1 .. N]
  BY RankType
<1>2. \A m, n \in S : Rank(S, m) = Rank(S, n) => m = n
  <2> SUFFICES ASSUME NEW m \in S, NEW n \in S, m # n PROVE Rank(S, m) # Rank(S, n)
    OBVIOUS
  <2>1. m \in Nat /\ n \in Nat /\ Rank(S, m) \in Nat /\ Rank(S, n) \in Nat
    BY RankType
  <2>2. CASE m < n
    BY <2>1, <2>2, RankGrows
  <2>3. CASE n < m
    BY <2>1, <2>3, RankGrows
  <2> QED
    BY <2>1, <2>2, <2>3
<1>3. rank \in Injection(S, 1 .. N)
  BY <1>1, <1>2 DEF Injection, IsInjective
<1>4. IsFiniteSet(1 .. N) /\ Cardinality(1 .. N) = N
  BY <1>0, FS_Interval
<1>5. rank \in Surjection(S, 1 .. N)
  <2> HIDE DEF rank
  <2> QED
    BY <1>3, <1>4, FS_Injection
<1>6. \A k \in 1 .. N : \E n \in S : Rank(S, n) = k
  BY <1>5 DEF Surjection
<1>7. ASSUME NEW k \in 1 .. N PROVE InOrder(S)[k] \in S /\ Rank(S, InOrder(S)[k]) = k
  <2>1. InOrder(S)[k] = CHOOSE n \in S : Rank(S, n) = k
    BY DEF InOrder
  <2> QED
    BY <1>6, <2>1
<1>8. InOrder(S) = [k \in 1 .. N |-> InOrder(S)[k]]
  BY DEF InOrder
<1>9. InOrder(S) \in [1 .. N -> S]
  BY <1>7, <1>8
<1>10. \A n \in S : InOrder(S)[Rank(S, n)] = n
  <2> SUFFICES ASSUME NEW n \in S PROVE InOrder(S)[Rank(S, n)] = n
    OBVIOUS
  <2>1. Rank(S, n) \in 1 .. N
    BY RankType
  <2> QED
    BY <1>2, <1>7, <2>1
<1> QED
  BY <1>0, <1>7, <1>9, <1>10

LEMMA InOrderIncreases ==
  ASSUME NEW S \in SUBSET Nat, IsFiniteSet(S),
         NEW i \in 1 .. Cardinality(S), NEW j \in 1 .. Cardinality(S), i < j
  PROVE  InOrder(S)[i] < InOrder(S)[j]
<1> DEFINE m == InOrder(S)[i]
           n == InOrder(S)[j]
<1>1. m \in S /\ n \in S /\ Rank(S, m) = i /\ Rank(S, n) = j
  BY InOrderLists
<1>0. Cardinality(S) \in Nat
  BY InOrderLists
<1> HIDE DEF m, n
<1>2. m \in Nat /\ n \in Nat /\ i \in Nat /\ j \in Nat
  <2>1. m \in Nat /\ n \in Nat
    BY <1>1
  <2>2. i \in Nat /\ j \in Nat
    BY <1>0
  <2> QED
    BY <2>1, <2>2
<1>3. m # n
  BY <1>1, <1>2
<1>4. ~(n < m)
  BY <1>1, <1>2, RankGrows
<1>5. m < n
  BY <1>2, <1>3, <1>4
<1> QED
  BY <1>5 DEF m, n

-----------------------------------------------------------------------------
(* HistoryImport: texts and their events.                                  *)

LEMMA ImportBounds ==
  /\ MaxRuns \in Nat /\ None \notin Importers /\ None \notin Events /\ Torn \notin Events
  /\ Bad \notin RowType /\ None \notin Ids \cup Texts
  /\ Rows \subseteq RowType \cup {Bad}
  BY HistoryImportAssumption DEF HistoryImportAssumption

Text     == Seq(RowType \cup {Bad})
Messages == [role : Roles, content : Texts]

\* Where the rows of a text are that become events.
Chosen(s) == {n \in DOMAIN s : Answers(s[n]) /\ s[n].timed}

LEMMA TextDomain == ASSUME NEW s \in Text
                    PROVE  Len(s) \in Nat /\ DOMAIN s = 1 .. Len(s)
  BY DEF Text

LEMMA TextElement ==
  ASSUME NEW s \in Text, NEW n \in DOMAIN s, Parsed(s[n]) PROVE s[n] \in RowType /\ n \in Nat
<1>1. s[n] \in RowType \cup {Bad} /\ n \in Nat
  BY DEF Text
<1> QED
  BY <1>1 DEF Parsed

LEMMA MessageType == ASSUME NEW row \in RowType PROVE Message(row) \in Messages
  BY DEF Message, RowType, Messages

LEMMA IndexSets ==
  ASSUME NEW n \in Nat, NEW S \in SUBSET (1 .. n)
  PROVE  S \in SUBSET Nat /\ IsFiniteSet(S)
<1>1. IsFiniteSet(1 .. n)
  BY FS_Interval
<1>2. IsFiniteSet(S)
  BY <1>1, FS_Subset
<1> QED
  BY <1>2

LEMMA ContextType ==
  ASSUME NEW s \in Text, NEW n \in DOMAIN s
  PROVE  Context(s, n) \in Seq(Messages)
<1> DEFINE K == {k \in 1 .. n - 1 : InContext(s[k])}
           N == Cardinality(K)
<1>1. n \in 1 .. Len(s) /\ Len(s) \in Nat /\ n - 1 \in Nat
  BY TextDomain
<1>2. K \in SUBSET Nat /\ IsFiniteSet(K)
  BY <1>1, IndexSets
<1>3. N \in Nat /\ InOrder(K) \in [1 .. N -> K]
  BY <1>2, InOrderLists
<1>4. \A k \in K : Message(s[k]) \in Messages
  <2> SUFFICES ASSUME NEW k \in K PROVE Message(s[k]) \in Messages
    OBVIOUS
  <2>1. k \in DOMAIN s /\ Parsed(s[k])
    BY <1>1, TextDomain DEF InContext
  <2> QED
    BY <2>1, TextElement, MessageType
<1>5. Context(s, n) = [k \in DOMAIN InOrder(K) |-> Message(s[InOrder(K)[k]])]
  BY DEF Context
<1> HIDE DEF K, N
<1>6. DOMAIN InOrder(K) = 1 .. N
  BY <1>3
<1>7. \A k \in 1 .. N : Message(s[InOrder(K)[k]]) \in Messages
  BY <1>3, <1>4
<1>8. Context(s, n) \in [1 .. N -> Messages]
  BY <1>5, <1>6, <1>7
<1> QED
  BY <1>3, <1>8, SeqDef

LEMMA EventType ==
  ASSUME NEW s \in Text, NEW n \in DOMAIN s, Answers(s[n])
  PROVE  Event(s, n) \in Events
<1>1. s[n] \in RowType /\ n \in Nat
  BY TextElement DEF Answers
<1>2. Cardinality({k \in 1 .. n : Same(s[k], s[n])}) \in Nat
  <2>1. IsFiniteSet({k \in 1 .. n : Same(s[k], s[n])})
    BY <1>1, IndexSets
  <2> QED
    BY <2>1, FS_CardinalityType
<1>3. Identity(s, n) \in [kind : Roles, id : Ids \cup {None}, nth : Nat, says : Texts \cup {None}]
  <2> DEFINE nth == IF s[n].id = None /\ format = "codex"
                      THEN Cardinality({k \in 1 .. n : Same(s[k], s[n])}) ELSE 0
             says == IF s[n].id = None THEN s[n].says ELSE None
  <2>1. nth \in Nat
    BY <1>2
  <2>2. says \in Texts \cup {None}
    BY <1>1 DEF RowType
  <2>3. s[n].kind \in Roles /\ s[n].id \in Ids \cup {None}
    BY <1>1 DEF RowType
  <2>4. Identity(s, n) = [kind |-> s[n].kind, id |-> s[n].id, says |-> says, nth |-> nth]
    BY DEF Identity
  <2> HIDE DEF nth, says
  <2> QED
    BY <2>1, <2>2, <2>3, <2>4
<1>4. Context(s, n) \in Seq(Messages) /\ Message(s[n]) \in Messages
  BY <1>1, ContextType, MessageType
<1> QED
  BY <1>3, <1>4 DEF Event, Events, Messages

\* The events of a text are those of its chosen rows.
LEMMA BatchType ==
  ASSUME NEW s \in Text
  PROVE  /\ Batch(s) \in Seq(Events)
         /\ \A k \in DOMAIN Batch(s) : \E n \in Chosen(s) : Batch(s)[k] = Event(s, n)
<1> DEFINE C == Chosen(s)
           N == Cardinality(C)
<1>1. C \in SUBSET Nat /\ IsFiniteSet(C)
  BY TextDomain, IndexSets DEF Chosen
<1>2. N \in Nat /\ InOrder(C) \in [1 .. N -> C]
  BY <1>1, InOrderLists
<1>3. Batch(s) = [k \in DOMAIN InOrder(C) |-> Event(s, InOrder(C)[k])]
  BY DEF Batch, Chosen
<1>4. \A n \in C : Event(s, n) \in Events
  BY EventType DEF Chosen
<1> HIDE DEF C, N
<1>5. DOMAIN Batch(s) = 1 .. N /\ \A k \in 1 .. N : Batch(s)[k] = Event(s, InOrder(C)[k])
  BY <1>2, <1>3
<1>6. \A k \in 1 .. N : Batch(s)[k] \in Events
  BY <1>2, <1>4, <1>5
<1>7. Batch(s) \in [1 .. N -> Events]
  BY <1>2, <1>3, <1>6
<1> QED
  BY <1>2, <1>5, <1>7, SeqDef DEF C

-----------------------------------------------------------------------------
(* The corpus: its rows, its lock and what is left in a buffer.            *)

USE ImportBounds

Runs == [pc : {"off", "opened", "import", "close", "done"}, text : Text, next : Nat \ {0},
         existing : SUBSET Events, failures : SUBSET Failures, rest : Events \cup {None}]

ImportType ==
  /\ format \in Formats /\ session \in Text /\ revised \in BOOLEAN
  /\ corpus \in Seq(Events \cup {Torn})
  /\ lock \in Importers \cup {None}
  /\ run \in [Importers -> Runs]
  /\ \A i \in Importers : run[i].pc = "import" <=> lock = i
  /\ overlap \in BOOLEAN /\ runs \in 0 .. MaxRuns

\* Only an import that has failed and not closed its files has a row left in a buffer.  Unless
\* one took the lock meanwhile, that is one import, and nobody has the lock.
RestKept ==
  /\ \A i \in Importers : run[i].rest # None => run[i].pc = "close"
  /\ ~overlap => \A i \in Importers : run[i].rest # None =>
       /\ lock = None
       /\ \A j \in Importers : run[j].rest # None => j = i
       /\ \A k \in DOMAIN corpus : corpus[k] # Torn => corpus[k].id # run[i].rest.id

\* Who has the lock knows the rows that there are, and none of them is cut short.
LockKnows ==
  ~overlap => \A i \in Importers : run[i].pc = "import" =>
    /\ \A k \in DOMAIN corpus : corpus[k] # Torn /\ corpus[k] \in run[i].existing

CorpusInv == ImportType /\ RestKept /\ LockKnows /\ EachOnce /\ NothingAfterTorn

LEMMA OffType == Off \in Runs
  BY DEF Off, Runs, Text

LEMMA CorpusInit == Init => CorpusInv
<1> SUFFICES ASSUME Init PROVE CorpusInv
  OBVIOUS
<1>1. ImportType
  <2>1. run \in [Importers -> Runs] /\ \A i \in Importers : run[i].pc = "off"
    BY OffType DEF Init, Off
  <2>2. session \in Text /\ corpus \in Seq(Events \cup {Torn})
    BY DEF Init, Text
  <2>3. \A i \in Importers : run[i].pc = "import" <=> lock = i
    BY <2>1 DEF Init
  <2>4. overlap \in BOOLEAN /\ lock \in Importers \cup {None}
    BY DEF Init
  <2>5. runs \in 0 .. MaxRuns
    BY DEF Init
  <2> QED
    BY <2>1, <2>2, <2>3, <2>4, <2>5 DEF Init, ImportType
<1>2. RestKept /\ LockKnows /\ EachOnce /\ NothingAfterTorn
  BY DEF Init, RestKept, LockKnows, EachOnce, NothingAfterTorn, Off
<1> QED
  BY <1>1, <1>2 DEF CorpusInv

\* What a run becomes keeps the type of the runs.
LEMMA RunUpdate ==
  ASSUME ImportType, NEW i \in Importers, NEW r \in Runs, run' = [run EXCEPT ![i] = r]
  PROVE  /\ run' \in [Importers -> Runs]
         /\ run'[i] = r
         /\ \A j \in Importers : j # i => run'[j] = run[j]
  BY DEF ImportType

LEMMA CutTextType == ASSUME NEW s \in Text, s # <<>> PROVE CutText(s) \in Text
<1>1. Len(s) \in 1 .. Len(s)
  BY EmptySeq DEF Text
<1>2. [s EXCEPT ![Len(s)] = Bad] \in Text
  BY <1>1, ExceptSeq DEF Text
<1>3. <<Bad>> \in Text
  BY DEF Text
<1> QED
  BY <1>2, <1>3 DEF CutText

\* The parts of the invariant that do not change with the session, and with a run that
\* neither holds the lock nor has anything in a buffer.
LEMMA CorpusSession ==
  ASSUME CorpusInv, NEW row \in RowType \cup {Bad}, Grow(row) \/ Revise(row) PROVE CorpusInv'
<1>1. session' \in Text /\ revised' \in BOOLEAN
  <2>1. CASE Grow(row)
    BY <2>1 DEF Grow, CorpusInv, ImportType, Text
  <2>2. CASE Revise(row)
    BY <2>2 DEF Revise, CorpusInv, ImportType, Text
  <2> QED
    BY <2>1, <2>2
<1>2. UNCHANGED <<format, corpus, lock, run, overlap, runs>>
  BY DEF Grow, Revise
<1>3. ImportType'
  BY <1>1, <1>2 DEF CorpusInv, ImportType
<1>4. RestKept' /\ LockKnows' /\ EachOnce' /\ NothingAfterTorn'
  BY <1>2 DEF CorpusInv, RestKept, LockKnows, EachOnce, NothingAfterTorn
<1> QED
  BY <1>3, <1>4 DEF CorpusInv

LEMMA FailuresType ==
  ASSUME NEW s PROVE BatchFailures(s) \in SUBSET Failures
  BY DEF BatchFailures, Failures

LEMMA CorpusBegin ==
  ASSUME CorpusInv, NEW i \in Importers, NEW text, Begin(i, text) PROVE CorpusInv'
<1> USE DEF CorpusInv
<1> DEFINE r == [Off EXCEPT !.pc = "opened", !.text = text, !.failures = BatchFailures(text)]
<1>1. text \in Text
  BY CutTextType DEF Begin, ImportType
<1>2. r \in Runs /\ r.pc = "opened" /\ r.rest = None
  BY <1>1, OffType, FailuresType DEF Off, Runs
<1>3. run' = [run EXCEPT ![i] = r] /\ run[i].pc \in {"off", "done"} /\ runs < MaxRuns
  BY DEF Begin
<1> HIDE DEF r
<1>4. /\ run' \in [Importers -> Runs] /\ run'[i] = r
      /\ \A j \in Importers : j # i => run'[j] = run[j]
  BY <1>2, <1>3, RunUpdate
<1>5. ImportType'
  BY <1>2, <1>3, <1>4 DEF Begin, ImportType
<1>6. UNCHANGED <<corpus, lock, overlap>>
  BY DEF Begin
<1>7. \A j \in Importers : run'[j].rest # None => j # i
  BY <1>2, <1>4
<1>8. RestKept'
  BY <1>4, <1>6, <1>7 DEF RestKept
<1>9. LockKnows' /\ EachOnce' /\ NothingAfterTorn'
  BY <1>2, <1>4, <1>6 DEF LockKnows, EachOnce, NothingAfterTorn
<1> QED
  BY <1>5, <1>8, <1>9

LEMMA FailsType ==
  ASSUME NEW r \in Runs, NEW code \in Failures
  PROVE  Fails(r, code) \in Runs /\ Fails(r, code).pc = "close" /\ Fails(r, code).rest = r.rest
  BY DEF Fails, Runs

LEMMA FailsRest ==
  ASSUME NEW r \in Runs, NEW code \in Failures, NEW e \in Events \cup {None}
  PROVE  /\ [Fails(r, code) EXCEPT !.rest = e] \in Runs
         /\ [Fails(r, code) EXCEPT !.rest = e].pc = "close"
         /\ [Fails(r, code) EXCEPT !.rest = e].rest = e
  BY DEF Fails, Runs

LEMMA CorpusLock ==
  ASSUME CorpusInv, NEW i \in Importers, Lock(i) PROVE CorpusInv'
<1> USE DEF CorpusInv
<1>1. CASE UNCHANGED <<lock, overlap>> /\ \E code \in Failures : run' = [run EXCEPT ![i] = Fails(@, code)]
  <2>1. PICK code \in Failures : run' = [run EXCEPT ![i] = Fails(@, code)]
    BY <1>1
  <2> DEFINE r == Fails(run[i], code)
  <2>2. r \in Runs /\ r.pc = "close" /\ r.rest = run[i].rest /\ run' = [run EXCEPT ![i] = r]
    BY <2>1, FailsType DEF ImportType
  <2>3. run[i].pc = "opened" /\ run[i].rest = None
    BY DEF Lock, RestKept
  <2> HIDE DEF r
  <2>4. /\ run' \in [Importers -> Runs] /\ run'[i] = r
        /\ \A j \in Importers : j # i => run'[j] = run[j]
    BY <2>2, RunUpdate
  <2>5. ImportType'
    BY <1>1, <2>2, <2>3, <2>4 DEF Lock, ImportType
  <2>6. RestKept'
    BY <1>1, <2>2, <2>3, <2>4 DEF Lock, RestKept
  <2>7. LockKnows' /\ EachOnce' /\ NothingAfterTorn'
    BY <1>1, <2>2, <2>3, <2>4 DEF Lock, LockKnows, EachOnce, NothingAfterTorn
  <2> QED
    BY <2>5, <2>6, <2>7
<1>2. CASE /\ ~Busy /\ \A k \in DOMAIN corpus : Readable(corpus[k])
           /\ lock' = i
           /\ run' = [run EXCEPT ![i].pc = "import", ![i].existing = ToSet(corpus) \ {Torn}]
           /\ overlap' = (overlap \/ \E j \in Importers : run[j].rest # None)
  <2> DEFINE r == [run[i] EXCEPT !.pc = "import", !.existing = ToSet(corpus) \ {Torn}]
  <2>1. run[i] \in Runs /\ lock = None
    BY <1>2 DEF ImportType, Busy
  <2>2. ToSet(corpus) \ {Torn} \in SUBSET Events
    BY DEF ImportType, ToSet
  <2>3. r \in Runs /\ r.pc = "import" /\ r.rest = run[i].rest /\ r.existing = ToSet(corpus) \ {Torn}
    BY <2>1, <2>2 DEF Runs
  <2>4. run' = [run EXCEPT ![i] = r]
    BY <1>2 DEF ImportType
  <2>5. run[i].pc = "opened" /\ run[i].rest = None
    BY DEF Lock, RestKept
  <2> HIDE DEF r
  <2>6. /\ run' \in [Importers -> Runs] /\ run'[i] = r
        /\ \A j \in Importers : j # i => run'[j] = run[j]
    BY <2>3, <2>4, RunUpdate
  <2>7. UNCHANGED <<format, session, revised, corpus, runs>>
    BY DEF Lock
  <2>8. overlap' \in BOOLEAN
    BY <1>2 DEF ImportType
  <2>9. ImportType'
    BY <1>2, <2>1, <2>3, <2>6, <2>7, <2>8 DEF ImportType
  <2>10. ~overlap' => ~overlap /\ \A j \in Importers : run[j].rest = None
    BY <1>2
  <2>11. RestKept'
    BY <2>3, <2>5, <2>6, <2>7, <2>10 DEF RestKept
  <2>12. LockKnows'
    <3>1. \A k \in DOMAIN corpus : corpus[k] # Torn /\ corpus[k] \in r.existing
      BY <1>2, <2>3 DEF Readable, ToSet
    <3>2. \A j \in Importers : run'[j].pc = "import" => j = i
      BY <1>2, <2>9 DEF ImportType
    <3> QED
      BY <2>6, <2>7, <3>1, <3>2 DEF LockKnows
  <2>13. EachOnce' /\ NothingAfterTorn'
    BY <2>7, <2>10 DEF EachOnce, NothingAfterTorn
  <2> QED
    BY <2>9, <2>11, <2>12, <2>13
<1> QED
  BY <1>1, <1>2 DEF Lock, Failures

Lines == Events \cup {Torn}

\* The two properties of the corpus, of any rows.
Once(c) == \A j, k \in DOMAIN c :
             (j # k /\ c[j] # Torn /\ c[k] # Torn) => c[j].id # c[k].id
TornLast(c) == \A k \in DOMAIN c : c[k] = Torn => k = Len(c)
Whole(c) == \A k \in DOMAIN c : c[k] # Torn

LEMMA AppendLine ==
  ASSUME NEW c \in Seq(Lines), NEW x \in Lines
  PROVE  /\ Append(c, x) \in Seq(Lines) /\ Len(Append(c, x)) = Len(c) + 1 /\ Len(c) \in Nat
         /\ DOMAIN c = 1 .. Len(c) /\ DOMAIN Append(c, x) = 1 .. Len(c) + 1
         /\ \A k \in DOMAIN c : Append(c, x)[k] = c[k]
         /\ Append(c, x)[Len(c) + 1] = x
  BY AppendProperties, LenProperties

LEMMA AppendOnce ==
  ASSUME NEW c \in Seq(Lines), NEW x \in Lines, Whole(c), Once(c),
         x # Torn => \A k \in DOMAIN c : c[k].id # x.id
  PROVE  Once(Append(c, x)) /\ TornLast(Append(c, x))
<1> DEFINE d == Append(c, x)
<1>1. /\ Len(d) = Len(c) + 1 /\ Len(c) \in Nat
      /\ DOMAIN c = 1 .. Len(c) /\ DOMAIN d = 1 .. Len(c) + 1
      /\ \A k \in DOMAIN c : d[k] = c[k]
      /\ d[Len(c) + 1] = x
  BY AppendLine
<1> HIDE DEF d
<1>2. \A k \in DOMAIN d : k \in DOMAIN c \/ k = Len(c) + 1
  BY <1>1
<1>3. Once(d)
  <2> SUFFICES ASSUME NEW j \in DOMAIN d, NEW k \in DOMAIN d, j # k, d[j] # Torn, d[k] # Torn
               PROVE  d[j].id # d[k].id
    BY DEF Once
  <2>1. CASE j \in DOMAIN c /\ k \in DOMAIN c
    BY <1>1, <2>1 DEF Once
  <2>2. CASE j \in DOMAIN c /\ k = Len(c) + 1
    BY <1>1, <2>2
  <2>3. CASE j = Len(c) + 1 /\ k \in DOMAIN c
    BY <1>1, <2>3
  <2> QED
    BY <1>2, <2>1, <2>2, <2>3
<1>4. TornLast(d)
  <2> SUFFICES ASSUME NEW k \in DOMAIN d, d[k] = Torn PROVE k = Len(d)
    BY DEF TornLast
  <2> QED
    BY <1>1, <1>2 DEF Whole
<1> QED
  BY <1>3, <1>4 DEF d

\* A row takes the place of the last one, which was cut short.
LEMMA ReplaceOnce ==
  ASSUME NEW c \in Seq(Lines), NEW x \in Events, c # <<>>, TornLast(c), Once(c),
         \A k \in DOMAIN c : c[k] # Torn => c[k].id # x.id, c[Len(c)] = Torn
  PROVE  LET d == [c EXCEPT ![Len(c)] = x] IN Once(d) /\ TornLast(d)
<1> DEFINE d == [c EXCEPT ![Len(c)] = x]
<1>1. Len(c) \in 1 .. Len(c) /\ DOMAIN c = 1 .. Len(c)
  BY EmptySeq, LenProperties
<1>2. /\ DOMAIN d = DOMAIN c /\ d[Len(c)] = x
      /\ \A k \in DOMAIN c : k # Len(c) => d[k] = c[k]
  BY <1>1
<1> HIDE DEF d
<1>3. Once(d)
  BY <1>2 DEF Once
<1>4. \A k \in DOMAIN d : d[k] # Torn
  BY <1>2 DEF TornLast
<1> QED
  BY <1>3, <1>4 DEF TornLast, d

LEMMA ReplaceType ==
  ASSUME NEW c \in Seq(Lines), NEW x \in Lines, c # <<>>
  PROVE  [c EXCEPT ![Len(c)] = x] \in Seq(Lines)
<1>1. Len(c) \in 1 .. Len(c)
  BY EmptySeq
<1> QED
  BY <1>1, ExceptSeq

LEMMA CorpusImport ==
  ASSUME CorpusInv, NEW i \in Importers, Import(i) PROVE CorpusInv'
<1> USE DEF CorpusInv
<1> DEFINE batch == Batch(run[i].text)
           e == batch[run[i].next]
<1>1. /\ run[i] \in Runs /\ run[i].pc = "import" /\ lock = i
      /\ run[i].rest = None /\ corpus \in Seq(Lines)
      /\ UNCHANGED <<format, session, revised, overlap, runs>>
  BY DEF Import, ImportType, RestKept, Lines
<1>2. batch \in Seq(Events)
  BY <1>1, BatchType DEF Runs
<1>3. run[i].next <= Len(batch) => e \in Events
  <2> HIDE DEF batch
  <2> QED
    BY <1>1, <1>2 DEF Runs
<1>4. ~overlap => /\ \A j \in Importers : run[j].rest = None
                  /\ Whole(corpus) /\ \A k \in DOMAIN corpus : corpus[k] \in run[i].existing
                  /\ Once(corpus)
  BY <1>1 DEF RestKept, LockKnows, EachOnce, Whole, Once
<1>5. ASSUME NEW r \in Runs, run' = [run EXCEPT ![i] = r]
      PROVE  /\ run' \in [Importers -> Runs] /\ run'[i] = r
             /\ \A j \in Importers : j # i => run'[j] = run[j] /\ run[j].pc # "import"
  BY <1>1, <1>5, RunUpdate DEF ImportType
<1>6. ASSUME NEW r \in Runs, run' = [run EXCEPT ![i] = r], r.rest = None,
             \/ r.pc = "close" /\ lock' = None
             \/ r.pc = "import" /\ lock' = lock /\ r.existing = run[i].existing,
             UNCHANGED corpus
      PROVE  CorpusInv'
  <2>1. /\ run' \in [Importers -> Runs] /\ run'[i] = r
        /\ \A j \in Importers : j # i => run'[j] = run[j] /\ run[j].pc # "import"
    BY <1>5, <1>6
  <2>2. ImportType'
    BY <1>1, <1>6, <2>1 DEF ImportType
  <2>3. RestKept'
    BY <1>1, <1>4, <1>6, <2>1 DEF RestKept
  <2>4. LockKnows' /\ EachOnce' /\ NothingAfterTorn'
    BY <1>1, <1>6, <2>1 DEF LockKnows, EachOnce, NothingAfterTorn
  <2> QED
    BY <2>2, <2>3, <2>4
<1>7. CASE run[i].next > Len(batch) /\ run' = [run EXCEPT ![i].pc = "close"]
             /\ lock' = None /\ UNCHANGED corpus
  <2> DEFINE r == [run[i] EXCEPT !.pc = "close"]
  <2>1. r \in Runs /\ r.rest = None /\ r.pc = "close" /\ run' = [run EXCEPT ![i] = r]
    BY <1>1, <1>7 DEF Runs, ImportType
  <2> HIDE DEF r
  <2> QED
    BY <1>6, <1>7, <2>1
<1>8. ASSUME NEW f \in SUBSET Failures, UNCHANGED <<lock, corpus>>,
             run' = [run EXCEPT ![i].next = @ + 1, ![i].failures = f]
      PROVE  CorpusInv'
  <2> DEFINE r == [run[i] EXCEPT !.next = @ + 1, !.failures = f]
  <2>0. run[i].next + 1 \in Nat \ {0}
    BY <1>1 DEF Runs
  <2>1. /\ r \in Runs /\ r.rest = None /\ r.pc = "import" /\ r.existing = run[i].existing
        /\ run' = [run EXCEPT ![i] = r]
    BY <1>1, <1>8, <2>0 DEF Runs, ImportType
  <2> HIDE DEF r
  <2> QED
    BY <1>6, <1>8, <2>1
<1>9. ASSUME run[i].next <= Len(batch), \A p \in run[i].existing : p.id # e.id,
             corpus' = Append(corpus, e), UNCHANGED lock,
             run' = [run EXCEPT ![i].next = @ + 1, ![i].existing = @ \cup {e}]
      PROVE  CorpusInv'
  <2> DEFINE r == [run[i] EXCEPT !.next = @ + 1, !.existing = @ \cup {e}]
  <2>0. run[i].next + 1 \in Nat \ {0} /\ e \in Events /\ run[i].existing \cup {e} \in SUBSET Events
    BY <1>1, <1>3, <1>9 DEF Runs
  <2> HIDE DEF e
  <2>1. /\ r \in Runs /\ r.rest = None /\ r.pc = "import"
        /\ r.existing = run[i].existing \cup {e}
        /\ run' = [run EXCEPT ![i] = r]
    BY <1>1, <1>9, <2>0 DEF Runs, ImportType
  <2> HIDE DEF r
  <2>2. /\ run' \in [Importers -> Runs] /\ run'[i] = r
        /\ \A j \in Importers : j # i => run'[j] = run[j] /\ run[j].pc # "import"
    BY <1>5, <2>1
  <2>3. /\ corpus' \in Seq(Lines) /\ Len(corpus) \in Nat
        /\ DOMAIN corpus = 1 .. Len(corpus) /\ DOMAIN corpus' = 1 .. Len(corpus) + 1
        /\ \A k \in DOMAIN corpus : corpus'[k] = corpus[k]
        /\ corpus'[Len(corpus) + 1] = e
    BY <1>1, <1>9, <2>0, AppendLine DEF Lines
  <2>4. ImportType'
    BY <1>1, <1>9, <2>1, <2>2, <2>3 DEF ImportType, Lines
  <2>5. RestKept'
    BY <1>1, <1>4, <1>9, <2>1, <2>2 DEF RestKept
  <2>6. LockKnows'
    <3>1. \A k \in DOMAIN corpus' : k \in DOMAIN corpus \/ k = Len(corpus) + 1
      BY <2>3
    <3>2. ~overlap => \A k \in DOMAIN corpus' : corpus'[k] # Torn /\ corpus'[k] \in r.existing
      BY <1>4, <2>0, <2>1, <2>3, <3>1 DEF Whole
    <3> QED
      BY <1>1, <2>2, <3>2 DEF LockKnows
  <2>7. EachOnce' /\ NothingAfterTorn'
    <3>1. ~overlap => Once(corpus') /\ TornLast(corpus')
      BY <1>1, <1>4, <1>9, <2>0, AppendOnce DEF Lines
    <3> QED
      BY <1>1, <3>1 DEF EachOnce, NothingAfterTorn, Once, TornLast
  <2> QED
    BY <2>4, <2>5, <2>6, <2>7
<1>10. ASSUME run[i].next <= Len(batch), \A p \in run[i].existing : p.id # e.id, lock' = None,
              \/ /\ corpus' \in PartWritten(corpus)
                 /\ run' = [run EXCEPT ![i] = [Fails(@, "persistence_failed") EXCEPT !.rest = e]]
              \/ /\ corpus' = Append(corpus, e)
                 /\ run' = [run EXCEPT ![i] = Fails(@, "persistence_failed")]
       PROVE  CorpusInv'
  <2>0. e \in Events /\ "persistence_failed" \in Failures
    BY <1>3, <1>10 DEF Failures
  <2> HIDE DEF e
  <2>1. PICK r \in Runs : /\ r.pc = "close" /\ run' = [run EXCEPT ![i] = r]
                          /\ \/ r.rest = e /\ corpus' \in PartWritten(corpus)
                             \/ r.rest = None /\ corpus' = Append(corpus, e)
    <3>1. CASE /\ corpus' \in PartWritten(corpus)
               /\ run' = [run EXCEPT ![i] = [Fails(@, "persistence_failed") EXCEPT !.rest = e]]
      <4> DEFINE r == [Fails(run[i], "persistence_failed") EXCEPT !.rest = e]
      <4>1. r \in Runs /\ r.pc = "close" /\ r.rest = e
        BY <1>1, <2>0, FailsRest
      <4>2. run' = [run EXCEPT ![i] = r]
        BY <3>1 DEF ImportType
      <4> HIDE DEF r
      <4> QED
        BY <3>1, <4>1, <4>2
    <3>2. CASE /\ corpus' = Append(corpus, e)
               /\ run' = [run EXCEPT ![i] = Fails(@, "persistence_failed")]
      <4> DEFINE r == Fails(run[i], "persistence_failed")
      <4>1. r \in Runs /\ r.pc = "close" /\ r.rest = None
        BY <1>1, <2>0, FailsType
      <4>2. run' = [run EXCEPT ![i] = r]
        BY <3>2 DEF ImportType
      <4> HIDE DEF r
      <4> QED
        BY <3>2, <4>1, <4>2
    <3> QED
      BY <1>10, <3>1, <3>2
  <2>2. /\ run' \in [Importers -> Runs] /\ run'[i] = r
        /\ \A j \in Importers : j # i => run'[j] = run[j] /\ run[j].pc # "import"
    BY <1>5, <2>1
  <2>3. corpus' = corpus \/ corpus' = Append(corpus, Torn) \/ corpus' = Append(corpus, e)
    BY <2>1 DEF PartWritten
  <2>4. corpus' \in Seq(Lines)
    BY <1>1, <2>0, <2>3, AppendLine DEF Lines
  <2>5. ImportType'
    BY <1>1, <1>10, <2>1, <2>2, <2>4 DEF ImportType, Lines
  <2>6. ~overlap => Once(corpus') /\ TornLast(corpus')
    <3> SUFFICES ASSUME ~overlap PROVE Once(corpus') /\ TornLast(corpus')
      OBVIOUS
    <3>1. \A k \in DOMAIN corpus : corpus[k].id # e.id
      BY <1>4, <1>10
    <3>2. CASE corpus' = corpus
      BY <1>4, <3>2 DEF Whole, TornLast
    <3>3. CASE corpus' = Append(corpus, Torn)
      BY <1>1, <1>4, <3>3, AppendOnce DEF Lines
    <3>4. CASE corpus' = Append(corpus, e)
      BY <1>1, <1>4, <2>0, <3>1, <3>4, AppendOnce DEF Lines
    <3> QED
      BY <2>3, <3>2, <3>3, <3>4
  <2>7. EachOnce' /\ NothingAfterTorn'
    BY <1>1, <2>6 DEF EachOnce, NothingAfterTorn, Once, TornLast
  <2>8. LockKnows'
    BY <2>1, <2>2 DEF LockKnows
  <2>9. ASSUME ~overlap, r.rest = e, NEW k \in DOMAIN corpus', corpus'[k] # Torn
        PROVE  corpus'[k].id # e.id
    <3>1. corpus' = corpus \/ corpus' = Append(corpus, Torn)
      BY <2>0, <2>1, <2>9 DEF PartWritten
    <3>2. k \in DOMAIN corpus /\ corpus'[k] = corpus[k]
      BY <1>1, <2>9, <3>1, AppendLine DEF Lines
    <3> QED
      BY <1>4, <1>10, <2>9, <3>2
  <2>10. RestKept'
    BY <1>1, <1>4, <1>10, <2>1, <2>2, <2>9 DEF RestKept
  <2> QED
    BY <2>5, <2>7, <2>8, <2>10
<1>11. \A f \in SUBSET Failures : f \cup {"identity_conflict"} \in SUBSET Failures
  BY DEF Failures
<1>12. run[i].failures \in SUBSET Failures
  BY <1>1 DEF Runs
<1>13. CASE /\ run[i].next <= Len(batch) /\ UNCHANGED <<lock, corpus>>
            /\ \/ run' = [run EXCEPT ![i].next = @ + 1, ![i].failures = @ \cup {"identity_conflict"}]
               \/ run' = [run EXCEPT ![i].next = @ + 1, ![i].failures = @]
  <2>1. CASE run' = [run EXCEPT ![i].next = @ + 1, ![i].failures = @ \cup {"identity_conflict"}]
    <3> DEFINE f == run[i].failures \cup {"identity_conflict"}
    <3>1. run' = [run EXCEPT ![i].next = @ + 1, ![i].failures = f]
      BY <2>1 DEF ImportType
    <3>2. f \in SUBSET Failures
      BY <1>11, <1>12
    <3> HIDE DEF f
    <3> QED
      BY <1>8, <1>13, <3>1, <3>2
  <2>2. CASE run' = [run EXCEPT ![i].next = @ + 1, ![i].failures = @]
    <3> DEFINE f == run[i].failures
    <3>1. run' = [run EXCEPT ![i].next = @ + 1, ![i].failures = f]
      BY <2>2 DEF ImportType
    <3>2. f \in SUBSET Failures
      BY <1>12
    <3> HIDE DEF f
    <3> QED
      BY <1>8, <1>13, <3>1, <3>2
  <2> QED
    BY <1>13, <2>1, <2>2
<1> QED
  BY <1>1, <1>7, <1>9, <1>10, <1>13 DEF Import

LEMMA CorpusClose ==
  ASSUME CorpusInv, NEW i \in Importers, Close(i) PROVE CorpusInv'
<1> USE DEF CorpusInv
<1> DEFINE r == [Off EXCEPT !.pc = "done", !.text = run[i].text, !.failures = run[i].failures]
           rest == run[i].rest
<1>1. /\ run[i] \in Runs /\ run[i].pc = "close" /\ corpus \in Seq(Lines)
      /\ rest \in Events \cup {None}
      /\ UNCHANGED <<format, session, revised, lock, overlap, runs>>
  BY DEF Close, ImportType, Lines, Runs
<1>2. r \in Runs /\ r.pc = "done" /\ r.rest = None /\ run' = [run EXCEPT ![i] = r]
  BY <1>1, OffType DEF Close, Off, Runs
<1>3. \/ /\ rest # None /\ corpus # <<>> /\ corpus[Len(corpus)] = Torn
         /\ corpus' = [corpus EXCEPT ![Len(corpus)] = rest]
      \/ /\ rest # None /\ (corpus # <<>> => corpus[Len(corpus)] # Torn)
         /\ corpus' \in {Append(corpus, rest), Append(corpus, Torn)}
      \/ UNCHANGED corpus
  BY DEF Close, Last
<1> HIDE DEF r, rest
<1>4. /\ run' \in [Importers -> Runs] /\ run'[i] = r
      /\ \A j \in Importers : j # i => run'[j] = run[j]
  BY <1>2, RunUpdate
<1>5. ~overlap /\ rest # None =>
        /\ lock = None /\ \A j \in Importers : run[j].rest # None => j = i
        /\ \A k \in DOMAIN corpus : corpus[k] # Torn => corpus[k].id # rest.id
  BY DEF RestKept, rest
<1>6. ~overlap => Once(corpus) /\ TornLast(corpus)
  BY DEF EachOnce, NothingAfterTorn, Once, TornLast
<1>7. corpus' \in Seq(Lines) /\ (~overlap => Once(corpus') /\ TornLast(corpus'))
  <2>1. CASE /\ rest # None /\ corpus # <<>> /\ corpus[Len(corpus)] = Torn
             /\ corpus' = [corpus EXCEPT ![Len(corpus)] = rest]
    <3>1. rest \in Events
      BY <1>1, <2>1
    <3>2. corpus' \in Seq(Lines)
      BY <1>1, <2>1, <3>1, ReplaceType DEF Lines
    <3>3. ~overlap => Once(corpus') /\ TornLast(corpus')
      BY <1>1, <1>5, <1>6, <2>1, <3>1, ReplaceOnce
    <3> QED
      BY <3>2, <3>3
  <2>2. ASSUME rest # None, corpus # <<>> => corpus[Len(corpus)] # Torn,
               NEW x \in {rest, Torn}, corpus' = Append(corpus, x)
        PROVE  corpus' \in Seq(Lines) /\ (~overlap => Once(corpus') /\ TornLast(corpus'))
    <3>1. x \in Lines
      BY <1>1, <2>2 DEF Lines
    <3>2. corpus' \in Seq(Lines)
      BY <1>1, <2>2, <3>1, AppendLine
    <3>3. ~overlap => Whole(corpus)
      <4>1. corpus = <<>> => DOMAIN corpus = {}
        OBVIOUS
      <4> QED
        BY <1>6, <2>2, <4>1 DEF TornLast, Whole
    <3>4. ~overlap => Once(corpus') /\ TornLast(corpus')
      <4>1. ~overlap /\ x # Torn => \A k \in DOMAIN corpus : corpus[k].id # x.id
        BY <1>5, <2>2, <3>3 DEF Whole
      <4> QED
        BY <1>1, <1>6, <2>2, <3>1, <3>3, <4>1, AppendOnce
    <3> QED
      BY <3>2, <3>4
  <2>3. CASE UNCHANGED corpus
    BY <1>1, <1>6, <2>3
  <2> QED
    BY <1>3, <2>1, <2>2, <2>3
<1>8. ImportType'
  BY <1>1, <1>2, <1>4, <1>7 DEF ImportType, Lines
<1>9. EachOnce' /\ NothingAfterTorn'
  BY <1>1, <1>7 DEF EachOnce, NothingAfterTorn, Once, TornLast
<1>10. rest = None => UNCHANGED corpus
  BY <1>3
<1>11. RestKept'
  BY <1>1, <1>2, <1>4, <1>5, <1>10 DEF RestKept
<1>12. LockKnows'
  <2>1. CASE rest = None
    BY <1>1, <1>2, <1>4, <1>10, <2>1 DEF LockKnows
  <2>2. CASE rest # None
    <3>1. ~overlap => lock' = None
      BY <1>1, <1>5, <2>2
    <3>2. ~overlap' => \A j \in Importers : run'[j].pc # "import"
      BY <1>1, <1>8, <3>1 DEF ImportType
    <3> QED
      BY <3>2 DEF LockKnows
  <2> QED
    BY <2>1, <2>2
<1> QED
  BY <1>8, <1>9, <1>11, <1>12

LEMMA CorpusCrash ==
  ASSUME CorpusInv, NEW i \in Importers, Crash(i) PROVE CorpusInv'
<1> USE DEF CorpusInv
<1>1. /\ run[i].pc \in {"opened", "import", "close"} /\ corpus \in Seq(Lines)
      /\ run' = [run EXCEPT ![i] = Off]
      /\ UNCHANGED <<format, session, revised, overlap, runs>>
  BY DEF Crash, ImportType, Lines
<1>2. Off \in Runs /\ Off.pc = "off" /\ Off.rest = None
  BY OffType DEF Off
<1>3. /\ run' \in [Importers -> Runs] /\ run'[i] = Off
      /\ \A j \in Importers : j # i => run'[j] = run[j]
  BY <1>1, <1>2, RunUpdate
<1>4. CASE run[i].pc # "import"
  <2>1. lock' = lock /\ corpus' = corpus
    BY <1>4 DEF Crash, ImportType
  <2>2. ImportType'
    BY <1>1, <1>2, <1>3, <1>4, <2>1 DEF ImportType
  <2>3. RestKept'
    BY <1>1, <1>2, <1>3, <2>1 DEF RestKept
  <2>4. LockKnows' /\ EachOnce' /\ NothingAfterTorn'
    BY <1>1, <1>2, <1>3, <2>1 DEF LockKnows, EachOnce, NothingAfterTorn
  <2> QED
    BY <2>2, <2>3, <2>4
<1>5. CASE run[i].pc = "import"
  <2>1. lock = i /\ lock' = None /\ corpus' \in PartWritten(corpus)
    BY <1>5 DEF Crash, ImportType
  <2>2. corpus' \in Seq(Lines)
    BY <1>1, <2>1, AppendLine DEF PartWritten, Lines
  <2>3. ImportType'
    BY <1>1, <1>2, <1>3, <2>1, <2>2 DEF ImportType, Lines
  <2>4. ~overlap => /\ \A j \in Importers : run[j].rest = None
                    /\ Whole(corpus) /\ Once(corpus)
    BY <1>5, <2>1 DEF RestKept, LockKnows, EachOnce, Whole, Once
  <2>5. ~overlap => Once(corpus') /\ TornLast(corpus')
    <3>1. CASE corpus' = corpus
      BY <2>4, <3>1 DEF Whole, TornLast
    <3>2. CASE corpus' = Append(corpus, Torn)
      BY <1>1, <2>4, <3>2, AppendOnce DEF Lines
    <3> QED
      BY <2>1, <3>1, <3>2 DEF PartWritten
  <2>6. EachOnce' /\ NothingAfterTorn'
    BY <1>1, <2>5 DEF EachOnce, NothingAfterTorn, Once, TornLast
  <2>7. RestKept'
    BY <1>1, <1>2, <1>3, <2>4 DEF RestKept
  <2>8. LockKnows'
    BY <2>1, <2>3 DEF LockKnows, ImportType
  <2> QED
    BY <2>3, <2>6, <2>7, <2>8
<1> QED
  BY <1>4, <1>5

LEMMA RowsTyped == Rows \subseteq RowType \cup {Bad}
  OBVIOUS

LEMMA CorpusStep == CorpusInv /\ [Next]_vars => CorpusInv'
<1> SUFFICES ASSUME CorpusInv, [Next]_vars PROVE CorpusInv'
  OBVIOUS
<1>1. CASE UNCHANGED vars
  BY <1>1 DEF vars, CorpusInv, ImportType, RestKept, LockKnows, EachOnce, NothingAfterTorn
<1> QED
  BY <1>1, RowsTyped, CorpusSession, CorpusBegin, CorpusLock, CorpusImport, CorpusClose, CorpusCrash DEF Next

LEMMA CorpusAlways == Spec => []CorpusInv
  BY CorpusInit, CorpusStep, PTL DEF Spec

\* CorpusSafe for any importers, rows, faults and numbers of imports: the state keeps its types, the
\* lock is held by who imports, and no event is in the corpus twice.
THEOREM NoEventDoubled == Spec => []CorpusSafe
<1>1. CorpusInv => CorpusSafe
  <2> SUFFICES ASSUME CorpusInv PROVE TypeOK
    BY DEF CorpusInv, CorpusSafe
  <2> QED
    BY DEF CorpusInv, ImportType, TypeOK, Runs, Text
<1> QED
  BY CorpusAlways, <1>1, PTL

\* NothingAfterTorn for any importers and faults: nothing is written behind a row that was cut
\* short, whoever was killed and whoever failed.
THEOREM TornLineStaysLast == Spec => []NothingAfterTorn
<1>1. CorpusInv => NothingAfterTorn
  BY DEF CorpusInv
<1> QED
  BY CorpusAlways, <1>1, PTL

-----------------------------------------------------------------------------
(* An import without a failure is complete.                                *)

\* A batch depends on the format of the session, which stays.
LEMMA EventStays ==
  ASSUME format' = format
  PROVE  \A s, n : Event(s, n)' = Event(s, n)
  BY DEF Event, Identity, Context, InContext, Same, Answers, Parsed, Message

LEMMA BatchStays ==
  ASSUME format' = format
  PROVE  \A s : Batch(s)' = Batch(s)
<1>1. \A s, n : Event(s, n)' = Event(s, n)
  BY EventStays
<1> QED
  BY <1>1 DEF Batch, Answers, Parsed

Complete(r) ==
  /\ r.pc = "opened" => r.next = 1
  /\ r.pc = "import" =>
       /\ r.existing \subseteq ToSet(corpus)
       /\ r.failures = {} =>
            \A n \in DOMAIN Batch(r.text) : n < r.next => Batch(r.text)[n] \in r.existing
  /\ r.pc \in {"close", "done"} /\ r.failures = {} => ToSet(Batch(r.text)) \subseteq ToSet(corpus)

LEMMA CompleteStays ==
  ASSUME format' = format, \A e \in Events : e \in ToSet(corpus) => e \in ToSet(corpus')
  PROVE  \A r \in Runs : Complete(r) => Complete(r)'
<1>1. \A s : Batch(s)' = Batch(s)
  BY BatchStays
<1> SUFFICES ASSUME NEW r \in Runs, Complete(r) PROVE Complete(r)'
  OBVIOUS
<1>2. r.existing \subseteq Events /\ r.text \in Text
  BY DEF Runs
<1>3. \A n \in DOMAIN Batch(r.text) : Batch(r.text)[n] \in Events
  BY <1>2, BatchType, ElementOfSeq, LenProperties
<1>4. Batch(r.text)' = Batch(r.text)
  BY <1>1
<1> QED
  BY <1>2, <1>3, <1>4 DEF Complete, ToSet

Completeness == \A i \in Importers : Complete(run[i])

LEMMA InToSet == ASSUME NEW c \in Seq(Lines), NEW x \in Lines
                 PROVE  ToSet(Append(c, x)) = ToSet(c) \cup {x}
  BY AppendLine DEF ToSet

\* No step takes an event from the corpus.
LEMMA EventsKept ==
  ASSUME CorpusInv, [Next]_vars
  PROVE  format' = format /\ \A e \in Events : e \in ToSet(corpus) => e \in ToSet(corpus')
<1>1. format' = format
  <2> USE DEF Grow, Revise, Begin, Lock, Import, Close, Crash
  <2>1. (\E row \in Rows : Grow(row) \/ Revise(row)) => format' = format
    OBVIOUS
  <2>2. (\E i \in Importers : \/ Begin(i, session) \/ Begin(i, CutText(session))
                             \/ Lock(i) \/ Close(i) \/ Crash(i)) => format' = format
    OBVIOUS
  <2>3. (\E i \in Importers : Import(i)) => format' = format
    OBVIOUS
  <2> QED
    BY <2>1, <2>2, <2>3 DEF Next, vars
<1>2. corpus \in Seq(Lines)
  BY DEF CorpusInv, ImportType, Lines
<1>3. ASSUME NEW x \in Lines, corpus' \in {corpus, Append(corpus, x)}
      PROVE  \A e \in Events : e \in ToSet(corpus) => e \in ToSet(corpus')
  BY <1>2, <1>3, InToSet
<1>4. CASE UNCHANGED corpus
  BY <1>1, <1>4
<1>5. ASSUME NEW i \in Importers, Import(i) \/ Crash(i)
      PROVE  \A e \in Events : e \in ToSet(corpus) => e \in ToSet(corpus')
  <2> DEFINE batch == Batch(run[i].text)
             e == batch[run[i].next]
  <2>1. run[i] \in Runs
    BY DEF CorpusInv, ImportType
  <2>2. batch \in Seq(Events)
    BY <2>1, BatchType DEF Runs
  <2>3. run[i].next <= Len(batch) => e \in Lines
    <3> HIDE DEF batch
    <3> QED
      BY <2>1, <2>2 DEF Runs, Lines
  <2>4. \/ UNCHANGED corpus
        \/ corpus' \in PartWritten(corpus)
        \/ run[i].next <= Len(batch) /\ corpus' = Append(corpus, e)
    BY <1>5 DEF Import, Crash, PartWritten
  <2> HIDE DEF batch, e
  <2> QED
    BY <1>3, <2>3, <2>4 DEF PartWritten, Lines
<1>6. ASSUME NEW i \in Importers, Close(i)
      PROVE  \A e \in Events : e \in ToSet(corpus) => e \in ToSet(corpus')
  <2>1. run[i].rest \in Events \cup {None}
    BY DEF CorpusInv, ImportType, Runs
  <2>2. CASE /\ run[i].rest # None /\ corpus # <<>> /\ corpus[Len(corpus)] = Torn
             /\ corpus' = [corpus EXCEPT ![Len(corpus)] = run[i].rest]
    <3>1. DOMAIN corpus' = DOMAIN corpus
      BY <1>2, <2>2
    <3>2. \A k \in DOMAIN corpus : corpus[k] # Torn => corpus'[k] = corpus[k]
      BY <1>2, <2>2
    <3> QED
      BY <3>1, <3>2 DEF ToSet
  <2>3. CASE run[i].rest # None /\ corpus' \in {Append(corpus, run[i].rest), Append(corpus, Torn)}
    BY <1>3, <2>1, <2>3 DEF Lines
  <2>4. CASE UNCHANGED corpus
    BY <2>4
  <2> QED
    BY <1>6, <2>2, <2>3, <2>4 DEF Close, Last
<1>7. (\E row \in Rows : Grow(row) \/ Revise(row)) => UNCHANGED corpus
  BY DEF Grow, Revise
<1>8. \A i \in Importers : (\E text : Begin(i, text)) \/ Lock(i) => UNCHANGED corpus
  BY DEF Begin, Lock
<1>9. \/ UNCHANGED corpus
      \/ \E i \in Importers : Import(i) \/ Crash(i) \/ Close(i)
  BY <1>7, <1>8 DEF Next, vars
<1> QED
  BY <1>1, <1>4, <1>5, <1>6, <1>9

LEMMA CompletenessFrame ==
  ASSUME CorpusInv, [Next]_vars, Completeness, NEW i \in Importers, Complete(run[i])',
         \A j \in Importers : j # i => run'[j] = run[j]
  PROVE  Completeness'
<1>1. \A r \in Runs : Complete(r) => Complete(r)'
  BY EventsKept, CompleteStays
<1>2. ASSUME NEW j \in Importers, j # i PROVE Complete(run[j])'
  <2>1. run[j] \in Runs /\ Complete(run[j])
    BY DEF CorpusInv, ImportType, Completeness
  <2> QED
    BY <1>1, <1>2, <2>1
<1> QED
  BY <1>2 DEF Completeness

LEMMA ImportKeepsText ==
  ASSUME CorpusInv, NEW i \in Importers, Import(i)
  PROVE  run'[i].text = run[i].text /\ \A j \in Importers : j # i => run'[j] = run[j]
<1>1. run \in [Importers -> Runs] /\ run[i] \in Runs
  BY DEF CorpusInv, ImportType
<1>2. Fails(run[i], "persistence_failed") \in Runs
      /\ Fails(run[i], "persistence_failed").text = run[i].text
  BY <1>1, FailsType DEF Failures, Fails, Runs
<1>3. ASSUME NEW x, run' = [run EXCEPT ![i] = x], x.text = run[i].text
      PROVE  run'[i].text = run[i].text /\ \A j \in Importers : j # i => run'[j] = run[j]
  BY <1>1, <1>3
<1>4. CASE run' = [run EXCEPT ![i].pc = "close"]
  BY <1>1, <1>4 DEF Runs
<1>5. ASSUME NEW f, run' = [run EXCEPT ![i].next = @ + 1, ![i].failures = f]
      PROVE  run'[i].text = run[i].text /\ \A j \in Importers : j # i => run'[j] = run[j]
  BY <1>1, <1>5 DEF Runs
<1>6. ASSUME NEW e, run' = [run EXCEPT ![i].next = @ + 1, ![i].existing = @ \cup {e}]
      PROVE  run'[i].text = run[i].text /\ \A j \in Importers : j # i => run'[j] = run[j]
  BY <1>1, <1>6 DEF Runs
<1>7. ASSUME NEW e, run' = [run EXCEPT ![i] = [Fails(@, "persistence_failed") EXCEPT !.rest = e]]
      PROVE  run'[i].text = run[i].text /\ \A j \in Importers : j # i => run'[j] = run[j]
  <2> DEFINE x == [Fails(run[i], "persistence_failed") EXCEPT !.rest = e]
  <2>1. x.text = run[i].text
    BY <1>2 DEF Runs
  <2>2. run' = [run EXCEPT ![i] = x]
    BY <1>7
  <2> HIDE DEF x
  <2> QED
    BY <1>3, <2>1, <2>2
<1>8. CASE run' = [run EXCEPT ![i] = Fails(@, "persistence_failed")]
  BY <1>2, <1>3, <1>8
<1>9. \/ run' = [run EXCEPT ![i].pc = "close"]
      \/ \E f : run' = [run EXCEPT ![i].next = @ + 1, ![i].failures = f]
      \/ \E e : \/ run' = [run EXCEPT ![i].next = @ + 1, ![i].existing = @ \cup {e}]
                \/ run' = [run EXCEPT ![i] = [Fails(@, "persistence_failed") EXCEPT !.rest = e]]
      \/ run' = [run EXCEPT ![i] = Fails(@, "persistence_failed")]
  BY DEF Import
<1> QED
  BY <1>4, <1>5, <1>6, <1>7, <1>8, <1>9

LEMMA CompletenessStep ==
  ASSUME CorpusInv, CorpusInv', Completeness, [Next]_vars PROVE Completeness'
<1> USE DEF CorpusInv
<1>0. format' = format /\ \A s : Batch(s)' = Batch(s)
  BY EventsKept, BatchStays
<1>1. CASE run' = run
  <2>1. \A r \in Runs : Complete(r) => Complete(r)'
    BY EventsKept, CompleteStays
  <2>2. \A j \in Importers : run[j] \in Runs
    BY DEF ImportType
  <2> QED
    BY <1>1, <2>1, <2>2 DEF Completeness
<1>2. ASSUME NEW i \in Importers, NEW text, Begin(i, text) PROVE Completeness'
  <2>1. run'[i].pc = "opened" /\ run'[i].next = 1 /\ \A j \in Importers : j # i => run'[j] = run[j]
    BY <1>2 DEF Begin, ImportType, Off
  <2> QED
    BY <2>1, CompletenessFrame DEF Complete
<1>3. ASSUME NEW i \in Importers, Crash(i) PROVE Completeness'
  <2>1. run'[i].pc = "off" /\ \A j \in Importers : j # i => run'[j] = run[j]
    BY <1>3 DEF Crash, ImportType, Off
  <2> QED
    BY <2>1, CompletenessFrame DEF Complete
<1>4. ASSUME NEW i \in Importers, Close(i) PROVE Completeness'
  <2>1. /\ run[i].pc = "close" /\ run'[i].pc = "done" /\ run'[i].text = run[i].text
        /\ run'[i].failures = run[i].failures
        /\ \A j \in Importers : j # i => run'[j] = run[j]
    BY <1>4 DEF Close, ImportType, Off
  <2>2. run[i] \in Runs /\ Complete(run[i])
    BY DEF ImportType, Completeness
  <2>3. Complete(run[i])'
    <3>1. \A r \in Runs : Complete(r) => Complete(r)'
      BY EventsKept, CompleteStays
    <3> DEFINE c(r) == r.failures = {} => ToSet(Batch(r.text)) \subseteq ToSet(corpus')
    <3>2. c(run[i])
      <4>1. \A r \in Runs : Complete(r) /\ r.pc = "close" => c(r)
        BY <1>0, <3>1 DEF Complete
      <4> QED
        BY <2>1, <2>2, <4>1
    <3> QED
      BY <1>0, <2>1, <3>2 DEF Complete
  <2> QED
    BY <2>1, <2>3, CompletenessFrame
<1>5. ASSUME NEW i \in Importers, Lock(i) PROVE Completeness'
  <2>1. \A j \in Importers : j # i => run'[j] = run[j]
    BY <1>5 DEF Lock, ImportType
  <2>2. run[i] \in Runs /\ corpus' = corpus
    BY <1>5 DEF Lock, ImportType
  <2>3. CASE \E code \in Failures : run' = [run EXCEPT ![i] = Fails(@, code)]
    <3>1. run'[i].pc = "close" /\ run'[i].failures # {}
      BY <2>3 DEF Fails, ImportType, Runs
    <3> QED
      BY <2>1, <3>1, CompletenessFrame DEF Complete
  <2>4. CASE run' = [run EXCEPT ![i].pc = "import", ![i].existing = ToSet(corpus) \ {Torn}]
    <3>1. run'[i].pc = "import" /\ run'[i].existing = ToSet(corpus) \ {Torn} /\ run'[i].next = run[i].next
      BY <2>4 DEF ImportType, Runs
    <3>2. run'[i].next = 1
      BY <1>5, <3>1 DEF Lock, Completeness, Complete
    <3>3. ~ \E n \in DOMAIN Batch(run[i].text)' : n < 1
      <4>1. run'[i].text \in Text
        BY DEF ImportType, Runs
      <4>2. Batch(run'[i].text) \in Seq(Events)
        BY <4>1, BatchType
      <4> QED
        BY <1>0, <4>2
    <3>4. run'[i].existing \subseteq ToSet(corpus')
      BY <2>2, <3>1
    <3> QED
      BY <2>1, <3>1, <3>2, <3>3, <3>4, CompletenessFrame DEF Complete
  <2> QED
    BY <1>5, <2>3, <2>4 DEF Lock, Failures
<1>6. ASSUME NEW i \in Importers, Import(i) PROVE Completeness'
  <2> DEFINE r == run[i]
             batch == Batch(r.text)
             e == batch[r.next]
  <2>1. /\ r \in Runs /\ r.pc = "import" /\ r.next \in Nat \ {0}
        /\ r.existing \subseteq ToSet(corpus)
        /\ r.failures = {} => \A n \in DOMAIN batch : n < r.next => batch[n] \in r.existing
    BY <1>6 DEF Import, ImportType, Completeness, Complete, Runs
  <2>2. batch \in Seq(Events) /\ DOMAIN batch = 1 .. Len(batch) /\ Len(batch) \in Nat
    BY <2>1, BatchType DEF Runs
  <2>3. run'[i].text = r.text /\ \A j \in Importers : j # i => run'[j] = run[j]
    BY <1>6, ImportKeepsText
  <2>4. Batch(run[i].text)' = batch
    BY <1>0, <2>3
  <2>5. \A x \in Events : x \in ToSet(corpus) => x \in ToSet(corpus')
    BY EventsKept
  <2> SUFFICES Complete(run[i])'
    BY <2>3, CompletenessFrame
  <2>6. CASE r.next > Len(batch) /\ run' = [run EXCEPT ![i].pc = "close"] /\ corpus' = corpus
    <3>1. run'[i].pc = "close" /\ run'[i].failures = r.failures
      BY <2>6 DEF ImportType, Runs
    <3>2. r.failures = {} => \A n \in DOMAIN batch : batch[n] \in ToSet(corpus')
      BY <2>1, <2>2, <2>6
    <3>3. r.failures = {} => ToSet(batch) \subseteq ToSet(corpus')
      BY <3>2 DEF ToSet
    <3> HIDE DEF batch, r
    <3> QED
      BY <2>4, <3>1, <3>3 DEF Complete
  <2>7. ASSUME r.next <= Len(batch),
               NEW prior, prior = {p \in r.existing : p.id = e.id}, prior # {},
               run' = [run EXCEPT ![i].next = @ + 1,
                        ![i].failures = IF \E p \in prior : Conflicts(p, e)
                                          THEN @ \cup {"identity_conflict"} ELSE @],
               corpus' = corpus
        PROVE  Complete(run[i])'
    <3>1. /\ run'[i].pc = "import" /\ run'[i].existing = r.existing /\ run'[i].next = r.next + 1
          /\ run'[i].failures = {} => r.failures = {} /\ ~\E p \in prior : Conflicts(p, e)
      BY <2>1, <2>7 DEF ImportType, Runs
    <3>2. r.existing \subseteq Events /\ e \in Events
      BY <2>1, <2>2, <2>7 DEF Runs
    <3>3. \A p, q \in Events : p.id = q.id /\ ~Conflicts(p, q) => p = q
      BY DEF Conflicts, Events
    <3> HIDE DEF batch, r, e
    <3>4. run'[i].failures = {} => e \in r.existing
      BY <2>7, <3>1, <3>2, <3>3
    <3> USE DEF e
    <3>5. run'[i].failures = {} => \A n \in DOMAIN batch : n < r.next + 1 => batch[n] \in r.existing
      <4> SUFFICES ASSUME run'[i].failures = {}, NEW n \in DOMAIN batch, n < r.next + 1
                   PROVE  batch[n] \in r.existing
        OBVIOUS
      <4>1. n < r.next \/ n = r.next
        BY <2>1, <2>2
      <4> QED
        BY <2>1, <3>1, <3>4, <4>1
    <3> QED
      BY <2>1, <2>4, <2>7, <3>1, <3>5 DEF Complete
  <2>8. ASSUME r.next <= Len(batch), corpus' = Append(corpus, e),
               run' = [run EXCEPT ![i].next = @ + 1, ![i].existing = @ \cup {e}]
        PROVE  Complete(run[i])'
    <3>1. /\ run'[i].pc = "import" /\ run'[i].existing = r.existing \cup {e}
          /\ run'[i].next = r.next + 1 /\ run'[i].failures = r.failures
      BY <2>1, <2>8 DEF ImportType, Runs
    <3>2. e \in Lines /\ corpus \in Seq(Lines)
      BY <2>2, <2>1, <2>8 DEF ImportType, Lines
    <3>3. ToSet(corpus') = ToSet(corpus) \cup {e}
      <4> HIDE DEF e
      <4> QED
        BY <2>8, <3>2, InToSet
    <3> HIDE DEF batch, r
    <3>4. r.failures = {} => \A n \in DOMAIN batch : n < r.next + 1 => batch[n] \in r.existing \cup {e}
      <4> SUFFICES ASSUME r.failures = {}, NEW n \in DOMAIN batch, n < r.next + 1
                   PROVE  batch[n] \in r.existing \cup {e}
        OBVIOUS
      <4>1. n < r.next \/ n = r.next
        BY <2>1, <2>2
      <4> QED
        BY <2>1, <4>1
    <3> QED
      BY <2>1, <2>4, <3>1, <3>3, <3>4 DEF Complete
  <2>9. CASE \/ run' = [run EXCEPT ![i] = [Fails(@, "persistence_failed") EXCEPT !.rest = e]]
             \/ run' = [run EXCEPT ![i] = Fails(@, "persistence_failed")]
    <3>1. run \in [Importers -> Runs] /\ run[i] \in Runs
      BY DEF ImportType
    <3>2. Fails(run[i], "persistence_failed") \in Runs
      BY <3>1, FailsType DEF Failures
    <3>3. Fails(run[i], "persistence_failed").failures # {}
      BY <3>1 DEF Fails, Runs
    <3>4. Fails(run[i], "persistence_failed").pc = "close"
      BY <3>1, FailsType DEF Failures
    <3> HIDE DEF e
    <3>5. PICK x : /\ run' = [run EXCEPT ![i] = x] /\ x.pc = "close" /\ x.failures # {}
      <4>1. CASE run' = [run EXCEPT ![i] = Fails(@, "persistence_failed")]
        BY <3>3, <3>4, <4>1
      <4>2. CASE run' = [run EXCEPT ![i] = [Fails(@, "persistence_failed") EXCEPT !.rest = e]]
        <5> DEFINE y == [Fails(run[i], "persistence_failed") EXCEPT !.rest = e]
        <5>1. y.pc = "close" /\ y.failures # {}
          BY <3>2, <3>3, <3>4 DEF Runs
        <5>2. run' = [run EXCEPT ![i] = y]
          BY <4>2
        <5> QED
          BY <5>1, <5>2
      <4> QED
        BY <2>9, <4>1, <4>2
    <3>6. run'[i].pc = "close" /\ run'[i].failures # {}
      BY <3>1, <3>5
    <3> QED
      BY <3>6 DEF Complete
  <2> HIDE DEF Complete
  <2>10. \/ r.next > Len(batch) /\ run' = [run EXCEPT ![i].pc = "close"] /\ corpus' = corpus
         \/ \E prior :
              /\ r.next <= Len(batch) /\ prior = {p \in r.existing : p.id = e.id} /\ prior # {}
              /\ run' = [run EXCEPT ![i].next = @ + 1,
                          ![i].failures = IF \E p \in prior : Conflicts(p, e)
                                            THEN @ \cup {"identity_conflict"} ELSE @]
              /\ corpus' = corpus
         \/ /\ r.next <= Len(batch) /\ corpus' = Append(corpus, e)
            /\ run' = [run EXCEPT ![i].next = @ + 1, ![i].existing = @ \cup {e}]
         \/ run' = [run EXCEPT ![i] = [Fails(@, "persistence_failed") EXCEPT !.rest = e]]
         \/ run' = [run EXCEPT ![i] = Fails(@, "persistence_failed")]
    BY <1>6 DEF Import
  <2> HIDE DEF r, batch, e
  <2> QED
    BY <2>6, <2>7, <2>8, <2>9, <2>10
<1>7. (\E row \in Rows : Grow(row) \/ Revise(row)) => run' = run
  BY DEF Grow, Revise
<1> QED
  BY <1>1, <1>2, <1>3, <1>4, <1>5, <1>6, <1>7 DEF Next, vars

LEMMA CompletenessInit == Init => Completeness
  BY DEF Init, Completeness, Complete, Off

\* CleanMeansComplete for any texts: an import without a failure leaves all events of its text in
\* the corpus as the text has them.
THEOREM CleanImportsLoseNothing == Spec => []CleanMeansComplete
<1>1. CorpusInv /\ CorpusInv' /\ Completeness /\ [Next]_vars => Completeness'
  BY CompletenessStep
<1>2. CorpusInv /\ Completeness => CleanMeansComplete
  BY DEF Completeness, Complete, CleanMeansComplete
<1> QED
  BY <1>1, <1>2, CompletenessInit, CorpusAlways, PTL DEF Spec

-----------------------------------------------------------------------------
(* Exports of a session that grows agree.                                  *)

\* What a record becomes depends on the records up to it, and on nothing that follows.
LEMMA EventOfPrefix ==
  ASSUME NEW s \in Text, NEW t \in Text, NEW n \in DOMAIN s, n \in DOMAIN t,
         \A k \in 1 .. n : s[k] = t[k]
  PROVE  Event(s, n) = Event(t, n)
<1>0. n \in Nat /\ n \in 1 .. n /\ 1 .. n - 1 \subseteq 1 .. n
  BY TextDomain
<1>1. s[n] = t[n]
  BY <1>0
<1>2. {k \in 1 .. n : Same(s[k], s[n])} = {k \in 1 .. n : Same(t[k], t[n])}
  BY <1>1
<1>3. Identity(s, n) = Identity(t, n)
  BY <1>1, <1>2 DEF Identity
<1>4. Context(s, n) = Context(t, n)
  <2> DEFINE K == {k \in 1 .. n - 1 : InContext(s[k])}
             L == {k \in 1 .. n - 1 : InContext(t[k])}
  <2>1. K = L
    BY <1>0
  <2>2. K \in SUBSET Nat /\ IsFiniteSet(K)
    BY <1>0, IndexSets
  <2>3. \A j \in DOMAIN InOrder(K) : InOrder(K)[j] \in K
    BY <2>2, InOrderLists
  <2>4. \A k \in K : s[k] = t[k]
    BY <1>0
  <2>5. /\ Context(s, n) = [j \in DOMAIN InOrder(K) |-> Message(s[InOrder(K)[j]])]
        /\ Context(t, n) = [j \in DOMAIN InOrder(L) |-> Message(t[InOrder(L)[j]])]
    BY DEF Context
  <2> HIDE DEF K, L
  <2> QED
    BY <2>1, <2>3, <2>4, <2>5
<1> QED
  BY <1>1, <1>3, <1>4 DEF Event

\* The ids of a session are used once, and records without one differ in OpenCode.
Distinct(s) ==
  \A m, n \in DOMAIN s :
    (m < n /\ s[m] # Bad /\ s[n] # Bad) =>
      IF s[n].id = None THEN format = "opencode" => s[m] # s[n] ELSE s[m].id # s[n].id

LEMMA IdentityOfOne ==
  ASSUME NEW s \in Text, Distinct(s), format \in Formats,
         NEW m \in Chosen(s), NEW n \in Chosen(s), m < n
  PROVE  Identity(s, m) # Identity(s, n)
<1> SUFFICES ASSUME Identity(s, m) = Identity(s, n) PROVE FALSE
  OBVIOUS
<1>1. /\ m \in DOMAIN s /\ n \in DOMAIN s /\ s[m] # Bad /\ s[n] # Bad
      /\ Answers(s[m]) /\ Answers(s[n]) /\ s[m].timed /\ s[n].timed
  BY DEF Chosen, Answers, Parsed
<1>2. s[m] \in RowType /\ s[n] \in RowType /\ m \in Nat /\ n \in Nat
  BY <1>1, TextElement DEF Parsed
<1>3. s[m].kind = s[n].kind /\ s[m].id = s[n].id
  BY DEF Identity
<1>4. s[n].id = None
  BY <1>1, <1>3 DEF Distinct
<1>5. s[m].says = s[n].says
  BY <1>3, <1>4 DEF Identity
<1>6. CASE format = "codex"
  <2> DEFINE A == {k \in 1 .. m : Same(s[k], s[m])}
             B == {k \in 1 .. n : Same(s[k], s[n])}
  <2>1. Message(s[m]) = Message(s[n])
    BY <1>3, <1>5 DEF Message
  <2>2. A \subseteq B /\ n \in B /\ n \notin A
    BY <1>1, <1>2, <1>3, <1>4, <2>1 DEF Same
  <2>3. IsFiniteSet(A) /\ IsFiniteSet(B)
    BY <1>2, IndexSets
  <2>4. Cardinality(A) = Cardinality(B)
    BY <1>3, <1>4, <1>6 DEF Identity
  <2> HIDE DEF A, B
  <2> QED
    BY <2>2, <2>3, <2>4, FS_Subset
<1>7. CASE format = "opencode"
  <2>1. s[m] # s[n]
    BY <1>1, <1>4, <1>7 DEF Distinct
  <2>2. s[m].timed = s[n].timed
    BY <1>1, <1>2 DEF RowType
  <2> QED
    BY <1>2, <1>3, <1>5, <2>1, <2>2 DEF RowType
<1> QED
  BY <1>6, <1>7, HistoryImportAssumption DEF HistoryImportAssumption

\* The events of the session so far.
Known == {Event(session, n) : n \in Chosen(session)}

\* In a session an identity stands for one event.
LEMMA KnownByIdentity ==
  ASSUME CorpusInv, Distinct(session), NEW p \in Known, NEW e \in Known, p.id = e.id
  PROVE  p = e
<1>1. session \in Text /\ format \in Formats
  BY DEF CorpusInv, ImportType
<1>2. PICK m \in Chosen(session) : p = Event(session, m)
  BY DEF Known
<1>3. PICK n \in Chosen(session) : e = Event(session, n)
  BY DEF Known
<1>4. Identity(session, m) = Identity(session, n)
  BY <1>2, <1>3 DEF Event
<1>5. m \in Nat /\ n \in Nat
  BY <1>1, TextDomain DEF Chosen
<1>6. ~(m < n) /\ ~(n < m)
  BY <1>1, <1>4, IdentityOfOne
<1> QED
  BY <1>2, <1>3, <1>5, <1>6

\* An import that meets nothing but events of the session.
Faithful(r) ==
  /\ \A n \in Chosen(r.text) : Event(r.text, n) \in Known
  /\ r.existing \subseteq Known
  /\ r.rest \in Known \cup {None}
  /\ "identity_conflict" \notin r.failures

Growth ==
  ~revised => /\ Distinct(session)
              /\ \A k \in DOMAIN corpus : corpus[k] \in Known \cup {Torn}
              /\ \A i \in Importers : Faithful(run[i])

LEMMA GrowthInit == Init => Growth
<1> SUFFICES ASSUME Init PROVE Growth
  OBVIOUS
<1>1. Distinct(session) /\ corpus = <<>>
  BY DEF Init, Distinct
<1>2. \A i \in Importers : Faithful(run[i])
  BY DEF Init, Off, Faithful, Chosen
<1> QED
  BY <1>1, <1>2 DEF Growth

LEMMA KnownGrows ==
  ASSUME CorpusInv, NEW row \in Rows, Grow(row)
  PROVE  Known \subseteq Known' /\ (Distinct(session) => Distinct(session)')
<1>1. /\ session \in Text /\ row \in RowType \cup {Bad} /\ Fresh(row)
      /\ session' = Append(session, row) /\ format' = format
  BY DEF CorpusInv, ImportType, Grow
<1> DEFINE L == Len(session)
<1>2. /\ L \in Nat /\ DOMAIN session = 1 .. L /\ DOMAIN session' = 1 .. L + 1
      /\ \A k \in 1 .. L : session'[k] = session[k]
      /\ session'[L + 1] = row /\ session' \in Text
  BY <1>1, AppendProperties, LenProperties DEF Text
<1> HIDE DEF L
<1>3. Known \subseteq Known'
  <2> SUFFICES ASSUME NEW n \in Chosen(session)
               PROVE  Event(session, n) \in Known'
    BY DEF Known
  <2>1. n \in 1 .. L /\ n \in DOMAIN session' /\ Answers(session[n]) /\ session[n].timed
    BY <1>2 DEF Chosen
  <2>2. n \in Chosen(session')
    BY <1>2, <2>1 DEF Chosen
  <2>3. \A k \in 1 .. n : session[k] = session'[k]
    BY <1>2, <2>1
  <2>4. Event(session, n) = Event(session', n)
    BY <1>1, <1>2, <2>1, <2>3, EventOfPrefix
  <2>5. \A t, k : Event(t, k)' = Event(t, k)
    BY <1>1, EventStays
  <2>6. Event(session, n)' = Event(session', n)
    BY <2>5
  <2> QED
    BY <2>2, <2>4, <2>6 DEF Known
<1>4. ASSUME Distinct(session) PROVE Distinct(session)'
  <2> SUFFICES ASSUME NEW m \in DOMAIN session', NEW n \in DOMAIN session',
                      m < n, session'[m] # Bad, session'[n] # Bad
               PROVE  IF session'[n].id = None
                        THEN format' = "opencode" => session'[m] # session'[n]
                        ELSE session'[m].id # session'[n].id
    BY DEF Distinct
  <2>1. m \in 1 .. L /\ (n \in 1 .. L \/ n = L + 1)
    BY <1>2
  <2> QED
    BY <1>1, <1>2, <1>4, <2>1 DEF Distinct, Fresh
<1> QED
  BY <1>3, <1>4

\* No step but a revision takes an event from the session.
LEMMA KnownKept ==
  ASSUME CorpusInv, [Next]_vars, Growth, ~revised'
  PROVE  /\ ~revised /\ format' = format
         /\ Known \subseteq Known'
         /\ Distinct(session)'
<1>1. format' = format
  BY EventsKept
<1>2. CASE UNCHANGED <<session, revised>>
  <2>1. \A t, k : Event(t, k)' = Event(t, k)
    BY <1>1, EventStays
  <2>2. \A n : Event(session, n)' = Event(session, n)
    BY <1>2, <2>1
  <2>3. Known' = Known
    BY <1>2, <2>2 DEF Known
  <2>4. Distinct(session)' <=> Distinct(session)
    BY <1>1, <1>2 DEF Distinct
  <2> QED
    BY <1>1, <1>2, <2>3, <2>4 DEF Growth
<1>3. CASE \E row \in Rows : Grow(row)
  BY <1>1, <1>3, KnownGrows DEF Growth, Grow
<1>4. (\E row \in Rows : Revise(row)) => revised'
  BY DEF Revise
<1>5. \A i \in Importers : (\E text : Begin(i, text)) \/ Lock(i) \/ Close(i) \/ Crash(i)
                              => UNCHANGED <<session, revised>>
  BY DEF Begin, Lock, Close, Crash
<1>6. \A i \in Importers : Import(i) => UNCHANGED <<session, revised>>
  BY DEF Import
<1> QED
  BY <1>2, <1>3, <1>4, <1>5, <1>6 DEF Next, vars

\* An import stays faithful while the session grows.
LEMMA FaithfulStays ==
  ASSUME format' = format, Known \subseteq Known'
  PROVE  \A r : Faithful(r) => Faithful(r)'
<1>1. \A t, k : Event(t, k)' = Event(t, k)
  BY EventStays
<1> QED
  BY <1>1 DEF Faithful

\* What a text that is exported holds is in the session.
LEMMA TextOfSession ==
  ASSUME CorpusInv, session # <<>>, NEW text \in {session, CutText(session)}
  PROVE  \A n \in Chosen(text) : Event(text, n) \in Known
<1>1. session \in Text /\ text \in Text
  BY CutTextType DEF CorpusInv, ImportType
<1>2. CASE text = session
  BY <1>2 DEF Known
<1>3. CASE text = [session EXCEPT ![Len(session)] = Bad]
  <2>1. /\ DOMAIN text = DOMAIN session /\ DOMAIN session = 1 .. Len(session)
        /\ Len(session) \in DOMAIN session /\ Len(session) \in Nat
        /\ \A k \in DOMAIN text : k # Len(session) => text[k] = session[k]
        /\ text[Len(session)] = Bad
    BY <1>1, <1>3, TextDomain, EmptySeq DEF Text
  <2> SUFFICES ASSUME NEW n \in Chosen(text) PROVE Event(text, n) \in Known
    OBVIOUS
  <2>2. n \in DOMAIN text /\ n # Len(session) /\ Answers(text[n]) /\ text[n].timed
    BY <2>1 DEF Chosen, Answers, Parsed
  <2>3. \A k \in 1 .. n : text[k] = session[k]
    BY <2>1, <2>2
  <2>4. n \in Chosen(session)
    BY <2>1, <2>2 DEF Chosen
  <2>5. Event(text, n) = Event(session, n)
    BY <1>1, <2>1, <2>2, <2>3, EventOfPrefix
  <2> QED
    BY <2>4, <2>5 DEF Known
<1>4. CASE text = <<Bad>>
  BY <1>4 DEF Chosen, Answers, Parsed
<1> QED
  BY <1>2, <1>3, <1>4 DEF CutText

LEMMA BatchKnown ==
  ASSUME NEW r \in Runs, Faithful(r), NEW k \in DOMAIN Batch(r.text)
  PROVE  Batch(r.text)[k] \in Known
  BY BatchType DEF Faithful, Runs

LEMMA KnownAreEvents == CorpusInv => Known \subseteq Events
<1> SUFFICES ASSUME CorpusInv, NEW n \in Chosen(session) PROVE Event(session, n) \in Events
  BY DEF Known
<1> QED
  BY EventType DEF Chosen, CorpusInv, ImportType

\* A step of one importer.
LEMMA GrowthFrame ==
  ASSUME CorpusInv, [Next]_vars, Growth, ~revised', NEW i \in Importers, NEW r,
         Faithful(r), run' = [run EXCEPT ![i] = r],
         \A k \in DOMAIN corpus' : corpus'[k] \in Known \cup {Torn}
  PROVE  Growth'
<1>1. ~revised /\ format' = format /\ Known \subseteq Known' /\ Distinct(session)'
  BY KnownKept
<1>2. \A x : Faithful(x) => Faithful(x)'
  BY <1>1, FaithfulStays
<1>3. run \in [Importers -> Runs]
  BY DEF CorpusInv, ImportType
<1>4. ASSUME NEW j \in Importers PROVE Faithful(run[j])'
  <2>1. CASE j = i
    BY <1>2, <1>3, <2>1
  <2>2. CASE j # i
    <3>1. Faithful(run[j]) /\ run'[j] = run[j]
      BY <1>1, <1>3, <2>2 DEF Growth
    <3> QED
      BY <1>2, <3>1
  <2> QED
    BY <2>1, <2>2
<1> QED
  BY <1>1, <1>4 DEF Growth

LEMMA OffFaithful ==
  ASSUME NEW text, NEW f, "identity_conflict" \notin f, NEW c,
         \A n \in Chosen(text) : Event(text, n) \in Known
  PROVE  Faithful([Off EXCEPT !.pc = c, !.text = text, !.failures = f])
  BY DEF Faithful, Off

LEMMA FailsFaithful ==
  ASSUME NEW r \in Runs, Faithful(r), NEW code \in Failures \ {"identity_conflict"}
  PROVE  /\ Faithful(Fails(r, code))
         /\ \A e \in Known : Faithful([Fails(r, code) EXCEPT !.rest = e])
<1>1. "identity_conflict" \notin r.failures \cup {code}
  BY DEF Faithful
<1> QED
  BY <1>1 DEF Faithful, Fails, Runs

LEMMA OffIsFaithful == Faithful(Off)
  BY DEF Faithful, Off, Chosen

LEMMA AppendKnown ==
  ASSUME CorpusInv, Growth, ~revised, NEW x \in Known \cup {Torn}, corpus' = Append(corpus, x)
  PROVE  \A k \in DOMAIN corpus' : corpus'[k] \in Known \cup {Torn}
<1>1. corpus \in Seq(Lines) /\ x \in Lines
  BY KnownAreEvents DEF CorpusInv, ImportType, Lines
<1>2. /\ DOMAIN corpus = 1 .. Len(corpus) /\ DOMAIN corpus' = 1 .. Len(corpus) + 1 /\ Len(corpus) \in Nat
      /\ \A k \in DOMAIN corpus : corpus'[k] = corpus[k]
      /\ corpus'[Len(corpus) + 1] = x
  BY <1>1, AppendLine
<1>3. \A k \in DOMAIN corpus' : k \in DOMAIN corpus \/ k = Len(corpus) + 1
  BY <1>2
<1> QED
  BY <1>2, <1>3 DEF Growth

LEMMA GrowthStep ==
  ASSUME CorpusInv, Growth, [Next]_vars, ~revised' PROVE Growth'
<1>1. /\ ~revised /\ format' = format /\ Known \subseteq Known' /\ Distinct(session)'
      /\ \A x : Faithful(x) => Faithful(x)'
  BY KnownKept, FaithfulStays
<1>2. /\ run \in [Importers -> Runs]
      /\ \A k \in DOMAIN corpus : corpus[k] \in Known \cup {Torn}
      /\ \A i \in Importers : Faithful(run[i])
  BY <1>1 DEF CorpusInv, ImportType, Growth
<1>3. CASE UNCHANGED <<corpus, run>>
  BY <1>1, <1>2, <1>3 DEF Growth
<1>4. ASSUME NEW i \in Importers, NEW text, Begin(i, text) PROVE Growth'
  <2>1. \A n \in Chosen(text) : Event(text, n) \in Known
    BY <1>4, TextOfSession DEF Begin
  <2>2. "identity_conflict" \notin BatchFailures(text)
    BY DEF BatchFailures
  <2>3. Faithful([Off EXCEPT !.pc = "opened", !.text = text, !.failures = BatchFailures(text)])
    BY <2>1, <2>2, OffFaithful
  <2> QED
    BY <1>1, <1>2, <1>4, <2>3, GrowthFrame DEF Begin
<1>5. ASSUME NEW i \in Importers, Lock(i) PROVE Growth'
  <2>1. CASE \E code \in Failures \ {"identity_conflict"} : run' = [run EXCEPT ![i] = Fails(@, code)]
    <3>1. PICK code \in Failures \ {"identity_conflict"} : run' = [run EXCEPT ![i] = Fails(run[i], code)]
      BY <2>1
    <3>2. Faithful(Fails(run[i], code))
      BY <1>2, FailsFaithful
    <3> QED
      BY <1>1, <1>2, <1>5, <3>1, <3>2, GrowthFrame DEF Lock
  <2>2. CASE run' = [run EXCEPT ![i].pc = "import", ![i].existing = ToSet(corpus) \ {Torn}]
    <3> DEFINE r == [run[i] EXCEPT !.pc = "import", !.existing = ToSet(corpus) \ {Torn}]
    <3>1. ToSet(corpus) \ {Torn} \subseteq Known
      BY <1>2 DEF ToSet
    <3>2. Faithful(r)
      BY <1>2, <3>1 DEF Faithful, Runs
    <3>3. run' = [run EXCEPT ![i] = r] /\ corpus' = corpus
      BY <1>2, <1>5, <2>2 DEF Lock
    <3> HIDE DEF r
    <3> QED
      BY <1>1, <1>2, <3>2, <3>3, GrowthFrame
  <2> QED
    BY <1>5, <2>1, <2>2 DEF Lock, Failures
<1>6. ASSUME NEW i \in Importers, Import(i) PROVE Growth'
  <2> DEFINE batch == Batch(run[i].text)
             e == batch[run[i].next]
  <2>1. run[i] \in Runs /\ Faithful(run[i]) /\ run[i].next \in Nat \ {0}
    BY <1>2 DEF Runs
  <2>2. batch \in Seq(Events) /\ \A k \in DOMAIN batch : batch[k] \in Known
    BY <2>1, BatchType, BatchKnown DEF Runs
  <2>3. run[i].next <= Len(batch) => e \in Known
    BY <2>1, <2>2, LenProperties
  <2>4. ASSUME NEW r, run' = [run EXCEPT ![i] = r], Faithful(r),
               corpus' = corpus \/ \E x \in Known \cup {Torn} : corpus' = Append(corpus, x)
        PROVE  Growth'
    <3>1. \A k \in DOMAIN corpus' : corpus'[k] \in Known \cup {Torn}
      BY <1>1, <1>2, <2>4, AppendKnown
    <3> QED
      BY <1>1, <2>4, <3>1, GrowthFrame
  <2> HIDE DEF e, batch
  <2>5. CASE run' = [run EXCEPT ![i].pc = "close"] /\ corpus' = corpus
    <3> DEFINE r == [run[i] EXCEPT !.pc = "close"]
    <3>1. run' = [run EXCEPT ![i] = r]
      BY <1>2, <2>5
    <3>2. Faithful(r)
      BY <2>1 DEF Faithful, Runs
    <3> HIDE DEF r
    <3> QED
      BY <2>4, <2>5, <3>1, <3>2
  <2>6. ASSUME run[i].next <= Len(batch), corpus' = corpus,
               NEW prior, prior = {p \in run[i].existing : p.id = e.id},
               run' = [run EXCEPT ![i].next = @ + 1,
                        ![i].failures = IF \E p \in prior : Conflicts(p, e)
                                          THEN @ \cup {"identity_conflict"} ELSE @]
        PROVE  Growth'
    <3> DEFINE r == [run[i] EXCEPT !.next = @ + 1]
    <3>1. ~\E p \in prior : Conflicts(p, e)
      <4> SUFFICES ASSUME NEW p \in prior PROVE ~Conflicts(p, e)
        OBVIOUS
      <4>1. p \in Known /\ p.id = e.id
        BY <2>1, <2>6 DEF Faithful
      <4>2. e \in Known /\ Distinct(session)
        BY <1>1, <2>3, <2>6 DEF Growth
      <4>3. p = e
        BY <4>1, <4>2, KnownByIdentity
      <4> QED
        BY <4>3 DEF Conflicts
    <3>2. run' = [run EXCEPT ![i].next = @ + 1, ![i].failures = @]
      BY <2>6, <3>1
    <3>3. run' = [run EXCEPT ![i] = r]
      BY <1>2, <2>1, <3>2 DEF Runs
    <3>4. Faithful(r)
      BY <2>1 DEF Faithful, Runs
    <3> HIDE DEF r
    <3> QED
      BY <2>4, <2>6, <3>3, <3>4
  <2>7. CASE /\ run[i].next <= Len(batch) /\ corpus' = Append(corpus, e)
             /\ run' = [run EXCEPT ![i].next = @ + 1, ![i].existing = @ \cup {e}]
    <3> DEFINE r == [run[i] EXCEPT !.next = @ + 1, !.existing = @ \cup {e}]
    <3>1. run' = [run EXCEPT ![i] = r]
      BY <1>2, <2>7
    <3>2. Faithful(r)
      BY <2>1, <2>3, <2>7 DEF Faithful, Runs
    <3> HIDE DEF r
    <3> QED
      BY <2>3, <2>4, <2>7, <3>1, <3>2
  <2>8. CASE /\ run[i].next <= Len(batch) /\ corpus' \in PartWritten(corpus)
             /\ run' = [run EXCEPT ![i] = [Fails(@, "persistence_failed") EXCEPT !.rest = e]]
    <3> DEFINE r == [Fails(run[i], "persistence_failed") EXCEPT !.rest = e]
    <3>1. run' = [run EXCEPT ![i] = r]
      BY <2>8
    <3>2. Faithful(r)
      BY <2>1, <2>3, <2>8, FailsFaithful DEF Failures
    <3> HIDE DEF r
    <3> QED
      BY <2>4, <2>8, <3>1, <3>2 DEF PartWritten
  <2>9. CASE /\ run[i].next <= Len(batch) /\ corpus' = Append(corpus, e)
             /\ run' = [run EXCEPT ![i] = Fails(@, "persistence_failed")]
    <3>1. Faithful(Fails(run[i], "persistence_failed"))
      BY <2>1, FailsFaithful DEF Failures
    <3>2. run' = [run EXCEPT ![i] = Fails(run[i], "persistence_failed")]
      BY <2>9
    <3> QED
      BY <2>3, <2>4, <2>9, <3>1, <3>2
  <2> USE DEF e, batch
  <2>10. \/ run' = [run EXCEPT ![i].pc = "close"] /\ corpus' = corpus
         \/ \E prior :
              /\ run[i].next <= Len(batch) /\ corpus' = corpus
              /\ prior = {p \in run[i].existing : p.id = e.id}
              /\ run' = [run EXCEPT ![i].next = @ + 1,
                          ![i].failures = IF \E p \in prior : Conflicts(p, e)
                                            THEN @ \cup {"identity_conflict"} ELSE @]
         \/ /\ run[i].next <= Len(batch) /\ corpus' = Append(corpus, e)
            /\ run' = [run EXCEPT ![i].next = @ + 1, ![i].existing = @ \cup {e}]
         \/ /\ run[i].next <= Len(batch) /\ corpus' \in PartWritten(corpus)
            /\ run' = [run EXCEPT ![i] = [Fails(@, "persistence_failed") EXCEPT !.rest = e]]
         \/ /\ run[i].next <= Len(batch) /\ corpus' = Append(corpus, e)
            /\ run' = [run EXCEPT ![i] = Fails(@, "persistence_failed")]
    BY <1>6 DEF Import
  <2> HIDE DEF batch, e
  <2> QED
    BY <2>5, <2>6, <2>7, <2>8, <2>9, <2>10
<1>7. ASSUME NEW i \in Importers, Close(i) PROVE Growth'
  <2> DEFINE r == [Off EXCEPT !.pc = "done", !.text = run[i].text, !.failures = run[i].failures]
  <2>1. run[i] \in Runs /\ Faithful(run[i]) /\ run' = [run EXCEPT ![i] = r]
    BY <1>2, <1>7 DEF Close
  <2>2. Faithful(r)
    BY <2>1, OffFaithful DEF Faithful
  <2>3. run[i].rest \in Known \cup {None}
    BY <2>1 DEF Faithful
  <2> HIDE DEF r
  <2>4. CASE run[i].rest # None /\ corpus' = [corpus EXCEPT ![Len(corpus)] = run[i].rest]
    <3>1. \A k \in DOMAIN corpus' : corpus'[k] \in Known \cup {Torn}
      <4>1. DOMAIN corpus' = DOMAIN corpus
        BY <2>4
      <4>2. \A k \in DOMAIN corpus : corpus'[k] = corpus[k] \/ corpus'[k] = run[i].rest
        BY <2>4
      <4> QED
        BY <1>2, <2>3, <2>4, <4>1, <4>2
    <3> QED
      BY <1>1, <2>1, <2>2, <3>1, GrowthFrame
  <2>5. CASE run[i].rest # None /\ corpus' \in {Append(corpus, run[i].rest), Append(corpus, Torn)}
    <3>1. \A k \in DOMAIN corpus' : corpus'[k] \in Known \cup {Torn}
      BY <1>1, <2>3, <2>5, AppendKnown
    <3> QED
      BY <1>1, <2>1, <2>2, <3>1, GrowthFrame
  <2>6. CASE UNCHANGED corpus
    BY <1>1, <1>2, <2>1, <2>2, <2>6, GrowthFrame
  <2> QED
    BY <1>7, <2>4, <2>5, <2>6 DEF Close
<1>8. ASSUME NEW i \in Importers, Crash(i) PROVE Growth'
  <2>1. run' = [run EXCEPT ![i] = Off] /\ Faithful(Off)
    BY <1>8, OffIsFaithful DEF Crash
  <2>2. \A k \in DOMAIN corpus' : corpus'[k] \in Known \cup {Torn}
    <3>1. corpus' = corpus \/ corpus' = Append(corpus, Torn)
      BY <1>8 DEF Crash, PartWritten
    <3> QED
      BY <1>1, <1>2, <3>1, AppendKnown
  <2> QED
    BY <1>1, <2>1, <2>2, GrowthFrame
<1>9. (\E row \in Rows : Grow(row) \/ Revise(row)) => UNCHANGED <<corpus, run>>
  BY DEF Grow, Revise
<1> QED
  BY <1>3, <1>4, <1>5, <1>6, <1>7, <1>8, <1>9 DEF Next, vars

\* GrowthNeverConflicts for any session: exports of a session that only grows never conflict, be
\* they old, cut short or with records that failed.
THEOREM GrownSessionsAgree == Spec => []GrowthNeverConflicts
<1>1. CorpusInv /\ Growth /\ [Next]_vars => Growth'
  BY GrowthStep DEF Growth
<1>2. Growth => GrowthNeverConflicts
  BY DEF Growth, Faithful, GrowthNeverConflicts
<1> QED
  BY <1>1, <1>2, GrowthInit, CorpusAlways, PTL DEF Spec

HIDE ImportBounds

-----------------------------------------------------------------------------
(* DatasetExport: the first numbers of a set, and the pages.               *)

LEMMA ExportBounds ==
  /\ Assertions \subseteq Nat \ {0} /\ IsFiniteSet(Assertions)
  /\ Foreign \subseteq Requests /\ Task \notin Requests
  /\ Absent \notin Requests /\ Absent # Task
  /\ Window \in Nat \ {0} /\ PageSize \in Nat \ {0} /\ MaxChanges \in Nat
  /\ Options \subseteq OptionType
  BY DatasetExportAssumption DEF DatasetExportAssumption

\* The first n numbers of S are those of a rank up to n.
LEMMA FirstOfRanks ==
  ASSUME NEW S \in SUBSET Nat, IsFiniteSet(S), NEW n \in Nat
  PROVE  /\ FirstOf(S, n) = {a \in S : Rank(S, a) <= n}
         /\ FirstOf(S, n) \in SUBSET Nat /\ IsFiniteSet(FirstOf(S, n))
<1>1. ASSUME NEW a \in S
      PROVE  Cardinality({b \in S : b < a}) < n <=> Rank(S, a) <= n
  <2> DEFINE U == {b \in S : b <= a}
  <2>1. IsFiniteSet(U) /\ a \in U
    BY FS_Subset
  <2>2. {b \in S : b < a} = U \ {a}
    <3>1. \A b \in S : b < a <=> b <= a /\ b # a
      OBVIOUS
    <3> QED
      BY <3>1
  <2>3. Cardinality(U \ {a}) = Cardinality(U) - 1 /\ Cardinality(U) \in Nat
    <3> HIDE DEF U
    <3> QED
      BY <2>1, FS_RemoveElement, FS_CardinalityType
  <2>4. Rank(S, a) = Cardinality(U)
    BY DEF Rank
  <2> HIDE DEF U
  <2> QED
    BY <2>2, <2>3, <2>4
<1>2. FirstOf(S, n) = {a \in S : Rank(S, a) <= n}
  BY <1>1 DEF FirstOf
<1>3. FirstOf(S, n) \subseteq S
  BY DEF FirstOf
<1> QED
  BY <1>2, <1>3, FS_Subset

\* Who precedes one of the first is one of them.
LEMMA FirstOfDown ==
  ASSUME NEW S \in SUBSET Nat, IsFiniteSet(S), NEW n \in Nat,
         NEW a \in S, NEW b \in FirstOf(S, n), a <= b
  PROVE  a \in FirstOf(S, n)
<1>1. b \in S /\ Rank(S, b) <= n
  BY FirstOfRanks
<1>2. Rank(S, a) \in Nat /\ Rank(S, b) \in Nat
  BY <1>1, RankType
<1>3. Rank(S, a) <= Rank(S, b)
  <2>1. a \in Nat /\ b \in Nat
    BY <1>1
  <2>2. CASE a = b
    BY <1>2, <2>2
  <2>3. CASE a < b
    BY <1>1, <1>2, <2>3, RankGrows
  <2> QED
    BY <2>1, <2>2, <2>3
<1> QED
  BY <1>1, <1>2, <1>3, FirstOfRanks

\* If fewer than n are the first n, they are all.
LEMMA FirstOfAll ==
  ASSUME NEW S \in SUBSET Nat, IsFiniteSet(S), NEW n \in Nat,
         Cardinality(FirstOf(S, n)) < n
  PROVE  FirstOf(S, n) = S
<1> SUFFICES ASSUME NEW a \in S, a \notin FirstOf(S, n) PROVE FALSE
  BY DEF FirstOf
<1> DEFINE F == FirstOf(S, n)
           first == [k \in 1 .. n |-> InOrder(S)[k]]
<1>1. Rank(S, a) \in 1 .. Cardinality(S) /\ Cardinality(S) \in Nat
  BY RankType, FS_CardinalityType
<1>2. n < Rank(S, a)
  BY <1>1, FirstOfRanks
<1>3. 1 .. n \subseteq 1 .. Cardinality(S)
  BY <1>1, <1>2
<1>4. \A k \in 1 .. n : first[k] \in S /\ Rank(S, first[k]) = k
  BY <1>3, InOrderLists
<1>5. \A k \in 1 .. n : first[k] \in F
  BY <1>4, FirstOfRanks
<1>6. IsFiniteSet(F)
  BY FirstOfRanks
<1> HIDE DEF F
<1>7. first \in Injection(1 .. n, F)
  BY <1>4, <1>5 DEF Injection, IsInjective
<1>8. Cardinality(1 .. n) <= Cardinality(F) /\ Cardinality(1 .. n) = n
  <2> HIDE DEF first
  <2>1. IsFiniteSet(1 .. n) /\ Cardinality(1 .. n) = n
    BY FS_Interval
  <2> QED
    BY <1>6, <1>7, <2>1, FS_Injection
<1>9. Cardinality(F) \in Nat
  BY <1>6, FS_CardinalityType
<1> QED
  BY <1>8, <1>9 DEF F

LEMMA FirstOfFew ==
  ASSUME NEW S \in SUBSET Nat, IsFiniteSet(S), NEW n \in Nat, Cardinality(S) <= n
  PROVE  FirstOf(S, n) = S
<1>1. \A a \in S : Rank(S, a) \in 1 .. Cardinality(S)
  BY RankType
<1>2. Cardinality(S) \in Nat
  BY FS_CardinalityType
<1>3. ASSUME NEW a \in S PROVE Rank(S, a) <= n
  <2>1. Rank(S, a) \in 1 .. Cardinality(S)
    BY <1>1
  <2> QED
    BY <1>2, <2>1
<1>4. FirstOf(S, n) = {a \in S : Rank(S, a) <= n}
  BY FirstOfRanks
<1> QED
  BY <1>3, <1>4

LEMMA FirstOfSome ==
  ASSUME NEW S \in SUBSET Nat, IsFiniteSet(S), NEW n \in Nat \ {0}, S # {}
  PROVE  FirstOf(S, n) # {}
<1>1. Cardinality(S) \in Nat /\ Cardinality(S) # 0
  BY FS_EmptySet, FS_CardinalityType
<1>2. 1 \in 1 .. Cardinality(S)
  BY <1>1
<1>3. InOrder(S)[1] \in S /\ Rank(S, InOrder(S)[1]) = 1
  BY <1>2, InOrderLists
<1>4. FirstOf(S, n) = {a \in S : Rank(S, a) <= n} /\ 1 <= n
  BY FirstOfRanks
<1> QED
  BY <1>3, <1>4

LEMMA LargestIs ==
  ASSUME NEW S \in SUBSET Nat, IsFiniteSet(S), S # {}
  PROVE  Largest(S) \in S /\ \A b \in S : b <= Largest(S)
<1> DEFINE N == Cardinality(S)
           last == InOrder(S)[N]
<1>1. N \in Nat /\ N # 0
  BY FS_EmptySet, FS_CardinalityType
<1>2. N \in 1 .. N
  BY <1>1
<1>3. last \in S /\ Rank(S, last) = N
  BY <1>2, InOrderLists
<1>4. ASSUME NEW b \in S PROVE b <= last
  <2>1. Rank(S, b) \in 1 .. N
    BY RankType
  <2>2. ~(last < b)
    <3> HIDE DEF last, N
    <3> QED
      BY <1>1, <1>3, <2>1, RankGrows DEF N
  <2> HIDE DEF last
  <2> QED
    BY <1>3, <2>2
<1> HIDE DEF last
<1> QED
  BY <1>3, <1>4 DEF Largest

USE ExportBounds

Ahead   == {a \in Stored : a >= cursor}
PageSet == FirstOf(Accepted, PageSize)
Matches(a) == a \in fits /\ (opts.superseded \/ a \notin replaced)

ExportType ==
  /\ ExportTypeOK
  /\ pc # "off" => opts \in Options

LEMMA PageSets ==
  ASSUME ExportTypeOK
  PROVE  /\ Ahead \in SUBSET Nat /\ IsFiniteSet(Ahead) /\ Ahead \subseteq Assertions
         /\ Candidates \in SUBSET Nat /\ IsFiniteSet(Candidates) /\ Candidates \subseteq Ahead \ {cursor}
         /\ Accepted \in SUBSET Nat /\ IsFiniteSet(Accepted)
         /\ Accepted \subseteq FirstOf(Candidates, Window)
         /\ PageSet \in SUBSET Nat /\ IsFiniteSet(PageSet) /\ PageSet \subseteq Accepted
         /\ FirstOf(Candidates, Window) \subseteq Candidates
         /\ cursor \in Nat
<1>1. Ahead \subseteq Assertions
  BY DEF Ahead, Stored
<1>2. Ahead \in SUBSET Nat /\ IsFiniteSet(Ahead)
  BY <1>1, FS_Subset
<1>3. Candidates \subseteq Ahead \ {cursor}
  BY DEF Candidates, FirstOf, Ahead
<1>4. Candidates \in SUBSET Nat /\ IsFiniteSet(Candidates)
  BY <1>2, <1>3, FS_Subset
<1>5. Accepted \subseteq FirstOf(Candidates, Window) /\ FirstOf(Candidates, Window) \subseteq Candidates
  BY DEF Accepted, FirstOf
<1>6. Accepted \in SUBSET Nat /\ IsFiniteSet(Accepted)
  BY <1>4, <1>5, FS_Subset
<1>7. PageSet \subseteq Accepted
  BY DEF PageSet, FirstOf
<1>8. PageSet \in SUBSET Nat /\ IsFiniteSet(PageSet)
  BY <1>6, <1>7, FS_Subset
<1>9. cursor \in Nat
  BY DEF ExportTypeOK
<1> QED
  BY <1>1, <1>2, <1>3, <1>4, <1>5, <1>6, <1>7, <1>8, <1>9

\* The cursor of the next page is ahead of this one's, and the page is not ahead of it.
LEMMA CursorAdvances ==
  ASSUME ExportTypeOK, NextCursor # 0
  PROVE  NextCursor \in Candidates /\ \A a \in PageSet : a <= NextCursor
<1> USE PageSets
<1> DEFINE W == FirstOf(Candidates, Window)
<1>0. /\ Cardinality(Accepted) \in Nat /\ Cardinality(Candidates) \in Nat
      /\ W \in SUBSET Nat /\ IsFiniteSet(W)
  BY FS_CardinalityType, FS_Subset
<1>1. CASE Cardinality(Accepted) > PageSize
  <2>1. NextCursor = Largest(PageSet)
    BY <1>1 DEF NextCursor, PageSet
  <2>2. Accepted # {}
    BY <1>0, <1>1, FS_EmptySet
  <2>3. PageSet # {}
    BY <2>2, FirstOfSome DEF PageSet
  <2> QED
    BY <2>1, <2>3, LargestIs
<1>2. CASE ~(Cardinality(Accepted) > PageSize)
  <2>1. Cardinality(Candidates) > Window /\ NextCursor = Largest(W)
    BY <1>2 DEF NextCursor
  <2>2. Candidates # {}
    BY <1>0, <2>1, FS_EmptySet
  <2>3. W # {}
    BY <2>2, FirstOfSome
  <2> HIDE DEF W
  <2>4. Largest(W) \in W /\ \A a \in W : a <= Largest(W)
    BY <1>0, <2>3, LargestIs
  <2> USE DEF W
  <2> QED
    BY <2>1, <2>4
<1> QED
  BY <1>1, <1>2

\* Whatever matches ahead of the cursor is on the page or ahead of the next cursor.
LEMMA PageMisses ==
  ASSUME ExportTypeOK, NEW a \in Stored, a > cursor, Matches(a), a \notin PageSet
  PROVE  NextCursor # 0 /\ a > NextCursor
<1> USE PageSets
<1> DEFINE W == FirstOf(Candidates, Window)
<1>0. a \in Nat /\ a \in Ahead
  BY DEF Ahead, Stored
<1>1. ASSUME NEW b \in W, a <= b PROVE a \in Accepted
  <2>1. b \in Candidates /\ b \in FirstOf(Ahead, Window + 2)
    BY DEF Candidates, Ahead
  <2>2. a \in FirstOf(Ahead, Window + 2)
    BY <1>0, <1>1, <2>1, FirstOfDown
  <2>3. a \in Candidates
    BY <1>0, <2>2 DEF Candidates, Ahead
  <2>4. a \in W
    BY <1>1, <2>3, FirstOfDown
  <2> QED
    BY <2>4 DEF Accepted, Matches
<1>2. CASE Cardinality(Accepted) > PageSize
  <2>1. NextCursor = Largest(PageSet)
    BY <1>2 DEF NextCursor, PageSet
  <2>2. Cardinality(Accepted) \in Nat /\ Accepted # {}
    BY <1>2, FS_EmptySet, FS_CardinalityType
  <2>3. PageSet # {}
    BY <2>2, FirstOfSome DEF PageSet
  <2>4. NextCursor \in PageSet
    BY <2>1, <2>3, LargestIs
  <2>5. a <= NextCursor => a \in PageSet
    <3> SUFFICES ASSUME a <= NextCursor PROVE a \in PageSet
      OBVIOUS
    <3>1. a \in Accepted
      BY <1>1, <2>4
    <3> QED
      BY <2>4, <3>1, FirstOfDown DEF PageSet
  <2>6. NextCursor \in Assertions
    BY <2>4
  <2> HIDE DEF W
  <2> QED
    BY <1>0, <2>5, <2>6
<1>3. CASE ~(Cardinality(Accepted) > PageSize)
  <2>1. Cardinality(Accepted) \in Nat /\ Cardinality(Candidates) \in Nat
    BY FS_CardinalityType
  <2>2. Cardinality(Accepted) <= PageSize
    BY <1>3, <2>1
  <2>3. PageSet = Accepted
    BY <2>2, FirstOfFew DEF PageSet
  <2>4. CASE Cardinality(Candidates) > Window
    <3>1. NextCursor = Largest(W)
      BY <1>3, <2>4 DEF NextCursor
    <3>2. Candidates # {}
      BY <2>4, FS_EmptySet
    <3>3. W # {} /\ W \in SUBSET Nat /\ IsFiniteSet(W)
      BY <3>2, FirstOfSome, FS_Subset
    <3>4. NextCursor \in W
      <4> HIDE DEF W
      <4> QED
        BY <3>1, <3>3, LargestIs
    <3>5. ~(a <= NextCursor)
      BY <1>1, <2>3, <3>4
    <3>6. NextCursor \in Assertions
      BY <3>4
    <3> HIDE DEF W
    <3> QED
      BY <1>0, <3>5, <3>6
  <2>5. CASE ~(Cardinality(Candidates) > Window)
    <3> DEFINE F == FirstOf(Ahead, Window + 2)
    <3>1. F \subseteq Ahead /\ IsFiniteSet(F)
      <4>1. F \subseteq Ahead
        BY DEF FirstOf
      <4> QED
        BY <4>1, FS_Subset
    <3>2. Candidates = F \ {cursor}
      BY DEF Candidates, Ahead
    <3> HIDE DEF F
    <3>3. Cardinality(F) \in Nat /\ Cardinality(F) <= Cardinality(Candidates) + 1
      <4>1. Cardinality(F) \in Nat
        BY <3>1, FS_CardinalityType
      <4>2. CASE cursor \in F
        BY <3>1, <3>2, <4>1, <4>2, FS_RemoveElement
      <4>3. CASE cursor \notin F
        <5>1. Candidates = F
          BY <3>2, <4>3
        <5> QED
          BY <4>1, <5>1
      <4> QED
        BY <4>2, <4>3
    <3>4. Cardinality(F) < Window + 2
      BY <2>1, <2>5, <3>3
    <3>5. F = Ahead
      BY <3>4, FirstOfAll DEF F
    <3>6. a \in Candidates
      BY <1>0, <3>2, <3>5
    <3>7. W = Candidates
      <4>1. Cardinality(Candidates) <= Window
        BY <2>1, <2>5
      <4> QED
        BY <4>1, FirstOfFew
    <3>8. a \in W
      BY <3>6, <3>7
    <3>9. a \in Accepted
      BY <1>0, <1>1, <3>8
    <3> QED
      BY <2>3, <3>9
  <2> QED
    BY <2>4, <2>5
<1> QED
  BY <1>2, <1>3

Increasing(s) == \A i, j \in DOMAIN s : i < j => s[i] < s[j]

\* One page after the others.
LEMMA PageAppended ==
  ASSUME ExportTypeOK, Increasing(examples), \A i \in DOMAIN examples : examples[i] <= cursor,
         NEW all, all = examples \o InOrder(PageSet)
  PROVE  /\ all \in Seq(Assertions) /\ Increasing(all)
         /\ ToSet(all) = ToSet(examples) \cup PageSet
<1> USE PageSets
<1> DEFINE N == Cardinality(PageSet)
           L == Len(examples)
           page == InOrder(PageSet)
<1>1. /\ N \in Nat /\ page \in [1 .. N -> PageSet] /\ \A n \in PageSet : page[Rank(PageSet, n)] = n
  BY InOrderLists
<1>2. \A n \in PageSet : Rank(PageSet, n) \in 1 .. N
  BY RankType
<1>3. \A i, j \in 1 .. N : i < j => page[i] < page[j]
  BY InOrderIncreases
<1>4. PageSet \subseteq Assertions /\ \A a \in PageSet : a > cursor
  <2>1. \A a \in PageSet : a \in Assertions /\ a >= cursor /\ a # cursor
    BY DEF Ahead
  <2>2. \A a \in PageSet : a \in Nat
    OBVIOUS
  <2>3. ASSUME NEW a \in PageSet PROVE a > cursor
    <3>1. a \in Nat /\ cursor \in Nat /\ a >= cursor /\ a # cursor
      BY <2>1, <2>2
    <3> QED
      BY <3>1
  <2> QED
    BY <2>1, <2>3
<1>5. examples \in Seq(Assertions) /\ L \in Nat /\ DOMAIN examples = 1 .. L
  BY DEF ExportTypeOK
<1> HIDE DEF page, N
<1>6. page \in [1 .. N -> Assertions]
  BY <1>1, <1>4
<1>7. page \in Seq(Assertions) /\ Len(page) = N
  BY <1>1, <1>6, SeqDef, LenProperties
<1>8. /\ all \in Seq(Assertions) /\ Len(all) = L + N
      /\ \A i \in 1 .. L : all[i] = examples[i]
      /\ \A i \in L + 1 .. L + N : all[i] = page[i - L]
  <2> HIDE DEF L
  <2>1. \A i \in 1 .. L + N : all[i] = IF i <= L THEN examples[i] ELSE page[i - L]
    BY <1>5, <1>7, ConcatProperties DEF page, L
  <2>2. all \in Seq(Assertions) /\ Len(all) = L + N
    BY <1>5, <1>7, ConcatProperties DEF page, L
  <2>3. \A i \in 1 .. L : i \in 1 .. L + N /\ i <= L
    BY <1>1, <1>5
  <2>4. \A i \in L + 1 .. L + N : i \in 1 .. L + N /\ ~(i <= L)
    BY <1>1, <1>5
  <2> QED
    BY <2>1, <2>2, <2>3, <2>4
<1>9. DOMAIN all = 1 .. L + N
  BY <1>8, LenProperties
<1> HIDE DEF L
<1>10. Increasing(all)
  <2> SUFFICES ASSUME NEW i \in 1 .. L + N, NEW j \in 1 .. L + N, i < j PROVE all[i] < all[j]
    BY <1>9 DEF Increasing
  <2>0. i \in Nat /\ j \in Nat
    BY <1>1, <1>5
  <2>1. CASE j <= L
    <3>1. i \in 1 .. L /\ j \in 1 .. L
      BY <1>5, <2>0, <2>1
    <3> QED
      BY <1>5, <1>8, <3>1 DEF Increasing
  <2>2. CASE i <= L /\ ~(j <= L)
    <3>1. i \in 1 .. L /\ j \in L + 1 .. L + N /\ j - L \in 1 .. N
      BY <1>1, <1>5, <2>0, <2>2
    <3>2. all[i] <= cursor /\ all[i] \in Nat
      <4>1. examples[i] \in Assertions /\ i \in DOMAIN examples
        BY <1>5, <3>1, ElementOfSeq
      <4> QED
        BY <1>8, <3>1, <4>1
    <3>3. all[j] > cursor /\ all[j] \in Nat
      BY <1>1, <1>4, <1>8, <3>1
    <3>4. cursor \in Nat
      OBVIOUS
    <3>5. \A x, y, c \in Nat : x <= c /\ y > c => x < y
      OBVIOUS
    <3> QED
      BY <3>2, <3>3, <3>4, <3>5, Zenon
  <2>3. CASE ~(i <= L)
    <3>1. i \in L + 1 .. L + N /\ j \in L + 1 .. L + N
      BY <1>1, <1>5, <2>0, <2>3
    <3>2. i - L \in 1 .. N /\ j - L \in 1 .. N /\ i - L < j - L
      BY <1>1, <1>5, <3>1
    <3>3. page[i - L] < page[j - L]
      BY <1>3, <3>2
    <3>4. all[i] = page[i - L] /\ all[j] = page[j - L]
      BY <1>8, <3>1
    <3> QED
      BY <3>3, <3>4
  <2> QED
    BY <2>1, <2>2, <2>3
<1>11. ToSet(all) = ToSet(examples) \cup PageSet
  <2>1. ASSUME NEW i \in 1 .. L + N PROVE all[i] \in ToSet(examples) \cup PageSet
    <3>1. CASE i \in 1 .. L
      BY <1>5, <1>8, <3>1 DEF ToSet
    <3>2. CASE i \in L + 1 .. L + N
      <4>1. i - L \in 1 .. N
        BY <1>1, <1>5, <3>2
      <4> QED
        BY <1>1, <1>8, <3>2, <4>1
    <3>3. i \in 1 .. L \/ i \in L + 1 .. L + N
      BY <1>1, <1>5
    <3> QED
      BY <3>1, <3>2, <3>3
  <2>2. ASSUME NEW i \in 1 .. L PROVE examples[i] \in ToSet(all)
    <3>1. i \in DOMAIN all
      BY <1>1, <1>5, <1>9
    <3> QED
      BY <1>8, <3>1 DEF ToSet
  <2>3. ASSUME NEW a \in PageSet PROVE a \in ToSet(all)
    <3> DEFINE i == L + Rank(PageSet, a)
    <3>0. Rank(PageSet, a) \in 1 .. N /\ page[Rank(PageSet, a)] = a
      BY <1>1, <1>2
    <3>1. i \in L + 1 .. L + N /\ i \in 1 .. L + N /\ i - L = Rank(PageSet, a)
      BY <1>1, <1>5, <3>0
    <3> HIDE DEF i
    <3>2. all[i] = a
      BY <1>8, <3>0, <3>1
    <3> QED
      BY <1>9, <3>1, <3>2 DEF ToSet
  <2>4. ToSet(all) \subseteq ToSet(examples) \cup PageSet
    BY <1>9, <2>1 DEF ToSet
  <2>5. ToSet(examples) \subseteq ToSet(all)
    BY <1>5, <2>2 DEF ToSet
  <2> QED
    BY <2>3, <2>4, <2>5
<1> QED
  BY <1>8, <1>10, <1>11

\* The first examples of a sequence.
LEMMA CutOff ==
  ASSUME NEW all \in Seq(Assertions), Increasing(all), NEW m \in Nat, m > 0, m <= Len(all)
  PROVE  /\ SubSeq(all, 1, m) \in Seq(Assertions) /\ Increasing(SubSeq(all, 1, m))
         /\ ToSet(SubSeq(all, 1, m)) \subseteq ToSet(all)
<1> DEFINE s == SubSeq(all, 1, m)
<1>1. /\ Len(all) \in Nat /\ DOMAIN all = 1 .. Len(all)
  BY LenProperties
<1>2. 1 \in 1 .. Len(all) + 1 /\ m \in 0 .. Len(all)
  BY <1>1
<1>3. /\ s \in Seq(Assertions) /\ Len(s) = m
      /\ \A i \in 1 .. m : s[i] = all[i]
  BY <1>1, SubSeqProperties
<1>4. DOMAIN s = 1 .. m /\ 1 .. m \subseteq DOMAIN all
  BY <1>1, <1>3, LenProperties
<1> HIDE DEF s
<1> QED
  BY <1>3, <1>4 DEF Increasing, ToSet, s

\* Before the first page.
Unbegun == pc = "off" => cursor = 0 /\ examples = <<>> /\ seen = {}

\* What the export owes and has not exported is ahead of the cursor, and still matches.
OwedAhead ==
  pc = "page" /\ opts.max = 0 =>
    \A a \in due : a \in ToSet(examples) \/ (a > cursor /\ a \in Stored /\ Matches(a))

PageInv == ExportType /\ PagesAdvance /\ Unbegun /\ OwedAhead /\ ExportComplete

LEMMA PageInit == ExportInit => PageInv
<1> SUFFICES ASSUME ExportInit PROVE PageInv
  OBVIOUS
<1>1. ExportTypeOK
  BY DEF ExportInit, ExportTypeOK, Stored
<1> QED
  BY <1>1 DEF ExportInit, PageInv, ExportType, PagesAdvance, Unbegun, OwedAhead, ExportComplete

LEMMA RecordStores ==
  ASSUME ExportTypeOK, NEW a \in Assertions, NEW q \in Requests \cup {Task},
         a \notin Stored, about' = [about EXCEPT ![a] = q]
  PROVE  /\ about' \in [Assertions -> Requests \cup {Task, Absent}]
         /\ Stored' = Stored \cup {a} /\ about'[a] = q
         /\ \A b \in Stored : about'[b] = about[b]
  BY DEF ExportTypeOK, Stored

LEMMA ChangeType == ASSUME ExportTypeOK, Change PROVE changes' \in 0 .. MaxChanges
<1>1. changes \in 0 .. MaxChanges
  BY DEF ExportTypeOK
<1>2. CASE pc = "off"
  BY <1>2 DEF Change
<1>3. CASE pc # "off"
  <2>1. changes' = changes + 1 /\ changes < MaxChanges
    BY <1>3 DEF Change
  <2> QED
    BY <1>1, <2>1
<1> QED
  BY <1>2, <1>3

LEMMA RecordPages ==
  ASSUME PageInv, NEW a \in Assertions, NEW q \in Requests \cup {Task},
         NEW old \in Assertions \cup {0}, NEW ok \in BOOLEAN, Record(a, q, old, ok)
  PROVE  PageInv'
<1> USE DEF PageInv, ExportType
<1>1. /\ about' \in [Assertions -> Requests \cup {Task, Absent}]
      /\ Stored' = Stored \cup {a} /\ a \notin Stored
  <2>1. a \notin Stored /\ about' = [about EXCEPT ![a] = q]
    BY DEF Record
  <2> QED
    BY <2>1, RecordStores
<1>2. /\ replaced' = replaced \cup ({old} \ {0}) /\ (old = 0 \/ old \in Stored)
      /\ fits \subseteq fits' /\ fits' \subseteq fits \cup {a}
      /\ due' = (IF pc = "page" /\ ~opts.superseded /\ old > cursor THEN due \ {old} ELSE due)
      /\ UNCHANGED <<rows, partial, pc, opts, cursor, seen, examples, hashed, captures>>
      /\ Change
  BY DEF Record, corpusVars, exportVars
<1>3. ExportTypeOK'
  <2>1. replaced' \subseteq Stored' /\ fits' \subseteq Stored'
    BY <1>1, <1>2 DEF ExportTypeOK
  <2>2. changes' \in 0 .. MaxChanges
    BY <1>2, ChangeType
  <2>3. due' \subseteq due
    BY <1>2
  <2> QED
    BY <1>1, <1>2, <2>1, <2>2, <2>3 DEF ExportTypeOK
<1>4. PagesAdvance' /\ Unbegun'
  BY <1>2 DEF PagesAdvance, Unbegun
<1>5. OwedAhead'
  <2> SUFFICES ASSUME pc = "page", opts.max = 0, NEW b \in due', b \notin ToSet(examples)
               PROVE  b > cursor /\ b \in Stored' /\ Matches(b)'
    BY <1>2 DEF OwedAhead
  <2>1. b \in due
    BY <1>2
  <2>2. b > cursor /\ b \in Stored /\ Matches(b)
    BY <2>1 DEF OwedAhead
  <2>3. opts.superseded \/ b # old
    BY <1>2, <2>2
  <2>4. Matches(b)'
    BY <1>2, <2>2, <2>3 DEF Matches
  <2> QED
    BY <1>1, <2>2, <2>4
<1>6. ExportComplete'
  BY <1>2 DEF ExportComplete
<1> QED
  BY <1>2, <1>3, <1>4, <1>5, <1>6

LEMMA PagePages == ASSUME PageInv, Page PROVE PageInv'
<1> USE DEF PageInv, ExportType
<1> DEFINE all == examples \o InOrder(PageSet)
<1>0. /\ pc = "page" /\ opts \in Options
      /\ UNCHANGED <<about, replaced, fits, rows, partial, opts, hashed, captures, changes, due>>
  BY DEF Page, kbVars, corpusVars
<1>1. all \in Seq(Assertions) /\ Increasing(all) /\ ToSet(all) = ToSet(examples) \cup PageSet
  <2>1. Increasing(examples) /\ \A i \in DOMAIN examples : examples[i] <= cursor
    BY <1>0 DEF PagesAdvance, Increasing
  <2> QED
    BY <2>1, PageAppended
<1>2. Stored' = Stored
  BY <1>0 DEF Stored
<1>3. CASE opts.max > 0 /\ Len(all) >= opts.max
  <2>1. /\ examples' = SubSeq(all, 1, opts.max) /\ pc' = "hash" /\ UNCHANGED <<cursor, seen>>
    BY <1>3 DEF Page, PageSet
  <2>2. opts.max \in Nat
    BY <1>0 DEF OptionType
  <2> HIDE DEF all
  <2>3. examples' \in Seq(Assertions) /\ Increasing(examples')
    <3>1. Len(all) \in Nat
      BY <1>1, LenProperties
    <3>2. opts.max <= Len(all)
      BY <1>3, <2>2, <3>1
    <3> QED
      BY <1>1, <1>3, <2>1, <2>2, <3>2, CutOff
  <2>4. ExportTypeOK'
    BY <1>0, <1>2, <2>1, <2>3 DEF ExportTypeOK
  <2>5. PagesAdvance' /\ Unbegun' /\ OwedAhead'
    BY <2>1, <2>3 DEF PagesAdvance, Unbegun, OwedAhead, Increasing
  <2>6. ExportComplete'
    <3>1. opts.max # 0
      BY <1>3, <2>2
    <3> QED
      BY <1>0, <3>1 DEF ExportComplete
  <2> QED
    BY <1>0, <2>4, <2>5, <2>6
<1>4. CASE ~(opts.max > 0 /\ Len(all) >= opts.max)
  <2>1. /\ examples' = all
        /\ \/ NextCursor = 0 /\ pc' = "hash" /\ UNCHANGED <<cursor, seen>>
           \/ /\ NextCursor # 0
              /\ pc' = IF NextCursor \in seen THEN "stuck" ELSE "page"
              /\ cursor' = NextCursor /\ seen' = seen \cup {NextCursor}
    BY <1>4 DEF Page, PageSet
  <2> HIDE DEF all
  <2>2. NextCursor # 0 => /\ NextCursor \in Assertions /\ NextCursor > cursor
                          /\ \A a \in PageSet : a <= NextCursor
    <3>1. \A x \in Candidates : x \in Assertions /\ x >= cursor /\ x # cursor
      BY PageSets DEF Ahead
    <3>2. cursor \in Nat
      BY PageSets
    <3>3. NextCursor # 0 => NextCursor \in Candidates /\ \A a \in PageSet : a <= NextCursor
      BY CursorAdvances
    <3>4. \A x \in Assertions : x >= cursor /\ x # cursor => x > cursor
      BY <3>2
    <3> QED
      BY <3>1, <3>3, <3>4
  <2>3. NextCursor \in seen => NextCursor = 0
    <3> SUFFICES ASSUME NextCursor # 0, NextCursor \in seen PROVE FALSE
      OBVIOUS
    <3>1. NextCursor <= cursor
      BY <1>0 DEF PagesAdvance
    <3>2. NextCursor \in Nat /\ cursor \in Nat
      BY <2>2, PageSets
    <3> QED
      BY <2>2, <3>1, <3>2
  <2>4. CASE NextCursor = 0
    <3>1. pc' = "hash" /\ UNCHANGED <<cursor, seen>>
      BY <2>1, <2>4
    <3>2. ExportTypeOK'
      BY <1>0, <1>1, <1>2, <2>1, <3>1 DEF ExportTypeOK
    <3>3. PagesAdvance' /\ Unbegun' /\ OwedAhead'
      BY <1>1, <2>1, <3>1 DEF PagesAdvance, Unbegun, OwedAhead, Increasing
    <3>4. ExportComplete'
      <4> SUFFICES ASSUME opts.max = 0, NEW a \in due PROVE a \in ToSet(all)
        BY <1>0, <2>1 DEF ExportComplete
      <4>1. a \in ToSet(examples) \/ (a > cursor /\ a \in Stored /\ Matches(a))
        BY <1>0 DEF OwedAhead
      <4> QED
        BY <1>1, <2>4, <4>1, PageMisses
    <3> QED
      BY <1>0, <3>2, <3>3, <3>4
  <2>5. CASE NextCursor # 0
    <3>1. pc' = "page" /\ cursor' = NextCursor /\ seen' = seen \cup {NextCursor}
      BY <2>1, <2>3, <2>5
    <3>2. ExportTypeOK'
      BY <1>0, <1>1, <1>2, <2>1, <2>2, <2>5, <3>1 DEF ExportTypeOK
    <3>3. Increasing(examples')
      BY <1>1, <2>1
    <3>4. \A i \in DOMAIN all : all[i] <= NextCursor
      <4> SUFFICES ASSUME NEW i \in DOMAIN all PROVE all[i] <= NextCursor
        OBVIOUS
      <4>1. all[i] \in ToSet(examples) \cup PageSet
        BY <1>1 DEF ToSet
      <4>2. CASE all[i] \in ToSet(examples)
        <5>1. all[i] <= cursor
          BY <1>0, <4>2 DEF PagesAdvance, ToSet
        <5>2. all[i] \in Assertions
          BY <1>1, ElementOfSeq, LenProperties
        <5>3. \A x, c, d \in Nat : x <= c /\ d > c => x <= d
          OBVIOUS
        <5>4. all[i] \in Nat /\ cursor \in Nat /\ NextCursor \in Nat
          BY <2>2, <2>5, <5>2, PageSets
        <5> QED
          BY <2>2, <2>5, <5>1, <5>3, <5>4, Zenon
      <4> QED
        BY <2>2, <2>5, <4>1, <4>2
    <3>5. \A c \in seen' : c <= NextCursor
      <4>0. NextCursor \in Nat /\ NextCursor <= NextCursor
        <5>1. NextCursor \in Nat
          BY <2>2, <2>5
        <5> QED
          BY <5>1
      <4> SUFFICES ASSUME NEW c \in seen PROVE c <= NextCursor
        BY <3>1, <4>0
      <4>1. c <= cursor /\ c \in Nat
        BY <1>0 DEF PagesAdvance, ExportTypeOK
      <4>3. \A x, y, d \in Nat : x <= y /\ d > y => x <= d
        OBVIOUS
      <4>4. cursor \in Nat /\ NextCursor \in Nat
        BY <2>2, <2>5, PageSets
      <4> QED
        BY <2>2, <2>5, <4>1, <4>3, <4>4, Zenon
    <3>6. PagesAdvance' /\ Unbegun'
      BY <2>1, <3>1, <3>3, <3>4, <3>5 DEF PagesAdvance, Unbegun, Increasing
    <3>7. OwedAhead'
      <4> SUFFICES ASSUME opts.max = 0, NEW a \in due, a \notin ToSet(all)
                   PROVE  a > NextCursor /\ a \in Stored /\ Matches(a)
        BY <1>0, <1>2, <2>1, <3>1 DEF OwedAhead, Matches
      <4>1. a > cursor /\ a \in Stored /\ Matches(a) /\ a \notin PageSet
        BY <1>0, <1>1 DEF OwedAhead
      <4> QED
        BY <4>1, PageMisses
    <3>8. ExportComplete'
      BY <3>1 DEF ExportComplete
    <3> QED
      BY <1>0, <3>2, <3>6, <3>7, <3>8
  <2> QED
    BY <2>4, <2>5
<1> QED
  BY <1>3, <1>4

LEMMA PageStep == ASSUME PageInv, [ExportNext]_dataVars PROVE PageInv'
<1> USE DEF PageInv, ExportType
<1>1. ASSUME NEW r \in Requests, BeginRow(r) PROVE PageInv'
  <2>1. /\ partial' = r
        /\ UNCHANGED <<about, replaced, fits, rows, pc, opts, cursor, seen, examples, hashed,
                       captures, changes, due>>
    BY <1>1 DEF BeginRow, kbVars, exportVars
  <2> QED
    BY <2>1 DEF ExportTypeOK, Stored, PagesAdvance, Unbegun, OwedAhead, Matches, ExportComplete
<1>2. CASE EndRow
  <2>1. /\ rows' = Append(rows, partial) /\ partial' = Absent /\ partial # Absent
        /\ UNCHANGED <<about, replaced, fits, pc, opts, cursor, seen, examples, hashed,
                       captures, changes, due>>
    BY <1>2 DEF EndRow, kbVars, exportVars
  <2>2. rows' \in Seq(Requests)
    BY <2>1, AppendProperties DEF ExportTypeOK
  <2> QED
    BY <2>1, <2>2 DEF ExportTypeOK, Stored, PagesAdvance, Unbegun, OwedAhead, Matches, ExportComplete
<1>3. ASSUME NEW a \in Assertions, NEW q \in Requests \cup {Task}, NEW old \in Assertions \cup {0},
             NEW ok \in BOOLEAN, Record(a, q, old, ok)
      PROVE  PageInv'
  BY <1>3, RecordPages
<1>4. ASSUME NEW a \in Assertions, Fit(a) PROVE PageInv'
  <2>1. /\ fits' = fits \cup {a} /\ a \in Stored /\ Change
        /\ UNCHANGED <<about, replaced, rows, partial, pc, opts, cursor, seen, examples, hashed,
                       captures, due>>
    BY <1>4 DEF Fit, corpusVars, exportVars
  <2>2. changes' \in 0 .. MaxChanges
    BY <2>1, ChangeType
  <2> QED
    BY <2>1, <2>2 DEF ExportTypeOK, Stored, PagesAdvance, Unbegun, OwedAhead, Matches, ExportComplete
<1>5. ASSUME NEW o \in Options, BeginExport(o) PROVE PageInv'
  <2>1. /\ pc = "off" /\ pc' = "page" /\ opts' = o
        /\ due' = {a \in fits : o.superseded \/ a \notin replaced}
        /\ UNCHANGED <<about, replaced, fits, rows, partial, cursor, seen, examples, hashed,
                       captures, changes>>
    BY <1>5 DEF BeginExport, kbVars, corpusVars
  <2>2. cursor = 0 /\ examples = <<>> /\ seen = {}
    BY <2>1 DEF Unbegun
  <2>3. fits \subseteq Stored /\ Stored \subseteq Assertions /\ Stored' = Stored
    BY <2>1 DEF ExportTypeOK, Stored
  <2>4. ExportTypeOK'
    BY <2>1, <2>3 DEF ExportTypeOK
  <2>5. PagesAdvance' /\ Unbegun' /\ ExportComplete'
    BY <2>1, <2>2 DEF PagesAdvance, Unbegun, ExportComplete
  <2>6. OwedAhead'
    <3>1. \A a \in fits : a > 0
      BY <2>3
    <3> QED
      BY <2>1, <2>2, <2>3, <3>1 DEF OwedAhead, Matches
  <2> QED
    BY <2>1, <2>4, <2>5, <2>6
<1>6. CASE Page
  BY <1>6, PagePages
<1>7. CASE Hash \/ ReadRows \/ Write
  <2>1. /\ pc \in {"hash", "rows", "check"} /\ pc' \in {"check", "rows", "done", "failed"}
        /\ UNCHANGED <<about, replaced, fits, rows, partial, opts, cursor, seen, examples,
                       changes, due>>
        /\ hashed' \in {hashed, Len(rows)} /\ captures' \in {captures, Wanted \cap ToSet(rows)}
    BY <1>7 DEF Hash, ReadRows, Write, kbVars, corpusVars
  <2>2. hashed' \in Nat /\ captures' \subseteq Requests
    <3>1. rows \in Seq(Requests) /\ hashed \in Nat /\ captures \subseteq Requests
      BY DEF ExportTypeOK
    <3>2. Len(rows) \in Nat
      BY <3>1, LenProperties
    <3>3. ToSet(rows) \subseteq Requests
      BY <3>1 DEF ToSet
    <3> QED
      BY <2>1, <3>1, <3>2, <3>3
  <2> QED
    BY <2>1, <2>2 DEF ExportTypeOK, Stored, PagesAdvance, Unbegun, OwedAhead, ExportComplete
<1>8. CASE UNCHANGED dataVars
  BY <1>8 DEF dataVars, kbVars, corpusVars, exportVars, ExportTypeOK, Stored, PagesAdvance,
              Unbegun, OwedAhead, Matches, ExportComplete
<1> QED
  BY <1>1, <1>2, <1>3, <1>4, <1>5, <1>6, <1>7, <1>8 DEF ExportNext

LEMMA PageAlways == ExportSpec => []PageInv
  BY PageInit, PageStep, PTL DEF ExportSpec

\* PagesSafe for any assertions, windows, page sizes and changes meanwhile: no assertion is exported
\* twice, the cursor advances with every page, and the export is never stuck.
THEOREM PagesAreSafe == ExportSpec => []PagesSafe
<1>1. PageInv => PagesSafe
  BY DEF PageInv, ExportType, PagesSafe
<1> QED
  BY PageAlways, <1>1, PTL

\* ExportComplete for any windows, page sizes and changes meanwhile: what matched from the beginning
\* until the export came to it is in the dataset.
THEOREM ExportsAreComplete == ExportSpec => []ExportComplete
<1>1. PageInv => ExportComplete
  BY DEF PageInv
<1> QED
  BY PageAlways, <1>1, PTL

-----------------------------------------------------------------------------
(* The manifest.                                                           *)

\* The rows that the hash covers.
HashedRows == {rows[k] : k \in 1 .. hashed}

\* An assertion is about a task, about a request of another corpus, or about a row there is.
RowsGround ==
  /\ ToSet(rows) \cap Foreign = {} /\ partial \notin Foreign
  /\ ToSet(examples) \subseteq Stored
  /\ \A a \in Stored : about[a] \in ToSet(rows) \cup Foreign \cup {Task}

\* Once the source is hashed, the examples are about rows that the hash covers.
HashCovers ==
  /\ pc \in {"off", "page", "stuck", "hash", "rows"} => captures = {}
  /\ pc \in {"rows", "check", "done"} =>
       /\ hashed <= Len(rows)
       /\ \A a \in ToSet(examples) : about[a] \in HashedRows \cup Foreign \cup {Task}
       /\ captures \subseteq HashedRows

ManifestInv == RowsGround /\ HashCovers

LEMMA ManifestInit == ExportInit => ManifestInv
<1> SUFFICES ASSUME ExportInit PROVE ManifestInv
  OBVIOUS
<1>1. ToSet(rows) = {} /\ ToSet(examples) = {} /\ partial \notin Foreign /\ Stored = {}
  BY DEF ExportInit, ToSet, Stored
<1> QED
  BY <1>1 DEF ExportInit, ManifestInv, RowsGround, HashCovers

\* Rows that are added change none of those that are there.
LEMMA RowsAdded ==
  ASSUME rows \in Seq(Requests), NEW r \in Requests, rows' = Append(rows, r), hashed' = hashed,
         hashed \in Nat
  PROVE  /\ ToSet(rows') = ToSet(rows) \cup {r}
         /\ hashed <= Len(rows) => hashed <= Len(rows') /\ HashedRows' = HashedRows
<1>1. /\ Len(rows) \in Nat /\ DOMAIN rows = 1 .. Len(rows)
      /\ Len(rows') = Len(rows) + 1 /\ DOMAIN rows' = 1 .. Len(rows) + 1
      /\ \A k \in 1 .. Len(rows) : rows'[k] = rows[k]
      /\ rows'[Len(rows) + 1] = r
  BY AppendProperties, LenProperties
<1>2. ToSet(rows') = ToSet(rows) \cup {r}
  <2>1. \A k \in DOMAIN rows' : k \in DOMAIN rows \/ k = Len(rows) + 1
    BY <1>1
  <2>2. DOMAIN rows \subseteq DOMAIN rows' /\ Len(rows) + 1 \in DOMAIN rows'
    BY <1>1
  <2> QED
    BY <1>1, <2>1, <2>2 DEF ToSet
<1>3. ASSUME hashed <= Len(rows) PROVE hashed <= Len(rows') /\ HashedRows' = HashedRows
  <2>1. 1 .. hashed \subseteq 1 .. Len(rows) /\ hashed <= Len(rows')
    BY <1>1, <1>3
  <2>2. \A k \in 1 .. hashed : rows'[k] = rows[k]
    BY <1>1, <2>1
  <2> QED
    BY <2>1, <2>2 DEF HashedRows
<1> QED
  BY <1>2, <1>3

LEMMA ManifestStep ==
  ASSUME PageInv, PageInv', ManifestInv, [ExportNext]_dataVars PROVE ManifestInv'
<1> USE DEF ManifestInv
<1>0. /\ ExportTypeOK /\ ExportTypeOK' /\ rows \in Seq(Requests) /\ hashed \in Nat
      /\ Len(rows) \in Nat /\ DOMAIN rows = 1 .. Len(rows)
  BY LenProperties DEF PageInv, ExportType, ExportTypeOK
<1>1. ASSUME NEW r \in Requests, BeginRow(r) PROVE ManifestInv'
  <2>1. /\ partial' = r /\ r \notin Foreign
        /\ UNCHANGED <<about, replaced, fits, rows, pc, opts, cursor, seen, examples, hashed,
                       captures, changes, due>>
    BY <1>1 DEF BeginRow, kbVars, exportVars
  <2> QED
    BY <2>1 DEF RowsGround, HashCovers, HashedRows, Stored
<1>2. CASE EndRow
  <2>1. /\ rows' = Append(rows, partial) /\ partial' = Absent /\ partial \in Requests
        /\ UNCHANGED <<about, replaced, fits, pc, opts, cursor, seen, examples, hashed,
                       captures, changes, due>>
    BY <1>0, <1>2 DEF EndRow, kbVars, exportVars, ExportTypeOK
  <2>2. /\ ToSet(rows') = ToSet(rows) \cup {partial}
        /\ hashed <= Len(rows) => hashed <= Len(rows') /\ HashedRows' = HashedRows
    BY <1>0, <2>1, RowsAdded
  <2>3. RowsGround'
    BY <2>1, <2>2 DEF RowsGround, Stored
  <2>4. HashCovers'
    <3> HIDE DEF HashedRows
    <3> QED
      BY <2>1, <2>2 DEF HashCovers
  <2> QED
    BY <2>3, <2>4
<1>3. ASSUME NEW a \in Assertions, NEW q \in Requests \cup {Task}, NEW old \in Assertions \cup {0},
             NEW ok \in BOOLEAN, Record(a, q, old, ok)
      PROVE  ManifestInv'
  <2>1. /\ a \notin Stored /\ about' = [about EXCEPT ![a] = q]
        /\ q \in ToSet(rows) \cup Foreign \cup {Task}
        /\ UNCHANGED <<rows, partial, pc, examples, hashed, captures>>
    BY <1>3 DEF Record, corpusVars, exportVars
  <2>2. /\ Stored' = Stored \cup {a} /\ about'[a] = q
        /\ \A b \in Stored : about'[b] = about[b]
    BY <1>0, <2>1, RecordStores
  <2>3. HashedRows' = HashedRows
    BY <2>1 DEF HashedRows
  <2>4. RowsGround'
    BY <2>1, <2>2 DEF RowsGround
  <2>5. HashCovers'
    BY <2>1, <2>2, <2>3 DEF HashCovers, RowsGround
  <2> QED
    BY <2>4, <2>5
<1>4. CASE (\E a \in Assertions : Fit(a)) \/ (\E o \in Options : BeginExport(o)) \/ UNCHANGED dataVars
  <2>1. /\ UNCHANGED <<about, rows, partial, examples, hashed, captures>>
        /\ pc' = pc \/ (pc = "off" /\ pc' = "page")
    BY <1>4 DEF Fit, BeginExport, dataVars, kbVars, corpusVars, exportVars
  <2> QED
    BY <2>1 DEF RowsGround, HashCovers, HashedRows, Stored
<1>5. CASE Page
  <2>1. /\ UNCHANGED <<about, rows, partial, captures>>
        /\ pc = "page" /\ pc' \in {"page", "stuck", "hash"}
    BY <1>5 DEF Page, kbVars, corpusVars
  <2>2. ToSet(examples') \subseteq Stored
    <3> DEFINE all == examples \o InOrder(PageSet)
    <3>1. /\ all \in Seq(Assertions) /\ Increasing(all) /\ ToSet(all) = ToSet(examples) \cup PageSet
      <4>1. Increasing(examples) /\ \A i \in DOMAIN examples : examples[i] <= cursor
        BY <2>1 DEF PageInv, PagesAdvance, Increasing
      <4> QED
        BY <1>0, <4>1, PageAppended
    <3>2. ToSet(all) \subseteq Stored
      BY <1>0, <3>1, PageSets DEF RowsGround, Ahead
    <3>3. opts.max \in Nat
      BY <2>1 DEF PageInv, ExportType, OptionType
    <3>4. examples' = all \/ (opts.max > 0 /\ Len(all) >= opts.max /\ examples' = SubSeq(all, 1, opts.max))
      BY <1>5 DEF Page, PageSet
    <3> HIDE DEF all
    <3>5. Len(all) \in Nat
      BY <3>1, LenProperties
    <3>6. opts.max > 0 /\ Len(all) >= opts.max => ToSet(SubSeq(all, 1, opts.max)) \subseteq ToSet(all)
      BY <3>1, <3>3, <3>5, CutOff
    <3> QED
      BY <3>2, <3>4, <3>6
  <2> QED
    BY <2>1, <2>2 DEF RowsGround, HashCovers, Stored
<1>6. CASE Hash
  <2>1. /\ UNCHANGED <<about, rows, partial, examples, captures>>
        /\ pc = "hash" /\ pc' \in {"check", "rows"} /\ hashed' = Len(rows)
    BY <1>6 DEF Hash, kbVars, corpusVars
  <2>2. HashedRows' = ToSet(rows)
    BY <1>0, <2>1 DEF HashedRows, ToSet
  <2>3. RowsGround'
    BY <2>1 DEF RowsGround, Stored
  <2>4. hashed' <= Len(rows')
    BY <1>0, <2>1
  <2>5. captures = {} /\ captures' = {}
    BY <2>1 DEF HashCovers
  <2>6. \A a \in ToSet(examples') : about'[a] \in HashedRows' \cup Foreign \cup {Task}
    BY <2>1, <2>2 DEF RowsGround
  <2> QED
    BY <2>3, <2>4, <2>5, <2>6 DEF HashCovers
<1>7. CASE ReadRows
  <2>1. /\ UNCHANGED <<about, rows, partial, examples, hashed>> /\ pc = "rows"
        /\ \/ captures' = Wanted \cap ToSet(rows) /\ pc' = "check"
           \/ pc' = "failed" /\ captures' = captures
    BY <1>7 DEF ReadRows, kbVars, corpusVars
  <2>2. Wanted \cap ToSet(rows) \subseteq HashedRows
    <3>1. Task \notin ToSet(rows)
      BY <1>0 DEF ToSet
    <3> QED
      BY <2>1, <3>1 DEF RowsGround, HashCovers, Wanted
  <2>3. HashedRows' = HashedRows
    BY <2>1 DEF HashedRows
  <2> QED
    BY <2>1, <2>2, <2>3 DEF RowsGround, HashCovers, Stored
<1>8. CASE Write
  <2>1. /\ UNCHANGED <<about, rows, partial, examples, hashed, captures>>
        /\ pc = "check" /\ pc' \in {"done", "failed"}
    BY <1>8 DEF Write, kbVars, corpusVars
  <2> QED
    BY <2>1 DEF RowsGround, HashCovers, HashedRows, Stored
<1> QED
  BY <1>1, <1>2, <1>3, <1>4, <1>5, <1>6, <1>7, <1>8 DEF ExportNext

\* ManifestCovers for any rows that are written meanwhile: each row the dataset quotes is among those
\* that the hash of its manifest covers.
THEOREM ManifestsCoverTheirRows == ExportSpec => []ManifestCovers
<1>1. PageInv /\ ManifestInv => ManifestCovers
  <2> SUFFICES ASSUME PageInv, ManifestInv, pc = "done"
               PROVE  captures \subseteq ToSet(SubSeq(rows, 1, hashed))
    BY DEF ManifestCovers
  <2>1. rows \in Seq(Requests) /\ hashed \in Nat /\ Len(rows) \in Nat /\ hashed <= Len(rows)
    BY LenProperties DEF PageInv, ExportType, ExportTypeOK, ManifestInv, HashCovers
  <2> DEFINE s == SubSeq(rows, 1, hashed)
  <2>2. /\ s \in Seq(Requests) /\ Len(s) = hashed
        /\ \A k \in 1 .. hashed : s[k] = rows[k]
    <3>1. 1 \in 1 .. Len(rows) + 1 /\ hashed \in 0 .. Len(rows)
      BY <2>1
    <3> QED
      BY <2>1, <3>1, SubSeqProperties
  <2>3. DOMAIN s = 1 .. hashed
    BY <2>2, LenProperties
  <2> HIDE DEF s
  <2>4. HashedRows \subseteq ToSet(s)
    BY <2>2, <2>3 DEF HashedRows, ToSet
  <2> QED
    BY <2>4 DEF ManifestInv, HashCovers, s
<1> QED
  BY PageAlways, ManifestInit, ManifestStep, <1>1, PTL DEF ExportSpec
=============================================================================
