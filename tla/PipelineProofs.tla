---------------------------- MODULE PipelineProofs ----------------------------
(***************************************************************************)
(* Proofs about Pipeline, for any batches, any number of workers and any   *)
(* sizes of the queues.                                                    *)
(***************************************************************************)
EXTENDS Pipeline, TLAPS, FiniteSetTheorems, SequenceTheorems

\* How often an element occurs in a sequence is a number, zero if it does not.
LEMMA TimesType ==
    ASSUME NEW S, NEW s \in Seq(S), NEW x
    PROVE  /\ IsFiniteSet(Places(s, x))
           /\ Times(s, x) \in Nat
           /\ Times(s, x) = 0 <=> x \notin ToSet(s)
<1>1. IsFiniteSet(DOMAIN s) BY LenProperties, FS_Interval
<1>2. IsFiniteSet(Places(s, x)) BY <1>1, FS_Subset DEF Places
<1> QED BY <1>2, FS_CardinalityType, FS_EmptySet DEF Times, Places, ToSet

LEMMA TimesEmpty == \A x : Times(<<>>, x) = 0
BY FS_EmptySet DEF Times, Places

LEMMA TimesAppend ==
    ASSUME NEW S, NEW s \in Seq(S), NEW e \in S, NEW x
    PROVE  Times(Append(s, e), x) = Times(s, x) + (IF e = x THEN 1 ELSE 0)
<1> DEFINE t == Append(s, e)
<1>1. /\ Len(s) \in Nat /\ DOMAIN s = 1..Len(s) /\ DOMAIN t = 1..(Len(s) + 1)
      /\ \A i \in 1..Len(s) : t[i] = s[i]
      /\ t[Len(s) + 1] = e
  BY LenProperties, AppendProperties
<1>2. IsFiniteSet(Places(s, x)) /\ Times(s, x) \in Nat BY TimesType
<1>3. CASE e = x
  <2>1. Places(t, x) = Places(s, x) \cup {Len(s) + 1} BY <1>1, <1>3 DEF Places
  <2>2. Len(s) + 1 \notin Places(s, x) BY <1>1 DEF Places
  <2> QED BY <1>2, <1>3, <2>1, <2>2, FS_AddElement DEF Times
<1>4. CASE e # x
  <2>1. Places(t, x) = Places(s, x) BY <1>1, <1>4 DEF Places
  <2> QED BY <1>2, <1>4, <2>1 DEF Times
<1> QED BY <1>3, <1>4

LEMMA TimesConcat ==
    ASSUME NEW S, NEW s \in Seq(S), NEW t \in Seq(S), NEW x
    PROVE  Times(s \o t, x) = Times(s, x) + Times(t, x)
<1> DEFINE n == Len(s)
           T == {n + i : i \in Places(t, x)}
           f == [i \in Places(t, x) |-> n + i]
<1>1. /\ n \in Nat /\ Len(t) \in Nat /\ DOMAIN s = 1..n /\ DOMAIN t = 1..Len(t)
      /\ DOMAIN (s \o t) = 1..(n + Len(t))
      /\ \A i \in 1..(n + Len(t)) : (s \o t)[i] = IF i <= n THEN s[i] ELSE t[i - n]
  BY LenProperties, ConcatProperties
<1>2. IsFiniteSet(Places(s, x)) /\ IsFiniteSet(Places(t, x)) BY TimesType
<1>3. Places(t, x) \subseteq Nat BY <1>1 DEF Places
<1>4. f \in Bijection(Places(t, x), T)
  BY <1>1, <1>3 DEF Bijection, Injection, Surjection, IsInjective
<1>5. IsFiniteSet(T) /\ Cardinality(T) = Times(t, x)
  BY <1>2, <1>4, FS_Bijection DEF ExistsBijection, Times
<1>6. Places(s \o t, x) = Places(s, x) \cup T
  <2>1. ASSUME NEW i \in Places(s \o t, x) PROVE i \in Places(s, x) \cup T
    <3>1. CASE i <= n BY <1>1, <2>1, <3>1 DEF Places
    <3>2. CASE i > n
      <4>1. i - n \in Places(t, x) /\ i = n + (i - n) BY <1>1, <2>1, <3>2 DEF Places
      <4> QED BY <4>1
    <3> QED BY <1>1, <3>1, <3>2 DEF Places
  <2>2. ASSUME NEW i \in Places(t, x) PROVE n + i \in Places(s \o t, x)
    <3>1. i \in 1..Len(t) /\ t[i] = x BY <1>1 DEF Places
    <3>2. n + i \in 1..(n + Len(t)) /\ ~ (n + i <= n) /\ (n + i) - n = i BY <1>1, <3>1
    <3>3. (s \o t)[n + i] = t[(n + i) - n] BY <1>1, <3>2
    <3>4. (s \o t)[n + i] = x BY <3>1, <3>2, <3>3
    <3> HIDE DEF n
    <3> QED BY <1>1, <3>2, <3>4 DEF Places
  <2>3. Places(s, x) \subseteq Places(s \o t, x)
    BY <1>1 DEF Places
  <2> QED BY <2>1, <2>2, <2>3
<1>7. Places(s, x) \cap T = {} BY <1>1, <1>3 DEF Places
<1>8. Times(s, x) \in Nat /\ Times(t, x) \in Nat BY TimesType
<1>9. /\ Cardinality(Places(s, x) \cup T)
           = Cardinality(Places(s, x)) + Cardinality(T) - Cardinality(Places(s, x) \cap T)
      /\ Cardinality(Places(s, x) \cap T) = 0
  BY <1>2, <1>5, <1>7, FS_Union, FS_EmptySet
<1> HIDE DEF T
<1> QED BY <1>5, <1>6, <1>8, <1>9 DEF Times

LEMMA TimesTail ==
    ASSUME NEW S, NEW s \in Seq(S), s # <<>>, NEW x
    PROVE  Times(s, x) = Times(Tail(s), x) + (IF Head(s) = x THEN 1 ELSE 0)
<1>1. Head(s) \in S /\ Tail(s) \in Seq(S) BY HeadTailProperties
<1>2. <<Head(s)>> \in Seq(S) /\ <<>> \in Seq(S) BY <1>1
<1>3. s = <<Head(s)>> \o Tail(s)
  <2>1. Len(<<Head(s)>>) = 1 /\ <<Head(s)>>[1] = Head(s) /\ Head(s) = s[1] BY EmptySeq
  <2>2. /\ Len(s) \in Nat \ {0} /\ Len(Tail(s)) = Len(s) - 1
        /\ \A i \in 1..Len(Tail(s)) : Tail(s)[i] = s[i + 1]
    BY HeadTailProperties, EmptySeq
  <2>3. ASSUME NEW h \in Seq(S), Len(h) = 1, h[1] = s[1] PROVE s = h \o Tail(s)
    <3>0. /\ h \o Tail(s) \in Seq(S) /\ Len(h \o Tail(s)) = Len(h) + Len(Tail(s))
          /\ \A i \in 1..Len(h) + Len(Tail(s)) :
                (h \o Tail(s))[i] = IF i <= Len(h) THEN h[i] ELSE Tail(s)[i - Len(h)]
      BY <1>1, <2>3, ConcatProperties
    <3>1. /\ h \o Tail(s) \in Seq(S) /\ Len(h \o Tail(s)) = Len(s)
          /\ \A i \in 1..Len(s) : (h \o Tail(s))[i] = IF i <= 1 THEN h[i] ELSE Tail(s)[i - 1]
      BY <2>2, <2>3, <3>0
    <3>2. ASSUME NEW i \in 1..Len(s) PROVE (h \o Tail(s))[i] = s[i]
      BY <2>2, <2>3, <3>1
    <3> QED BY <3>1, <3>2, SeqEqual
  <2>4. <<Head(s)>> \in Seq(S) BY <1>2
  <2> QED BY <2>1, <2>3, <2>4
<1>4. Places(<<Head(s)>>, x) = IF Head(s) = x THEN {1} ELSE {} BY DEF Places
<1>5. Times(<<Head(s)>>, x) = IF Head(s) = x THEN 1 ELSE 0
  BY <1>4, FS_Singleton, FS_EmptySet DEF Times
<1>6. Times(s, x) = Times(<<Head(s)>>, x) + Times(Tail(s), x)
  <2>1. Times(<<Head(s)>> \o Tail(s), x) = Times(<<Head(s)>>, x) + Times(Tail(s), x)
    BY <1>1, <1>2, TimesConcat
  <2> QED BY <1>3, <2>1
<1>7. Times(Tail(s), x) \in Nat BY <1>1, TimesType
<1> QED BY <1>5, <1>6, <1>7

LEMMA TimesOnce ==
    ASSUME NEW s, IsInjective(s), NEW x \in ToSet(s)
    PROVE  Times(s, x) = 1
<1>1. PICK i \in DOMAIN s : s[i] = x BY DEF ToSet
<1>2. Places(s, x) = {i} BY <1>1 DEF Places, IsInjective
<1> QED BY <1>2, FS_Singleton DEF Times
-----------------------------------------------------------------------------
\* What positions say of the other local variables.
WorkersFit ==
    \A w \in Slots :
        /\ worker[w].pc \in {"gone", "recv", "leaving"} => worker[w].todo = <<>>
        /\ worker[w].pc = "write" => worker[w].todo # <<>>
        /\ worker[w].pc \in {"gone", "leaving"} => worker[w].kind = "elastic"

\* As many base workers as the pool started with are alive.
BaseAlive ==
    \E S \in SUBSET Slots :
        Cardinality(S) = Base /\ \A w \in S : worker[w].kind = "base"

\* Only an empty, closed queue lets base workers go; workers about to start
\* still fit in.
PoolFits ==
    /\ pool.pc \in {"drain", "done"} <=> logClosed
    /\ logClosed => Cancelled
    /\ BaseAlive \/ (logClosed /\ logCh = <<>>)
    /\ pool.pc = "spawn" => Cardinality(Alive) + pool.n <= MaxWorkers
    /\ Cardinality(Alive) <= MaxWorkers
    /\ pool.pc = "done" => Alive = {}

IngestFits == ingest = "stopped" => Cancelled /\ waiting = {}

WriterFits ==
    /\ bwClosed <=> writer.pc \in {"final", "stopped"}
    /\ bwClosed => Cancelled /\ bwCh = <<>>
    /\ writer.pc = "stopped" => writer.batch = <<>>

ExitFits ==
    phase = "exited" => ingest = "stopped" /\ pool.pc = "done" /\ writer.pc = "stopped"

Control == WorkersFit /\ PoolFits /\ IngestFits /\ WriterFits /\ ExitFits

IInv == TypeOK /\ Control /\ Conservation
-----------------------------------------------------------------------------
\* The records of a batch are records, and every record is in exactly one batch.
LEMMA BatchFacts ==
    /\ \A b \in Batches : b \in Seq(Records) /\ ToSet(b) \subseteq Records
    /\ \A r \in Records : \E b \in Batches :
          r \in ToSet(b) /\ \A c \in Batches : r \in ToSet(c) <=> c = b
<1>1. \A b \in Batches : ToSet(b) \subseteq Records BY DEF Records
<1>2. ASSUME NEW b \in Batches PROVE b \in Seq(Records)
  BY <1>1, PipelineAssumption, SeqMonotonic
<1>3. ASSUME NEW r \in Records
      PROVE  \E b \in Batches : r \in ToSet(b) /\ \A c \in Batches : r \in ToSet(c) <=> c = b
  <2>1. PICK b \in Batches : r \in ToSet(b) BY DEF Records
  <2> QED BY <2>1, PipelineAssumption
<1> QED BY <1>1, <1>2, <1>3

\* The head and the tail of a queue that is not empty are of its kind.
LEMMA TailOf ==
    ASSUME NEW S, NEW n, NEW s \in Seq(S), s # <<>>
    PROVE  /\ Head(s) \in S /\ Tail(s) \in Seq(S)
           /\ Len(s) \in Nat /\ Len(Tail(s)) \in Nat /\ Len(Tail(s)) < Len(s)
BY HeadTailProperties, LenProperties

LEMMA AliveFinite == IsFiniteSet(Alive) /\ Cardinality(Alive) \in Nat
BY PipelineAssumption, FS_Subset, FS_CardinalityType DEF Alive

LEMMA Sizes ==
    /\ Base \in Nat \ {0} /\ MaxWorkers \in Nat /\ Base <= MaxWorkers
    /\ LogCap \in Nat \ {0} /\ BatchSize \in Nat \ {0} /\ BwCap \in Nat
    /\ MaxFaults \in Nat
BY PipelineAssumption DEF BwCap

\* What the pool asks for is never more than its maximum.
LEMMA TargetBounded ==
    ASSUME TypeOK
    PROVE  targetLogWorkerCount \in Nat /\ targetLogWorkerCount <= MaxWorkers
<1>1. Len(logCh) \in Nat BY LenProperties DEF TypeOK
<1>2. (Len(logCh) * (MaxWorkers - Base)) \div LogCap \in Int BY <1>1, Sizes
<1>3. Demand \in Nat BY <1>1, <1>2, Sizes DEF Demand, Bigger
<1> QED BY <1>3, Sizes DEF targetLogWorkerCount, Smaller

WorkerStates == [kind : {"base", "elastic"}, pc : WorkerPc, todo : Seq(Records)]
WriterStates ==
    [pc : {"run", "flush", "final", "stopped"}, batch : Seq(Records), live : BOOLEAN]

\* The states of one worker, at each of its steps.
LEMMA WorkerState ==
    ASSUME TypeOK, NEW w \in Slots
    PROVE  /\ worker \in [Slots -> WorkerStates] /\ worker[w].todo \in Seq(Records)
           /\ Gone \in WorkerStates
           /\ \A kind \in {"base", "elastic"} : Started(kind) \in WorkerStates
           /\ \A p \in WorkerPc, t \in Seq(Records) :
                /\ [worker[w] EXCEPT !.pc = p] \in WorkerStates
                /\ [worker[w] EXCEPT !.todo = t] \in WorkerStates
                /\ [worker[w] EXCEPT !.pc = p, !.todo = t] \in WorkerStates
<1>1. worker \in [Slots -> WorkerStates] /\ worker[w] \in WorkerStates
  BY DEF TypeOK, WorkerStates
<1>2. <<>> \in Seq(Records) BY EmptySeq
<1> QED BY <1>1, <1>2 DEF WorkerStates, Gone, Started, WorkerPc

LEMMA EndedType ==
    ASSUME TypeOK, NEW S, NEW how, how \in Fates, Ended(S, how)
    PROVE  fate' \in [Records -> Fates]
BY DEF TypeOK, Ended

LEMMA WriterState ==
    ASSUME TypeOK, NEW b \in Seq(Records)
    PROVE  /\ writer \in WriterStates /\ writer.batch \in Seq(Records)
           /\ Stopped \in WriterStates /\ StartFlush(b) \in WriterStates
           /\ [writer EXCEPT !.batch = b] \in WriterStates
           /\ \A p \in {"run", "flush", "final", "stopped"}, live \in BOOLEAN :
                [pc |-> p, batch |-> b, live |-> live] \in WriterStates
<1>1. writer \in WriterStates BY DEF TypeOK, WriterStates
<1>2. <<>> \in Seq(Records) BY EmptySeq
<1>3. Cancelled \in BOOLEAN BY DEF Cancelled
<1> QED BY <1>1, <1>2, <1>3 DEF WriterStates, Stopped, StartFlush

\* Every step keeps the variables in their types.
LEMMA TypeStep == TypeOK /\ WorkersFit /\ [Next]_vars => TypeOK'
<1> SUFFICES ASSUME TypeOK, WorkersFit, [Next]_vars PROVE TypeOK'
  OBVIOUS
<1> USE DEF queue, intake, out
<1>l. Len(logCh) \in Nat /\ Len(bwCh) \in Nat BY LenProperties DEF TypeOK
<1>f. {"none", "rejected", "skipped", "overflow", "flush", "panic"} = Fates BY DEF Fates
<1>e. <<>> \in Seq(Records) /\ <<>> \in Seq(Batches) /\ Len(<<>>) = 0 BY EmptySeq
<1>w. worker \in [Slots -> WorkerStates] BY DEF TypeOK, WorkerStates
<1>1. ASSUME NEW b \in Batches, Submit(b) \/ StopWaiting(b) PROVE TypeOK'
  <2>1. Append(logCh, b) \in Seq(Batches) /\ Len(Append(logCh, b)) = Len(logCh) + 1
    BY AppendProperties DEF TypeOK
  <2>2. logCh' \in Seq(Batches) /\ Len(logCh') <= LogCap
    <3>1. logCh' = logCh \/ (logCh' = Append(logCh, b) /\ Len(logCh) < LogCap)
      BY <1>1 DEF Submit, StopWaiting, Room
    <3>2. logCh \in Seq(Batches) /\ Len(logCh) <= LogCap BY DEF TypeOK
    <3> QED BY <1>l, <2>1, <3>1, <3>2, Sizes
  <2>3. fate' \in [Records -> Fates]
    <3>1. UNCHANGED fate \/ Ended(ToSet(b), "rejected") BY <1>1 DEF Submit, StopWaiting
    <3> QED BY <1>f, <3>1, EndedType DEF TypeOK
  <2> QED BY <1>1, <2>2, <2>3 DEF TypeOK, Submit, StopWaiting
<1>2. CASE StopIngest BY <1>2 DEF TypeOK, StopIngest
<1>3. CASE Scale
  <2>1. targetLogWorkerCount \in Nat BY TargetBounded
  <2> QED BY <1>3, <2>1, AliveFinite DEF TypeOK, Scale
<1>4. CASE Spawn
  <2>1. PICK S \in SUBSET Slots :
          worker' = [w \in Slots |-> IF w \in S THEN Started("elastic") ELSE worker[w]]
    BY <1>4 DEF Spawn
  <2>2. worker' \in [Slots -> WorkerStates] BY <1>w, <2>1, WorkerState
  <2> QED BY <1>4, <2>2 DEF TypeOK, Spawn, WorkerStates
<1>5. CASE ClosePool \/ PoolDone BY <1>5 DEF TypeOK, ClosePool, PoolDone
<1>6. ASSUME NEW w \in Slots, Receive(w) PROVE TypeOK'
  <2>1. Head(logCh) \in Seq(Records) /\ Tail(logCh) \in Seq(Batches) /\ Len(Tail(logCh)) <= LogCap
    BY <1>6, TailOf, BatchFacts, Sizes DEF TypeOK, Receive
  <2>2. worker' \in [Slots -> WorkerStates] BY <1>6, <2>1, WorkerState DEF Receive, WorkerPc
  <2> QED BY <1>6, <2>1, <2>2 DEF TypeOK, Receive, WorkerStates
<1>7. ASSUME NEW w \in Slots,
             LeaveClosed(w) \/ LeaveCancelled(w) \/ LeaveIdle(w) \/ Leave(w)
      PROVE  TypeOK'
  <2>1. worker' \in [Slots -> WorkerStates]
    BY <1>7, WorkerState DEF LeaveClosed, LeaveCancelled, LeaveIdle, Leave, WorkerPc
  <2> QED BY <1>7, <2>1 DEF TypeOK, LeaveClosed, LeaveCancelled, LeaveIdle, Leave, WorkerStates
<1>8. ASSUME NEW w \in Slots, FinishBatch(w) PROVE TypeOK'
  <2>1. worker' \in [Slots -> WorkerStates]
    BY <1>8, <1>e, WorkerState DEF FinishBatch, WorkerPc
  <2>2. fate' \in [Records -> Fates] BY <1>8, <1>f, EndedType DEF FinishBatch
  <2> QED BY <1>8, <2>1, <2>2 DEF TypeOK, FinishBatch, WorkerStates
<1>9. ASSUME NEW w \in Slots, Process(w) PROVE TypeOK'
  <2>1. Tail(worker[w].todo) \in Seq(Records) BY <1>9, WorkerState, TailOf DEF Process
  <2>2. worker' \in [Slots -> WorkerStates] BY <1>9, <2>1, WorkerState DEF Process, WorkerPc
  <2>3. fate' \in [Records -> Fates] BY <1>9, <1>f, EndedType DEF TypeOK, Process
  <2> QED BY <1>9, <2>2, <2>3 DEF TypeOK, Process, WorkerStates
<1>10. ASSUME NEW w \in Slots, WriteRecord(w) PROVE TypeOK'
  <2>1. CASE Panic
    <3>1. fate' \in [Records -> Fates] BY <1>f, <2>1, EndedType DEF Panic
    <3>2. worker' \in [Slots -> WorkerStates] BY <2>1, WorkerState DEF Panic
    <3>3. writer' \in WriterStates BY <1>e, <2>1, WriterState DEF Panic
    <3>4. Len(<<>>) <= LogCap /\ Len(<<>>) <= BwCap BY <1>e, Sizes
    <3> QED BY <1>e, <2>1, <3>1, <3>2, <3>3, <3>4
            DEF TypeOK, Panic, WorkerStates, WriterStates, Phases
  <2>2. CASE ~ bwClosed
    <3> DEFINE r == Head(worker[w].todo)
    <3>1. worker[w].todo \in Seq(Records) /\ worker[w].todo # <<>>
      BY <1>10, WorkerState DEF WriteRecord, WorkersFit
    <3>2. r \in Records /\ Tail(worker[w].todo) \in Seq(Records) BY <3>1, TailOf
    <3>3. Append(bwCh, r) \in Seq(Records) /\ Len(Append(bwCh, r)) = Len(bwCh) + 1
      BY <3>2, AppendProperties DEF TypeOK
    <3>4. \/ UNCHANGED fate /\ bwCh' = Append(bwCh, r) /\ Len(bwCh) < BwCap
          \/ Ended({r}, "overflow") /\ UNCHANGED bwCh
      BY <1>10, <2>2 DEF WriteRecord
    <3>5. bwCh' \in Seq(Records) /\ Len(bwCh') <= BwCap
      <4>1. bwCh \in Seq(Records) /\ Len(bwCh) <= BwCap BY DEF TypeOK
      <4> HIDE DEF r
      <4> QED BY <1>l, <3>3, <3>4, <4>1, Sizes
    <3>6. fate' \in [Records -> Fates] BY <1>f, <3>4, EndedType DEF TypeOK
    <3>7. worker' \in [Slots -> WorkerStates]
      <4>1. worker' = [worker EXCEPT
                ![w] = [worker[w] EXCEPT !.pc = "entries", !.todo = Tail(worker[w].todo)]]
        BY <1>10, <2>2 DEF WriteRecord
      <4> QED BY <1>w, <3>2, <4>1, WorkerState DEF WorkerPc
    <3> QED BY <1>10, <2>2, <3>5, <3>6, <3>7 DEF TypeOK, WriteRecord, WorkerStates
  <2> QED BY <1>10, <2>1, <2>2 DEF WriteRecord
<1>11. CASE Collect
  <2> DEFINE batch == Append(writer.batch, Head(bwCh))
  <2>1. Head(bwCh) \in Records /\ Tail(bwCh) \in Seq(Records) /\ Len(Tail(bwCh)) <= BwCap
    BY <1>11, TailOf, Sizes DEF TypeOK, Collect
  <2>2. writer.batch \in Seq(Records) BY DEF TypeOK
  <2>3. batch \in Seq(Records) BY <2>1, <2>2, AppendProperties
  <2>4. writer' \in WriterStates
    <3> HIDE DEF batch
    <3>1. writer' \in {StartFlush(batch), [writer EXCEPT !.batch = batch]}
      BY <1>11 DEF Collect, batch
    <3> QED BY <2>3, <3>1, WriterState
  <2> QED BY <1>11, <2>1, <2>4 DEF TypeOK, Collect, WriterStates
<1>12. CASE FlushTick
  <2>1. writer' \in WriterStates BY <1>12, WriterState DEF FlushTick, TypeOK
  <2> QED BY <1>12, <2>1 DEF TypeOK, FlushTick, WriterStates
<1>13. CASE Flush \/ FinalFlush
  <2>1. writer' \in WriterStates BY <1>13, <1>e, WriterState DEF Flush, FinalFlush
  <2>2. \/ Inserted(writer.batch) \/ Refused(writer.batch)
        \/ Ended(ToSet(writer.batch), "flush") /\ UNCHANGED <<rows, faults>>
    BY <1>13 DEF Flush, FinalFlush
  <2>3. fate' \in [Records -> Fates]
    BY <1>f, <2>2, EndedType DEF TypeOK, Inserted, Refused
  <2>4. rows' \in [Records -> Nat] BY <2>2, SMTT(20) DEF TypeOK, Inserted, Refused
  <2>5. faults' \in 0..MaxFaults BY <2>2, Sizes DEF TypeOK, Inserted, Refused
  <2> QED BY <1>13, <2>1, <2>3, <2>4, <2>5 DEF TypeOK, Flush, FinalFlush, WriterStates
<1>14. CASE CloseWriter
  <2>1. writer.batch \o bwCh \in Seq(Records) BY ConcatProperties DEF TypeOK
  <2>2. writer' \in WriterStates BY <1>14, <2>1, WriterState DEF CloseWriter
  <2>3. Len(<<>>) <= BwCap BY <1>e, Sizes
  <2> QED BY <1>14, <1>e, <2>2, <2>3 DEF TypeOK, CloseWriter, WriterStates
<1>15. CASE Shutdown \/ Exit \/ Rest \/ UNCHANGED vars
  BY <1>15 DEF TypeOK, Shutdown, Exit, Rest, vars, Phases
<1> QED BY <1>1, <1>2, <1>3, <1>4, <1>5, <1>6, <1>7, <1>8, <1>9, <1>10, <1>11, <1>12, <1>13,
        <1>14, <1>15
        DEF Next, IngestStep, PoolStep, WorkerStep, WriterStep
-----------------------------------------------------------------------------
\* A worker that leaves its position takes or drops its entries.
LEMMA WorkersFitStep == TypeOK /\ WorkersFit /\ [Next]_vars => WorkersFit'
<1> SUFFICES ASSUME TypeOK, WorkersFit, [Next]_vars PROVE WorkersFit'
  OBVIOUS
<1>1. CASE UNCHANGED worker BY <1>1 DEF WorkersFit
<1>2. CASE Spawn
  <2>1. PICK S \in SUBSET Slots :
          worker' = [w \in Slots |-> IF w \in S THEN Started("elastic") ELSE worker[w]]
    BY <1>2 DEF Spawn
  <2> QED BY <2>1 DEF WorkersFit, Started
<1>3. ASSUME NEW w \in Slots, WorkerStep(w) PROVE WorkersFit'
  <2>1. CASE Panic BY <2>1 DEF Panic, WorkersFit, Gone
  <2>2. CASE ~ Panic
    <3>1. /\ \A v \in Slots : v # w => worker'[v] = worker[v]
          /\ worker'[w].pc \in {"gone", "recv", "leaving"} => worker'[w].todo = <<>>
          /\ worker'[w].pc = "write" => worker'[w].todo # <<>>
          /\ worker'[w].pc \in {"gone", "leaving"} => worker'[w].kind = "elastic"
      <4>1. CASE Receive(w) BY <4>1 DEF TypeOK, Receive
      <4>2. CASE LeaveClosed(w) \/ LeaveCancelled(w) \/ LeaveIdle(w) \/ Leave(w)
        BY <4>2 DEF TypeOK, WorkersFit, LeaveClosed, LeaveCancelled, LeaveIdle, Leave, Gone
      <4>3. CASE FinishBatch(w) BY <4>3 DEF TypeOK, FinishBatch
      <4>4. CASE Process(w) BY <4>4 DEF TypeOK, Process
      <4>5. CASE WriteRecord(w) BY <2>2, <4>5 DEF TypeOK, WriteRecord
      <4> QED BY <1>3, <4>1, <4>2, <4>3, <4>4, <4>5 DEF WorkerStep
    <3> QED BY <3>1 DEF WorkersFit
  <2> QED BY <2>1, <2>2
<1>4. ASSUME NEW b \in Batches, Submit(b) \/ StopWaiting(b) PROVE UNCHANGED worker
  BY <1>4 DEF Submit, StopWaiting
<1>5. StopIngest \/ Scale \/ ClosePool \/ PoolDone \/ WriterStep \/ Shutdown \/ Exit \/ Rest
        \/ UNCHANGED vars => UNCHANGED worker
  BY DEF StopIngest, Scale, ClosePool, PoolDone, WriterStep, Collect, FlushTick, Flush,
     CloseWriter, FinalFlush, Shutdown, Exit, Rest, vars
<1> QED BY <1>1, <1>2, <1>3, <1>4, <1>5 DEF Next, IngestStep, PoolStep

\* Fewer workers alive are not more in number.
LEMMA Shrinks == Alive' \subseteq Alive => Cardinality(Alive') <= Cardinality(Alive)
BY AliveFinite, FS_Subset

LEMMA BaseStays ==
    ASSUME BaseAlive, \A w \in Slots : worker[w].kind = "base" => worker'[w].kind = "base"
    PROVE  BaseAlive'
BY DEF BaseAlive

\* A worker that moves on or takes over a record stays of its kind.
LEMMA KindStays ==
    ASSUME worker \in [Slots -> WorkerStates], NEW w \in Slots, NEW p, NEW t,
           \/ worker' = [worker EXCEPT ![w].pc = p, ![w].todo = t]
           \/ worker' = [worker EXCEPT ![w].pc = p]
           \/ worker' = [worker EXCEPT ![w].todo = t]
    PROVE  \A v \in Slots : worker'[v].kind = worker[v].kind
<1> TAKE v \in Slots
<1>1. worker[w] \in WorkerStates OBVIOUS
<1>2. CASE v # w
  <2>1. worker'[v] = worker[v] BY <1>2
  <2> QED BY <2>1
<1>3. CASE v = w
  <2>1. \/ worker'[w] = [worker[w] EXCEPT !.pc = p, !.todo = t]
        \/ worker'[w] = [worker[w] EXCEPT !.pc = p]
        \/ worker'[w] = [worker[w] EXCEPT !.todo = t]
    OBVIOUS
  <2> QED BY <1>1, <1>3, <2>1 DEF WorkerStates
<1> QED BY <1>2, <1>3

LEMMA PoolFitsStep == TypeOK /\ WorkersFit /\ WriterFits /\ PoolFits /\ [Next]_vars => PoolFits'
<1> SUFFICES ASSUME TypeOK, WorkersFit, WriterFits, PoolFits, [Next]_vars PROVE PoolFits'
  OBVIOUS
<1> USE DEF queue, intake, out
<1>c. Cardinality(Alive) \in Nat /\ pool.n \in Nat /\ MaxWorkers \in Nat
  BY AliveFinite, Sizes DEF TypeOK
<1>1. CASE UNCHANGED <<worker, pool, logCh, logClosed>> /\ (Cancelled => Cancelled')
  BY <1>1 DEF PoolFits, BaseAlive, Alive
<1>2. ASSUME NEW b \in Batches, Submit(b) \/ StopWaiting(b) PROVE PoolFits'
  <2>1. UNCHANGED <<worker, pool, logClosed, phase>> /\ (logClosed => UNCHANGED logCh)
    BY <1>2 DEF Submit, StopWaiting
  <2> QED BY <2>1 DEF PoolFits, BaseAlive, Alive, Cancelled
<1>3. CASE Scale
  <2>1. /\ UNCHANGED <<worker, logCh, logClosed, phase>>
        /\ pool' = [pc |-> "spawn", n |-> targetLogWorkerCount - Cardinality(Alive)]
        /\ pool.pc = "wait"
    BY <1>3 DEF Scale
  <2>2. Cardinality(Alive) + pool'.n <= MaxWorkers BY <1>c, <2>1, TargetBounded
  <2> QED BY <2>1, <2>2 DEF PoolFits, BaseAlive, Alive, Cancelled
<1>4. CASE Spawn
  <2>1. PICK S \in SUBSET (Slots \ Alive) :
          /\ Cardinality(S) = pool.n
          /\ worker' = [w \in Slots |-> IF w \in S THEN Started("elastic") ELSE worker[w]]
    BY <1>4 DEF Spawn
  <2>2. pool.pc = "spawn" /\ pool'.pc = "wait" /\ UNCHANGED <<logCh, logClosed, phase>>
    BY <1>4 DEF Spawn
  <2>3. Alive' = Alive \cup S BY <2>1 DEF Alive, Started
  <2>4. IsFiniteSet(S) /\ Alive \cap S = {} BY <2>1, PipelineAssumption, FS_Subset
  <2>5. Cardinality(Alive') = Cardinality(Alive) + pool.n
    <3>1. Cardinality(Alive \cup S)
            = Cardinality(Alive) + Cardinality(S) - Cardinality(Alive \cap S)
      BY <2>4, AliveFinite, FS_Union
    <3>2. Cardinality(Alive \cap S) = 0 BY <2>4, FS_EmptySet
    <3> QED BY <1>c, <2>1, <2>3, <3>1, <3>2
  <2>6. \A w \in Slots : worker[w].kind = "base" => worker'[w].kind = "base"
    BY <2>1 DEF WorkersFit, Alive
  <2>7. Cardinality(Alive') <= MaxWorkers BY <1>c, <2>2, <2>5 DEF PoolFits
  <2> QED BY <2>2, <2>6, <2>7, BaseStays DEF PoolFits, Cancelled
<1>5. CASE ClosePool
  BY <1>5 DEF ClosePool, PoolFits, BaseAlive, Alive, Cancelled
<1>6. CASE PoolDone
  BY <1>6 DEF PoolDone, PoolFits, BaseAlive, Alive, Cancelled
<1>7. ASSUME NEW w \in Slots, WorkerStep(w) PROVE PoolFits'
  <2>1. CASE Panic
    <3>1. Alive' = {} BY <2>1 DEF Panic, Alive, Gone
    <3>2. Cardinality(Alive') = 0 BY <3>1, FS_EmptySet
    <3> QED BY <1>c, <2>1, <3>1, <3>2 DEF Panic, PoolFits, Cancelled
  <2>2. CASE ~ Panic
    <3>1. Alive' \subseteq Alive /\ UNCHANGED <<pool, logClosed, phase>>
      BY <1>7, <2>2 DEF TypeOK, WorkerStep, Receive, LeaveClosed, LeaveCancelled, LeaveIdle,
         Leave, FinishBatch, Process, WriteRecord, Alive, Gone
    <3>2. BaseAlive' \/ (logClosed' /\ logCh' = <<>>)
      <4>1. CASE Receive(w)
        <5>1. \A v \in Slots : worker'[v].kind = worker[v].kind BY <4>1 DEF Receive, TypeOK
        <5> QED BY <4>1, <5>1, BaseStays DEF PoolFits, Receive
      <4>2. CASE LeaveClosed(w) BY <4>2 DEF LeaveClosed
      <4>3. CASE LeaveCancelled(w) \/ LeaveIdle(w) \/ Leave(w)
        <5>1. \A v \in Slots : worker[v].kind = "base" => worker'[v].kind = "base"
          BY <4>3 DEF LeaveCancelled, LeaveIdle, Leave, TypeOK, WorkersFit
        <5>2. UNCHANGED logCh BY <4>3 DEF LeaveCancelled, LeaveIdle, Leave
        <5> QED BY <3>1, <5>1, <5>2, BaseStays DEF PoolFits
      <4>4. CASE FinishBatch(w) \/ Process(w) \/ WriteRecord(w)
        <5>1. \A v \in Slots : worker'[v].kind = worker[v].kind
          <6>1. worker \in [Slots -> WorkerStates] BY DEF TypeOK, WorkerStates
          <6>2. PICK p, t : \/ worker' = [worker EXCEPT ![w].pc = p, ![w].todo = t]
                            \/ worker' = [worker EXCEPT ![w].pc = p]
                            \/ worker' = [worker EXCEPT ![w].todo = t]
            BY <2>2, <4>4 DEF FinishBatch, Process, WriteRecord
          <6> QED BY <6>1, <6>2, KindStays
        <5>2. UNCHANGED logCh BY <2>2, <4>4 DEF FinishBatch, Process, WriteRecord
        <5> QED BY <3>1, <5>1, <5>2, BaseStays DEF PoolFits
      <4> QED BY <1>7, <4>1, <4>2, <4>3, <4>4 DEF WorkerStep
    <3>3. Cardinality(Alive') \in Nat /\ Cardinality(Alive') <= Cardinality(Alive)
      BY <3>1, Shrinks, AliveFinite, FS_Subset, FS_CardinalityType
    <3> QED BY <1>c, <3>1, <3>2, <3>3 DEF PoolFits, Cancelled
  <2> QED BY <2>1, <2>2
<1>8. StopIngest \/ WriterStep \/ Shutdown \/ Exit \/ Rest \/ UNCHANGED vars =>
        UNCHANGED <<worker, pool, logCh, logClosed>> /\ (Cancelled => Cancelled')
  BY DEF StopIngest, WriterStep, Collect, FlushTick, Flush,
     CloseWriter, FinalFlush, Shutdown, Exit, Rest, vars, Cancelled
<1> QED BY <1>1, <1>2, <1>3, <1>4, <1>5, <1>6, <1>7, <1>8 DEF Next, IngestStep, PoolStep

LEMMA IngestFitsStep == IngestFits /\ [Next]_vars => IngestFits'
<1> SUFFICES ASSUME IngestFits, [Next]_vars PROVE IngestFits'
  OBVIOUS
<1> USE DEF queue, intake, out, IngestFits, Cancelled
<1>1. ASSUME NEW b \in Batches, Submit(b) \/ StopWaiting(b) PROVE IngestFits'
  BY <1>1 DEF Submit, StopWaiting
<1>2. CASE StopIngest BY <1>2 DEF StopIngest
<1>3. ASSUME NEW w \in Slots, WorkerStep(w) PROVE IngestFits'
  <2>1. Panic \/ UNCHANGED <<ingest, waiting, phase>>
    BY <1>3 DEF WorkerStep, Receive, LeaveClosed, LeaveCancelled, LeaveIdle, Leave, FinishBatch,
       Process, WriteRecord
  <2> QED BY <2>1 DEF Panic
<1>4. PoolStep \/ WriterStep \/ Rest \/ UNCHANGED vars => UNCHANGED <<ingest, waiting, phase>>
  BY DEF PoolStep, Scale, Spawn, ClosePool, PoolDone, WriterStep, Collect, FlushTick, Flush,
     CloseWriter, FinalFlush, Rest, vars
<1>5. CASE Shutdown \/ Exit BY <1>5 DEF Shutdown, Exit
<1> QED BY <1>1, <1>2, <1>3, <1>4, <1>5 DEF Next, IngestStep

LEMMA WriterFitsStep == TypeOK /\ WriterFits /\ [Next]_vars => WriterFits'
<1> SUFFICES ASSUME TypeOK, WriterFits, [Next]_vars PROVE WriterFits'
  OBVIOUS
<1> USE DEF queue, intake, out, Cancelled
<1>1. ASSUME NEW w \in Slots, WorkerStep(w) PROVE WriterFits'
  <2>1. CASE Panic BY <2>1 DEF Panic, WriterFits, Stopped
  <2>2. CASE ~ Panic
    <3>1. UNCHANGED <<writer, bwClosed, phase>> /\ (bwClosed => UNCHANGED bwCh)
      BY <1>1, <2>2 DEF WorkerStep, Receive, LeaveClosed, LeaveCancelled, LeaveIdle, Leave,
         FinishBatch, Process, WriteRecord
    <3> QED BY <3>1 DEF WriterFits
  <2> QED BY <2>1, <2>2
<1>2. CASE Collect BY <1>2 DEF Collect, StartFlush, WriterFits, TypeOK
<1>3. CASE FlushTick \/ Flush BY <1>3 DEF FlushTick, Flush, StartFlush, WriterFits
<1>4. CASE CloseWriter BY <1>4 DEF CloseWriter, Stopped, WriterFits
<1>5. CASE FinalFlush BY <1>5 DEF FinalFlush, Stopped, WriterFits
<1>6. ASSUME NEW b \in Batches, Submit(b) \/ StopWaiting(b)
      PROVE  UNCHANGED <<writer, bwClosed, bwCh, phase>>
  BY <1>6 DEF Submit, StopWaiting
<1>7. StopIngest \/ PoolStep \/ Rest \/ UNCHANGED vars => UNCHANGED <<writer, bwClosed, bwCh, phase>>
  BY DEF StopIngest, PoolStep, Scale, Spawn, ClosePool, PoolDone, Rest, vars
<1>8. CASE UNCHANGED <<writer, bwClosed, bwCh, phase>> BY <1>8 DEF WriterFits
<1>9. CASE Shutdown \/ Exit BY <1>9 DEF Shutdown, Exit, WriterFits
<1> QED BY <1>1, <1>2, <1>3, <1>4, <1>5, <1>6, <1>7, <1>8, <1>9 DEF Next, IngestStep, WriterStep

LEMMA ExitFitsStep == TypeOK /\ Control /\ [Next]_vars => ExitFits'
<1> SUFFICES ASSUME TypeOK, Control, [Next]_vars PROVE ExitFits'
  OBVIOUS
<1> USE DEF queue, intake, out
<1>1. CASE phase = "exited"
  <2>1. ingest = "stopped" /\ waiting = {} /\ pool.pc = "done" /\ writer.pc = "stopped"
    BY <1>1 DEF Control, ExitFits, IngestFits
  <2>2. \A w \in Slots : worker[w].pc = "gone"
    BY <2>1 DEF Control, PoolFits, Alive
  <2>3. \A w \in Slots : ~ WorkerStep(w)
    BY <2>2 DEF WorkerStep, Receive, LeaveClosed, LeaveCancelled, LeaveIdle, Leave, FinishBatch,
       Process, WriteRecord
  <2>4. ~ WriterStep /\ ~ PoolStep /\ ~ IngestStep /\ \A b \in Batches : ~ Submit(b)
    BY <2>1 DEF WriterStep, Collect, FlushTick, Flush, CloseWriter, FinalFlush, PoolStep, Scale,
       Spawn, ClosePool, PoolDone, IngestStep, StopWaiting, StopIngest, Submit
  <2>5. UNCHANGED vars BY <1>1, <2>3, <2>4 DEF Next, Shutdown, Exit, Rest
  <2> QED BY <2>1, <2>5 DEF vars, ExitFits
<1>2. CASE phase # "exited"
  <2>1. CASE Exit BY <2>1 DEF Exit, ExitFits
  <2>2. CASE ~ Exit
    <3>1. ASSUME NEW w \in Slots, WorkerStep(w) PROVE phase' \in {phase, "panicked"}
      BY <3>1 DEF WorkerStep, Receive, LeaveClosed, LeaveCancelled, LeaveIdle, Leave,
         FinishBatch, Process, WriteRecord, Panic
    <3>2. ASSUME NEW b \in Batches, Submit(b) \/ StopWaiting(b) PROVE phase' = phase
      BY <3>2 DEF Submit, StopWaiting
    <3>3. StopIngest \/ PoolStep \/ WriterStep \/ Rest \/ UNCHANGED vars => phase' = phase
      BY DEF StopIngest, PoolStep, Scale, Spawn, ClosePool, PoolDone, WriterStep, Collect,
         FlushTick, Flush, CloseWriter, FinalFlush, Rest, vars
    <3>4. Shutdown => phase' = "stopping" BY DEF Shutdown
    <3>5. phase' # "exited" BY <1>2, <2>2, <3>1, <3>2, <3>3, <3>4 DEF Next, IngestStep
    <3> QED BY <3>5 DEF ExitFits
  <2> QED BY <2>1, <2>2
<1> QED BY <1>1, <1>2

LEMMA ControlStep == TypeOK /\ Control /\ [Next]_vars => Control'
BY WorkersFitStep, PoolFitsStep, IngestFitsStep, WriterFitsStep, ExitFitsStep DEF Control
-----------------------------------------------------------------------------
(* Conservation.  For a record r of batch b, Sum counts it place by place: *)
(* whole batches before a worker takes them, single records after.         *)

Todo == [w \in Slots |-> worker[w].todo]
Spread(f, r) == UNION {{w} \X Places(f[w], r) : w \in Slots}
AtWorkers(r) == Cardinality(Spread(Todo, r))
InSet(S, b) == IF b \in S THEN 1 ELSE 0
Fated(r) == IF fate[r] = "none" THEN 0 ELSE 1

Sum(b, r) ==
    InSet(fresh, b) + InSet(waiting, b) + Times(logCh, b) + AtWorkers(r)
      + Times(bwCh, r) + Times(writer.batch, r) + rows[r] + Fated(r)

LEMMA SpreadFinite ==
    ASSUME NEW f \in [Slots -> Seq(Records)], NEW r, NEW S \in SUBSET Slots
    PROVE  LET T == UNION {{w} \X Places(f[w], r) : w \in S}
           IN  IsFiniteSet(T) /\ Cardinality(T) \in Nat
<1> DEFINE F == [w \in S |-> {w} \X Places(f[w], r)]
           I == {F[w] : w \in S}
<1>1. IsFiniteSet(S) BY PipelineAssumption, FS_Subset
<1>2. F \in Surjection(S, I) BY DEF Surjection
<1>3. IsFiniteSet(I) BY <1>1, <1>2, FS_Surjection
<1>4. ASSUME NEW w \in S PROVE IsFiniteSet(F[w])
  <2>1. f[w] \in Seq(Records) OBVIOUS
  <2>2. IsFiniteSet({w}) /\ IsFiniteSet(Places(f[w], r)) BY <2>1, TimesType, FS_Singleton
  <2> QED BY <2>2, FS_Product
<1>5. IsFiniteSet(UNION I) BY <1>3, <1>4, FS_UNION
<1>6. I = {{w} \X Places(f[w], r) : w \in S} OBVIOUS
<1> QED BY <1>5, <1>6, FS_CardinalityType

\* When one worker's entries change, the copies at the workers change as they do.
LEMMA SpreadChange ==
    ASSUME NEW f \in [Slots -> Seq(Records)], NEW g \in [Slots -> Seq(Records)],
           NEW w \in Slots, \A v \in Slots : v # w => g[v] = f[v], NEW r
    PROVE  Cardinality(Spread(g, r)) + Times(f[w], r)
             = Cardinality(Spread(f, r)) + Times(g[w], r)
<1> DEFINE Others(h) == UNION {{v} \X Places(h[v], r) : v \in Slots \ {w}}
<1>1. ASSUME NEW h \in [Slots -> Seq(Records)]
      PROVE  /\ Cardinality(Spread(h, r)) = Cardinality(Others(h)) + Times(h[w], r)
             /\ Cardinality(Others(h)) \in Nat /\ Times(h[w], r) \in Nat
  <2> DEFINE O == Others(h)
             M == {w} \X Places(h[w], r)
  <2>1. IsFiniteSet(O) /\ Cardinality(O) \in Nat
    <3>1. Slots \ {w} \in SUBSET Slots OBVIOUS
    <3> QED BY <3>1, SpreadFinite
  <2>2. IsFiniteSet(M) /\ Cardinality(M) = Times(h[w], r) /\ Times(h[w], r) \in Nat
    <3>1. IsFiniteSet(Places(h[w], r)) /\ Times(h[w], r) \in Nat BY TimesType
    <3>2. IsFiniteSet({w}) /\ Cardinality({w}) = 1 BY FS_Singleton
    <3>3. IsFiniteSet(M) /\ Cardinality(M) = Cardinality({w}) * Cardinality(Places(h[w], r))
      BY <3>1, <3>2, FS_Product
    <3> QED BY <3>1, <3>2, <3>3 DEF Times
  <2>3. Spread(h, r) = O \cup M BY DEF Spread
  <2>4. O \cap M = {} OBVIOUS
  <2> HIDE DEF O, M
  <2>5. /\ Cardinality(O \cup M) = Cardinality(O) + Cardinality(M) - Cardinality(O \cap M)
        /\ Cardinality(O \cap M) = 0
    BY <2>1, <2>2, <2>4, FS_Union, FS_EmptySet
  <2>6. Cardinality(Spread(h, r)) = Cardinality(O) + Times(h[w], r)
    BY <2>1, <2>2, <2>3, <2>5
  <2> QED BY <2>1, <2>2, <2>6 DEF O
<1>2. Others(f) = Others(g) OBVIOUS
<1> HIDE DEF Others
<1> QED BY <1>1, <1>2

LEMMA CopiesSum ==
    TypeOK => \A b \in Batches : \A r \in ToSet(b) :
        /\ Copies(r) = Sum(b, r)
        /\ r \in Records /\ rows[r] \in Nat /\ AtWorkers(r) \in Nat
        /\ Times(logCh, b) \in Nat /\ Times(bwCh, r) \in Nat /\ Times(writer.batch, r) \in Nat
        /\ Todo \in [Slots -> Seq(Records)]
<1> SUFFICES ASSUME TypeOK, NEW b \in Batches, NEW r \in ToSet(b)
             PROVE  /\ Copies(r) = Sum(b, r)
                    /\ r \in Records /\ rows[r] \in Nat /\ AtWorkers(r) \in Nat
                    /\ Times(logCh, b) \in Nat /\ Times(bwCh, r) \in Nat
                    /\ Times(writer.batch, r) \in Nat
                    /\ Todo \in [Slots -> Seq(Records)]
  OBVIOUS
<1> DEFINE holding == {c \in Batches : r \in ToSet(c)}
<1>1. r \in Records /\ holding = {b} BY BatchFacts
<1>2. Todo \in [Slots -> Seq(Records)] BY DEF Todo, TypeOK
<1>3. ASSUME NEW S PROVE Cardinality(holding \cap S) = InSet(S, b)
  <2>1. holding \cap S = IF b \in S THEN {b} ELSE {} BY <1>1
  <2> QED BY <2>1, FS_Singleton, FS_EmptySet DEF InSet
<1>4. {i \in DOMAIN logCh : logCh[i] \in holding} = Places(logCh, b) BY <1>1 DEF Places
<1>5. UNION {{w} \X Places(worker[w].todo, r) : w \in Slots} = Spread(Todo, r)
  BY DEF Spread, Todo
<1>6. Copies(r) = Sum(b, r)
  <2>1. /\ Cardinality(holding \cap fresh) = InSet(fresh, b)
        /\ Cardinality(holding \cap waiting) = InSet(waiting, b)
        /\ Cardinality({i \in DOMAIN logCh : logCh[i] \in holding}) = Times(logCh, b)
        /\ Cardinality(UNION {{w} \X Places(worker[w].todo, r) : w \in Slots}) = AtWorkers(r)
    BY <1>3, <1>4, <1>5 DEF Times, AtWorkers
  <2> QED BY <2>1, Zenon DEF Copies, Sum, Fated
<1>7. AtWorkers(r) \in Nat BY <1>2, SpreadFinite DEF AtWorkers, Spread
<1>8. Times(logCh, b) \in Nat /\ Times(bwCh, r) \in Nat /\ Times(writer.batch, r) \in Nat
  BY TimesType DEF TypeOK
<1> QED BY <1>1, <1>2, <1>6, <1>7, <1>8 DEF TypeOK

LEMMA CopiesSumNext ==
    TypeOK' => \A b \in Batches : \A r \in ToSet(b) :
        /\ Copies(r)' = Sum(b, r)'
        /\ rows'[r] \in Nat /\ AtWorkers(r)' \in Nat
        /\ Times(logCh', b) \in Nat /\ Times(bwCh', r) \in Nat
        /\ Times(writer'.batch, r) \in Nat
        /\ Todo' \in [Slots -> Seq(Records)]
<1>1. TypeOK' => (\A b \in Batches : \A r \in ToSet(b) :
        /\ Copies(r) = Sum(b, r)
        /\ r \in Records /\ rows[r] \in Nat /\ AtWorkers(r) \in Nat
        /\ Times(logCh, b) \in Nat /\ Times(bwCh, r) \in Nat /\ Times(writer.batch, r) \in Nat
        /\ Todo \in [Slots -> Seq(Records)])'
  BY CopiesSum, PTL
<1> QED BY <1>1

\* A worker's step moves copies out of or into its own entries only.
LEMMA WorkerCopies ==
    ASSUME TypeOK, TypeOK', NEW w \in Slots,
           \A v \in Slots : v # w => worker'[v] = worker[v],
           NEW b \in Batches, NEW r \in ToSet(b)
    PROVE  /\ AtWorkers(r)' + Times(worker[w].todo, r)
                = AtWorkers(r) + Times(worker'[w].todo, r)
           /\ Times(worker[w].todo, r) \in Nat /\ Times(worker'[w].todo, r) \in Nat
<1>1. Todo \in [Slots -> Seq(Records)] /\ Todo' \in [Slots -> Seq(Records)]
  BY CopiesSum, CopiesSumNext
<1>2. \A v \in Slots : v # w => Todo'[v] = Todo[v] BY DEF Todo
<1>3. Todo[w] = worker[w].todo /\ Todo'[w] = worker'[w].todo BY DEF Todo
<1>4. Cardinality(Spread(Todo', r)) + Times(Todo[w], r)
        = Cardinality(Spread(Todo, r)) + Times(Todo'[w], r)
  BY <1>1, <1>2, SpreadChange
<1>5. Times(Todo[w], r) \in Nat /\ Times(Todo'[w], r) \in Nat BY <1>1, TimesType
<1> QED BY <1>3, <1>4, <1>5 DEF AtWorkers

\* Where the entries of no worker change, the copies do not.
LEMMA SameTodo ==
    ASSUME \A w \in Slots : worker'[w].todo = worker[w].todo, NEW r
    PROVE  AtWorkers(r)' = AtWorkers(r)
<1>1. Todo' = Todo BY DEF Todo
<1> QED BY <1>1 DEF AtWorkers

LEMMA EndedFate ==
    ASSUME NEW S, NEW how, how # "none", Ended(S, how), NEW r \in Records
    PROVE  Fated(r)' = IF r \in S THEN 1 ELSE Fated(r)
BY DEF Ended, Fated

\* No step adds a copy of a record or takes the last one.
LEMMA SumStep ==
    ASSUME TypeOK, TypeOK', Control, [Next]_vars,
           NEW b \in Batches, NEW r \in ToSet(b), Sum(b, r) = 1
    PROVE  Sum(b, r)' = 1
<1> USE DEF queue, intake, out
<1>t. /\ r \in Records /\ \A c \in Batches : r \in ToSet(c) <=> c = b
      /\ InSet(fresh, b) \in 0..1 /\ InSet(waiting, b) \in 0..1 /\ Fated(r) \in 0..1
      /\ rows[r] \in Nat /\ AtWorkers(r) \in Nat /\ Times(logCh, b) \in Nat
      /\ Times(bwCh, r) \in Nat /\ Times(writer.batch, r) \in Nat
  <2>1. r \in Records /\ \A c \in Batches : r \in ToSet(c) <=> c = b BY BatchFacts
  <2>2. InSet(fresh, b) \in 0..1 /\ InSet(waiting, b) \in 0..1 /\ Fated(r) \in 0..1
    BY DEF InSet, Fated
  <2> QED BY <2>1, <2>2, CopiesSum
<1>n. /\ Sum(b, r)' = InSet(fresh', b) + InSet(waiting', b) + Times(logCh', b) + AtWorkers(r)'
                        + Times(bwCh', r) + Times(writer'.batch, r) + rows'[r] + Fated(r)'
      /\ rows'[r] \in Nat /\ AtWorkers(r)' \in Nat /\ Times(logCh', b) \in Nat
      /\ Times(bwCh', r) \in Nat /\ Times(writer'.batch, r) \in Nat
  BY CopiesSumNext DEF Sum
<1>s. InSet(fresh, b) + InSet(waiting, b) + Times(logCh, b) + AtWorkers(r) + Times(bwCh, r)
        + Times(writer.batch, r) + rows[r] + Fated(r) = 1
  BY DEF Sum
<1>q. /\ logCh \in Seq(Batches) /\ bwCh \in Seq(Records) /\ writer.batch \in Seq(Records)
  BY DEF TypeOK
<1>1. ASSUME NEW c \in Batches, Submit(c) PROVE Sum(b, r)' = 1
  <2>1. /\ c \in fresh /\ fresh' = fresh \ {c} /\ UNCHANGED <<worker, bwCh, writer, rows>>
        /\ \/ logCh' = Append(logCh, c) /\ UNCHANGED <<waiting, fate>>
           \/ waiting' = waiting \cup {c} /\ UNCHANGED <<logCh, fate>>
           \/ Ended(ToSet(c), "rejected") /\ UNCHANGED <<logCh, waiting>>
    BY <1>1 DEF Submit
  <2>2. AtWorkers(r)' = AtWorkers(r) BY <2>1, SameTodo
  <2>3. InSet(fresh', b) = IF c = b THEN 0 ELSE InSet(fresh, b) BY <2>1 DEF InSet
  <2>4. c = b => InSet(fresh, b) = 1 BY <2>1 DEF InSet
  <2>8. /\ Times(bwCh', r) = Times(bwCh, r) /\ Times(writer'.batch, r) = Times(writer.batch, r)
        /\ rows'[r] = rows[r]
    BY <2>1
  <2>5. CASE logCh' = Append(logCh, c) /\ UNCHANGED <<waiting, fate>>
    <3>1. Times(logCh', b) = Times(logCh, b) + (IF c = b THEN 1 ELSE 0)
      BY <1>q, <2>5, TimesAppend
    <3>2. InSet(waiting', b) = InSet(waiting, b) /\ Fated(r)' = Fated(r)
      BY <2>5 DEF InSet, Fated
    <3> QED BY <1>t, <1>s, <1>n, <2>1, <2>2, <2>3, <2>4, <3>1, <3>2
  <2>6. CASE waiting' = waiting \cup {c} /\ UNCHANGED <<logCh, fate>>
    <3>1. InSet(waiting', b) = IF c = b THEN 1 ELSE InSet(waiting, b) BY <2>6 DEF InSet
    <3>2. Fated(r)' = Fated(r) BY <2>6 DEF Fated
    <3>3. Times(logCh', b) = Times(logCh, b) BY <2>6
    <3>4. CASE c = b BY <1>t, <1>s, <1>n, <2>2, <2>3, <2>4, <2>8, <3>1, <3>2, <3>3, <3>4
    <3>5. CASE c # b BY <1>t, <1>s, <1>n, <2>2, <2>3, <2>8, <3>1, <3>2, <3>3, <3>5
    <3> QED BY <3>4, <3>5
  <2>7. CASE Ended(ToSet(c), "rejected") /\ UNCHANGED <<logCh, waiting>>
    <3>1. Fated(r)' = IF c = b THEN 1 ELSE Fated(r) BY <1>t, <2>7, EndedFate
    <3>2. InSet(waiting', b) = InSet(waiting, b) BY <2>7 DEF InSet
    <3>3. Times(logCh', b) = Times(logCh, b) BY <2>7
    <3>4. CASE c = b BY <1>t, <1>s, <1>n, <2>2, <2>3, <2>4, <2>8, <3>1, <3>2, <3>3, <3>4
    <3>5. CASE c # b BY <1>t, <1>s, <1>n, <2>2, <2>3, <2>8, <3>1, <3>2, <3>3, <3>5
    <3> QED BY <3>4, <3>5
  <2> QED BY <2>1, <2>5, <2>6, <2>7
<1>2. ASSUME NEW c \in Batches, StopWaiting(c) PROVE Sum(b, r)' = 1
  <2>1. /\ c \in waiting /\ waiting' = waiting \ {c}
        /\ UNCHANGED <<fresh, worker, bwCh, writer, rows>>
        /\ \/ logCh' = Append(logCh, c) /\ UNCHANGED fate
           \/ Ended(ToSet(c), "rejected") /\ UNCHANGED logCh
    BY <1>2 DEF StopWaiting
  <2>2. AtWorkers(r)' = AtWorkers(r) BY <2>1, SameTodo
  <2>3. /\ InSet(waiting', b) = IF c = b THEN 0 ELSE InSet(waiting, b)
        /\ InSet(fresh', b) = InSet(fresh, b)
        /\ c = b => InSet(waiting, b) = 1
    BY <2>1 DEF InSet
  <2>6. /\ Times(bwCh', r) = Times(bwCh, r) /\ Times(writer'.batch, r) = Times(writer.batch, r)
        /\ rows'[r] = rows[r]
    BY <2>1
  <2>4. CASE logCh' = Append(logCh, c) /\ UNCHANGED fate
    <3>1. Times(logCh', b) = Times(logCh, b) + (IF c = b THEN 1 ELSE 0)
      BY <1>q, <2>4, TimesAppend
    <3>2. Fated(r)' = Fated(r) BY <2>4 DEF Fated
    <3> QED BY <1>t, <1>s, <1>n, <2>1, <2>2, <2>3, <2>4, <3>1, <3>2
  <2>5. CASE Ended(ToSet(c), "rejected") /\ UNCHANGED logCh
    <3>1. Fated(r)' = IF c = b THEN 1 ELSE Fated(r) BY <1>t, <2>5, EndedFate
    <3>2. Times(logCh', b) = Times(logCh, b) BY <2>5
    <3>3. CASE c = b BY <1>t, <1>s, <1>n, <2>2, <2>3, <2>6, <3>1, <3>2, <3>3
    <3>4. CASE c # b BY <1>t, <1>s, <1>n, <2>2, <2>3, <2>6, <3>1, <3>2, <3>4
    <3> QED BY <3>3, <3>4
  <2> QED BY <2>1, <2>4, <2>5
<1>3. ASSUME \A w \in Slots : worker'[w].todo = worker[w].todo,
             UNCHANGED <<fresh, waiting, logCh, bwCh, rows, fate>>,
             writer'.batch = writer.batch
      PROVE  Sum(b, r)' = 1
  <2>1. AtWorkers(r)' = AtWorkers(r) BY <1>3, SameTodo
  <2> QED BY <1>s, <1>3, <2>1 DEF Sum, InSet, Fated
<1>4. CASE Spawn
  <2>1. PICK S \in SUBSET (Slots \ Alive) :
          worker' = [w \in Slots |-> IF w \in S THEN Started("elastic") ELSE worker[w]]
    BY <1>4 DEF Spawn
  <2>2. \A w \in Slots : worker'[w].todo = worker[w].todo
    BY <2>1 DEF Started, Alive, Control, WorkersFit
  <2> QED BY <1>3, <1>4, <2>2 DEF Spawn
<1>5. ASSUME NEW w \in Slots,
             LeaveClosed(w) \/ LeaveCancelled(w) \/ LeaveIdle(w) \/ Leave(w)
      PROVE  Sum(b, r)' = 1
  <2>1. \A v \in Slots : worker'[v].todo = worker[v].todo
    <3>1. worker \in [Slots -> WorkerStates] BY DEF TypeOK, WorkerStates
    <3>2. CASE LeaveIdle(w) BY <3>1, <3>2 DEF LeaveIdle, WorkerStates
    <3>3. CASE worker' = [worker EXCEPT ![w] = Gone] /\ worker[w].todo = <<>>
      BY <3>1, <3>3 DEF Gone
    <3>4. LeaveClosed(w) \/ LeaveCancelled(w) \/ Leave(w) =>
            worker' = [worker EXCEPT ![w] = Gone] /\ worker[w].todo = <<>>
      BY DEF Control, WorkersFit, LeaveClosed, LeaveCancelled, Leave
    <3> QED BY <1>5, <3>2, <3>3, <3>4
  <2> QED BY <1>3, <1>5, <2>1 DEF LeaveClosed, LeaveCancelled, LeaveIdle, Leave
<1>6. ASSUME NEW w \in Slots, Receive(w) PROVE Sum(b, r)' = 1
  <2> DEFINE c == Head(logCh)
  <2>1. c \in Batches /\ logCh' = Tail(logCh) /\ logCh # <<>> /\ worker[w].todo = <<>>
    BY <1>q, <1>6, TailOf DEF Receive, Control, WorkersFit
  <2>2. worker'[w].todo = c /\ \A v \in Slots : v # w => worker'[v] = worker[v]
    BY <1>6 DEF Receive, TypeOK
  <2>3. Times(logCh, b) = Times(logCh', b) + (IF c = b THEN 1 ELSE 0)
    BY <1>q, <2>1, TimesTail
  <2> HIDE DEF c
  <2>4. Times(c, r) = IF c = b THEN 1 ELSE 0
    <3>1. c \in Seq(Records) BY <2>1, BatchFacts
    <3>2. c # b => Times(c, r) = 0 BY <1>t, <2>1, <3>1, TimesType
    <3>3. c = b => Times(c, r) = 1 BY <2>1, PipelineAssumption, TimesOnce
    <3> QED BY <3>2, <3>3
  <2>5. AtWorkers(r)' + 0 = AtWorkers(r) + Times(c, r)
    BY <2>1, <2>2, WorkerCopies, TimesEmpty
  <2>6. Times(logCh', b) \in Nat /\ AtWorkers(r)' \in Nat BY CopiesSumNext
  <2>7. UNCHANGED <<fresh, waiting, bwCh, writer, rows, fate>> BY <1>6 DEF Receive
  <2>8. InSet(fresh', b) = InSet(fresh, b) /\ InSet(waiting', b) = InSet(waiting, b)
        /\ Fated(r)' = Fated(r)
    BY <2>7 DEF InSet, Fated
  <2> QED BY <1>t, <1>s, <1>n, <2>3, <2>4, <2>5, <2>6, <2>7, <2>8
<1>7. ASSUME NEW w \in Slots, FinishBatch(w) PROVE Sum(b, r)' = 1
  <2>1. /\ worker'[w].todo = <<>> /\ \A v \in Slots : v # w => worker'[v] = worker[v]
        /\ Ended(ToSet(worker[w].todo), "skipped")
        /\ UNCHANGED <<fresh, waiting, logCh, bwCh, writer, rows>>
    BY <1>7 DEF FinishBatch, TypeOK
  <2>2. /\ Times(worker[w].todo, r) \in Nat
        /\ Times(worker[w].todo, r) = 0 <=> r \notin ToSet(worker[w].todo)
    BY WorkerState, TimesType
  <2>3. AtWorkers(r)' + Times(worker[w].todo, r) = AtWorkers(r) + 0
    BY <2>1, WorkerCopies, TimesEmpty
  <2>4. Fated(r)' = IF r \in ToSet(worker[w].todo) THEN 1 ELSE Fated(r)
    BY <1>t, <2>1, EndedFate
  <2>5. AtWorkers(r)' \in Nat BY CopiesSumNext
  <2>6. InSet(fresh', b) = InSet(fresh, b) /\ InSet(waiting', b) = InSet(waiting, b)
    BY <2>1 DEF InSet
  <2>7. /\ Times(bwCh', r) = Times(bwCh, r) /\ Times(writer'.batch, r) = Times(writer.batch, r)
        /\ rows'[r] = rows[r] /\ Times(logCh', b) = Times(logCh, b)
    BY <2>1
  <2>8. CASE r \in ToSet(worker[w].todo)
    <3>1. AtWorkers(r) > 0 /\ AtWorkers(r)' < AtWorkers(r) BY <1>t, <2>2, <2>3, <2>5, <2>8
    <3>2. /\ AtWorkers(r) = 1 /\ rows[r] = 0 /\ Times(logCh, b) = 0 /\ Times(bwCh, r) = 0
          /\ Times(writer.batch, r) = 0 /\ InSet(fresh, b) = 0 /\ InSet(waiting, b) = 0
      BY <1>t, <1>s, <3>1
    <3>3. AtWorkers(r)' = 0 /\ Fated(r)' = 1 BY <2>4, <2>5, <2>8, <3>1, <3>2
    <3> QED BY <1>n, <2>6, <2>7, <3>2, <3>3
  <2>9. CASE r \notin ToSet(worker[w].todo)
    BY <1>t, <1>s, <1>n, <2>2, <2>3, <2>4, <2>6, <2>7, <2>9
  <2> QED BY <2>8, <2>9
<1>8. ASSUME NEW w \in Slots, worker[w].todo # <<>>, worker'[w].todo = Tail(worker[w].todo),
             \A v \in Slots : v # w => worker'[v] = worker[v],
             UNCHANGED <<fresh, waiting, logCh, writer, rows>>,
             \/ \E how \in Fates \ {"none"} :
                  Ended({Head(worker[w].todo)}, how) /\ UNCHANGED bwCh
             \/ bwCh' = Append(bwCh, Head(worker[w].todo)) /\ UNCHANGED fate
      PROVE  Sum(b, r)' = 1
  <2> DEFINE h == Head(worker[w].todo)
  <2>0. worker[w].todo \in Seq(Records) /\ h \in Records BY <1>8, WorkerState, TailOf
  <2>1. Times(worker[w].todo, r) = Times(worker'[w].todo, r) + (IF h = r THEN 1 ELSE 0)
    BY <1>8, <2>0, TimesTail
  <2>2. /\ AtWorkers(r)' + Times(worker[w].todo, r) = AtWorkers(r) + Times(worker'[w].todo, r)
        /\ Times(worker[w].todo, r) \in Nat /\ Times(worker'[w].todo, r) \in Nat
    BY <1>8, WorkerCopies
  <2>3. AtWorkers(r)' \in Nat BY CopiesSumNext
  <2>4. InSet(fresh', b) = InSet(fresh, b) /\ InSet(waiting', b) = InSet(waiting, b)
    <3>1. fresh' = fresh /\ waiting' = waiting BY <1>8
    <3> QED BY <3>1
  <2>8. /\ Times(writer'.batch, r) = Times(writer.batch, r)
        /\ rows'[r] = rows[r] /\ Times(logCh', b) = Times(logCh, b)
    BY <1>8
  <2>5. AtWorkers(r) = AtWorkers(r)' + (IF h = r THEN 1 ELSE 0) BY <1>t, <2>1, <2>2, <2>3
  <2>6. CASE \E how \in Fates \ {"none"} : Ended({h}, how) /\ UNCHANGED bwCh
    <3>1. Fated(r)' = IF h = r THEN 1 ELSE Fated(r) BY <1>t, <2>6, EndedFate
    <3>2. Times(bwCh', r) = Times(bwCh, r) BY <2>6
    <3> HIDE DEF h
    <3>3. CASE h = r BY <1>t, <1>s, <1>n, <2>4, <2>5, <2>8, <3>1, <3>2, <3>3
    <3>4. CASE h # r BY <1>t, <1>s, <1>n, <2>4, <2>5, <2>8, <3>1, <3>2, <3>4
    <3> QED BY <3>3, <3>4
  <2>7. CASE bwCh' = Append(bwCh, h) /\ UNCHANGED fate
    <3>1. Times(bwCh', r) = Times(bwCh, r) + (IF h = r THEN 1 ELSE 0)
      BY <1>q, <2>0, <2>7, TimesAppend
    <3>2. Fated(r)' = Fated(r) BY <2>7 DEF Fated
    <3> HIDE DEF h
    <3> QED BY <1>t, <1>s, <1>n, <2>4, <2>5, <2>8, <3>1, <3>2
  <2> QED BY <1>8, <2>6, <2>7
<1>9. ASSUME NEW w \in Slots, Process(w) PROVE Sum(b, r)' = 1
  <2>1. CASE worker' = [worker EXCEPT ![w].pc = "write"] /\ UNCHANGED fate
    <3>1. \A v \in Slots : worker'[v].todo = worker[v].todo BY <2>1 DEF TypeOK
    <3> QED BY <1>3, <1>9, <2>1, <3>1 DEF Process
  <2>2. CASE /\ worker' = [worker EXCEPT ![w].todo = Tail(worker[w].todo)]
             /\ Ended({Head(worker[w].todo)}, "skipped")
    <3>1. worker'[w].todo = Tail(worker[w].todo) /\ \A v \in Slots : v # w => worker'[v] = worker[v]
      BY <2>2 DEF TypeOK
    <3>2. "skipped" \in Fates \ {"none"} BY DEF Fates
    <3>3. worker[w].todo # <<>> /\ UNCHANGED <<fresh, waiting, logCh, writer, rows, bwCh>>
      BY <1>9 DEF Process
    <3> QED BY <1>8, <2>2, <3>1, <3>2, <3>3
  <2> QED BY <1>9, <2>1, <2>2 DEF Process
<1>10. ASSUME NEW w \in Slots, WriteRecord(w) PROVE Sum(b, r)' = 1
  <2>1. CASE Panic
    <3>1. /\ waiting' = {} /\ logCh' = <<>> /\ worker' = [v \in Slots |-> Gone]
          /\ bwCh' = <<>> /\ writer'.batch = <<>> /\ Ended(InMemory, "panic")
          /\ UNCHANGED <<fresh, rows>>
      BY <2>1 DEF Panic, Stopped
    <3>2. Todo' = [v \in Slots |-> <<>>] BY <3>1 DEF Todo, Gone
    <3>3. AtWorkers(r)' = 0
      <4>1. Spread(Todo', r) = {} BY <3>2 DEF Spread, Places
      <4> QED BY <4>1, FS_EmptySet DEF AtWorkers
    <3>4. Times(logCh', b) = 0 /\ Times(bwCh', r) = 0 /\ Times(writer'.batch, r) = 0
      BY <3>1, TimesEmpty
    <3>5. InSet(waiting', b) = 0 /\ InSet(fresh', b) = InSet(fresh, b) BY <3>1 DEF InSet
    <3>6. r \in InMemory <=> (rows[r] = 0 /\ Fated(r) = 0 /\ InSet(fresh, b) = 0)
      <4>1. (\A c \in fresh : r \notin ToSet(c)) <=> b \notin fresh BY <1>t DEF TypeOK
      <4>2. r \in InMemory <=> (rows[r] = 0 /\ fate[r] = "none" /\ b \notin fresh)
        BY <1>t, <4>1 DEF InMemory
      <4>3. (Fated(r) = 0 <=> fate[r] = "none") /\ (InSet(fresh, b) = 0 <=> b \notin fresh)
        BY DEF Fated, InSet
      <4> QED BY <4>2, <4>3
    <3>7. Fated(r)' = IF r \in InMemory THEN 1 ELSE Fated(r) BY <1>t, <3>1, EndedFate
    <3>8. rows'[r] = rows[r] BY <3>1
    <3>9. CASE r \in InMemory BY <1>t, <1>n, <3>3, <3>4, <3>5, <3>6, <3>7, <3>8, <3>9
    <3>10. CASE r \notin InMemory
      BY <1>t, <1>s, <1>n, <3>3, <3>4, <3>5, <3>6, <3>7, <3>8, <3>10
    <3> QED BY <3>9, <3>10
  <2>2. CASE ~ bwClosed
    <3>1. worker[w].todo # <<>> BY <1>10 DEF WriteRecord, Control, WorkersFit
    <3>2. /\ worker' = [worker EXCEPT ![w].pc = "entries", ![w].todo = Tail(worker[w].todo)]
          /\ UNCHANGED <<fresh, waiting, logCh, writer, rows>>
      BY <1>10, <2>2 DEF WriteRecord
    <3>3. worker'[w].todo = Tail(worker[w].todo) /\ \A v \in Slots : v # w => worker'[v] = worker[v]
      BY <3>2 DEF TypeOK
    <3>4. \/ Ended({Head(worker[w].todo)}, "overflow") /\ UNCHANGED bwCh
          \/ bwCh' = Append(bwCh, Head(worker[w].todo)) /\ UNCHANGED fate
      BY <1>10, <2>2 DEF WriteRecord
    <3>5. "overflow" \in Fates \ {"none"} BY DEF Fates
    <3> QED BY <1>8, <3>1, <3>2, <3>3, <3>4, <3>5
  <2> QED BY <1>10, <2>1, <2>2 DEF WriteRecord
<1>11. CASE Collect
  <2> DEFINE h == Head(bwCh)
  <2>1. h \in Records /\ bwCh' = Tail(bwCh) /\ bwCh # <<>> BY <1>q, <1>11, TailOf DEF Collect
  <2>2. writer'.batch = Append(writer.batch, h) BY <1>11 DEF Collect, StartFlush, TypeOK
  <2>3. Times(bwCh, r) = Times(bwCh', r) + (IF h = r THEN 1 ELSE 0) BY <1>q, <2>1, TimesTail
  <2>4. Times(writer'.batch, r) = Times(writer.batch, r) + (IF h = r THEN 1 ELSE 0)
    BY <1>q, <2>1, <2>2, TimesAppend
  <2>5. Times(bwCh', r) \in Nat BY CopiesSumNext
  <2>6. UNCHANGED <<fresh, waiting, logCh, worker, rows, fate>> BY <1>11 DEF Collect
  <2>7. AtWorkers(r)' = AtWorkers(r) BY <2>6, SameTodo
  <2>8. /\ InSet(fresh', b) = InSet(fresh, b) /\ InSet(waiting', b) = InSet(waiting, b)
        /\ Fated(r)' = Fated(r)
    BY <2>6 DEF InSet, Fated
  <2> HIDE DEF h
  <2> QED BY <1>t, <1>s, <1>n, <2>3, <2>4, <2>5, <2>6, <2>7, <2>8
<1>12. CASE Flush \/ FinalFlush
  <2>1. /\ writer'.batch = <<>> /\ UNCHANGED <<fresh, waiting, logCh, worker, bwCh>>
        /\ Inserted(writer.batch) \/ (Ended(ToSet(writer.batch), "flush") /\ UNCHANGED rows)
    BY <1>12 DEF Flush, FinalFlush, Stopped, Refused
  <2>2. Times(writer'.batch, r) = 0 /\ AtWorkers(r)' = AtWorkers(r)
    BY <2>1, TimesEmpty, SameTodo
  <2>3. Times(writer.batch, r) = 0 <=> r \notin ToSet(writer.batch) BY <1>q, TimesType
  <2>4. InSet(fresh', b) = InSet(fresh, b) /\ InSet(waiting', b) = InSet(waiting, b)
    BY <2>1 DEF InSet
  <2>7. Times(bwCh', r) = Times(bwCh, r) /\ Times(logCh', b) = Times(logCh, b) BY <2>1
  <2>5. CASE Inserted(writer.batch)
    <3>1. /\ rows'[r] = IF r \in ToSet(writer.batch) THEN rows[r] + 1 ELSE rows[r]
          /\ Fated(r)' = Fated(r)
      BY <1>t, <2>5 DEF Inserted, Fated
    <3>2. CASE r \in ToSet(writer.batch)
      BY <1>t, <1>s, <1>n, <2>2, <2>3, <2>4, <2>7, <3>1, <3>2
    <3>3. CASE r \notin ToSet(writer.batch)
      BY <1>t, <1>s, <1>n, <2>2, <2>3, <2>4, <2>7, <3>1, <3>3
    <3> QED BY <3>2, <3>3
  <2>6. CASE Ended(ToSet(writer.batch), "flush") /\ UNCHANGED rows
    <3>1. Fated(r)' = IF r \in ToSet(writer.batch) THEN 1 ELSE Fated(r)
      BY <1>t, <2>6, EndedFate
    <3>4. rows'[r] = rows[r] BY <2>6
    <3>2. CASE r \in ToSet(writer.batch)
      BY <1>t, <1>s, <1>n, <2>2, <2>3, <2>4, <2>7, <3>1, <3>2, <3>4
    <3>3. CASE r \notin ToSet(writer.batch)
      BY <1>t, <1>s, <1>n, <2>2, <2>3, <2>4, <2>7, <3>1, <3>3, <3>4
    <3> QED BY <3>2, <3>3
  <2> QED BY <2>1, <2>5, <2>6
<1>13. CASE CloseWriter
  <2>1. writer'.batch = writer.batch \o bwCh /\ bwCh' = <<>>
        /\ UNCHANGED <<fresh, waiting, logCh, worker, rows, fate>>
    BY <1>13 DEF CloseWriter, Stopped
  <2>2. Times(writer'.batch, r) = Times(writer.batch, r) + Times(bwCh, r)
    BY <1>q, <2>1, TimesConcat
  <2>3. Times(bwCh', r) = 0 /\ AtWorkers(r)' = AtWorkers(r) BY <2>1, TimesEmpty, SameTodo
  <2>4. /\ InSet(fresh', b) = InSet(fresh, b) /\ InSet(waiting', b) = InSet(waiting, b)
        /\ Fated(r)' = Fated(r)
    BY <2>1 DEF InSet, Fated
  <2>5. rows'[r] = rows[r] /\ Times(logCh', b) = Times(logCh, b) BY <2>1
  <2> QED BY <1>t, <1>s, <1>n, <2>2, <2>3, <2>4, <2>5
<1>14. CASE \/ StopIngest \/ Scale \/ ClosePool \/ PoolDone \/ FlushTick
            \/ Shutdown \/ Exit \/ Rest \/ UNCHANGED vars
  <2>1. UNCHANGED <<worker, fresh, logCh, bwCh, rows, fate>>
    BY <1>14 DEF StopIngest, Scale, ClosePool, PoolDone, FlushTick, Shutdown, Exit, Rest, vars
  <2>2. UNCHANGED waiting /\ writer'.batch = writer.batch
    BY <1>14 DEF StopIngest, Scale, ClosePool, PoolDone, FlushTick, StartFlush, Shutdown, Exit,
       Rest, vars
  <2> QED BY <1>3, <2>1, <2>2
<1> QED BY <1>1, <1>2, <1>4, <1>5, <1>6, <1>7, <1>9, <1>10, <1>11, <1>12, <1>13, <1>14
        DEF Next, IngestStep, PoolStep, WorkerStep, WriterStep

LEMMA ConservationBySum ==
    TypeOK => (Conservation <=> \A b \in Batches : \A r \in ToSet(b) : Sum(b, r) = 1)
<1> SUFFICES ASSUME TypeOK
             PROVE  Conservation <=> \A b \in Batches : \A r \in ToSet(b) : Sum(b, r) = 1
  OBVIOUS
<1>1. \A b \in Batches : \A r \in ToSet(b) : r \in Records /\ Copies(r) = Sum(b, r)
  BY CopiesSum
<1>2. \A r \in Records : \E b \in Batches : r \in ToSet(b) BY BatchFacts
<1> QED BY <1>1, <1>2 DEF Conservation

LEMMA ConservationBySumNext ==
    TypeOK' => (Conservation' <=> \A b \in Batches : \A r \in ToSet(b) : Sum(b, r)' = 1)
<1>1. TypeOK' =>
        (Conservation <=> \A b \in Batches : \A r \in ToSet(b) : Sum(b, r) = 1)'
  BY ConservationBySum, PTL
<1> QED BY <1>1

LEMMA ConservationStep ==
    TypeOK /\ TypeOK' /\ Control /\ Conservation /\ [Next]_vars => Conservation'
<1> SUFFICES ASSUME TypeOK, TypeOK', Control, Conservation, [Next]_vars PROVE Conservation'
  OBVIOUS
<1>1. \A b \in Batches : \A r \in ToSet(b) : Sum(b, r) = 1 BY ConservationBySum
<1>2. \A b \in Batches : \A r \in ToSet(b) : Sum(b, r)' = 1 BY <1>1, SumStep
<1> QED BY <1>2, ConservationBySumNext
-----------------------------------------------------------------------------
LEMMA InitTypeOK == Init => TypeOK
<1> SUFFICES ASSUME Init PROVE TypeOK
  OBVIOUS
<1>1. /\ <<>> \in Seq(Records) /\ <<>> \in Seq(Batches) /\ Len(<<>>) = 0 BY EmptySeq
<1>2. PICK S \in SUBSET Slots : worker = [w \in Slots |-> IF w \in S THEN Started("base") ELSE Gone]
  BY DEF Init
<1>3. Started("base") \in WorkerStates /\ Gone \in WorkerStates
  BY <1>1 DEF WorkerStates, Started, Gone, WorkerPc
<1>4. worker \in [Slots -> WorkerStates] BY <1>2, <1>3
<1>5. writer \in WriterStates BY <1>1 DEF Init, WriterStates
<1>6. rows \in [Records -> Nat] /\ fate \in [Records -> Fates] BY DEF Init, Fates
<1>7. Len(logCh) <= LogCap /\ Len(bwCh) <= BwCap /\ faults \in 0..MaxFaults
  BY <1>1, Sizes DEF Init
<1>8. logCh \in Seq(Batches) /\ bwCh \in Seq(Records) BY <1>1 DEF Init
<1> QED BY <1>4, <1>5, <1>6, <1>7, <1>8 DEF Init, TypeOK, WorkerStates, WriterStates, Phases

LEMMA InitControl == Init => Control
<1> SUFFICES ASSUME Init PROVE Control
  OBVIOUS
<1>1. PICK S \in SUBSET Slots :
        /\ Cardinality(S) = Base
        /\ worker = [w \in Slots |-> IF w \in S THEN Started("base") ELSE Gone]
  BY DEF Init
<1>2. WorkersFit BY <1>1 DEF WorkersFit, Started, Gone
<1>3. BaseAlive BY <1>1 DEF BaseAlive, Started
<1>4. Alive = S BY <1>1 DEF Alive, Started, Gone
<1>5. Cardinality(Alive) <= MaxWorkers BY <1>1, <1>4, Sizes
<1>6. PoolFits BY <1>3, <1>5 DEF Init, PoolFits
<1>7. IngestFits /\ WriterFits /\ ExitFits BY DEF Init, IngestFits, WriterFits, ExitFits
<1> QED BY <1>2, <1>6, <1>7 DEF Control

LEMMA InitConservation == Init => Conservation
<1> SUFFICES ASSUME Init PROVE Conservation
  OBVIOUS
<1>1. TypeOK BY InitTypeOK
<1>2. ASSUME NEW b \in Batches, NEW r \in ToSet(b) PROVE Sum(b, r) = 1
  <2>1. r \in Records BY BatchFacts
  <2>2. InSet(fresh, b) = 1 /\ InSet(waiting, b) = 0 BY DEF Init, InSet
  <2>3. rows[r] = 0 /\ Fated(r) = 0 BY <2>1 DEF Init, Fated
  <2>4. Times(logCh, b) = 0 /\ Times(bwCh, r) = 0 /\ Times(writer.batch, r) = 0
    BY TimesEmpty DEF Init
  <2>5. AtWorkers(r) = 0
    <3>0. PICK S \in SUBSET Slots :
            worker = [w \in Slots |-> IF w \in S THEN Started("base") ELSE Gone]
      BY DEF Init
    <3>1. \A w \in Slots : worker[w].todo = <<>> BY <3>0 DEF Started, Gone
    <3>2. Spread(Todo, r) = {} BY <3>1 DEF Spread, Todo, Places
    <3> QED BY <3>2, FS_EmptySet DEF AtWorkers
  <2> QED BY <2>2, <2>3, <2>4, <2>5 DEF Sum
<1> QED BY <1>1, <1>2, ConservationBySum

\* The inductive invariant.
LEMMA Inductive ==
    /\ Init => IInv
    /\ IInv /\ [Next]_vars => IInv'
<1>1. Init => IInv BY InitTypeOK, InitControl, InitConservation DEF IInv
<1>2. IInv /\ [Next]_vars => IInv'
  BY TypeStep, ControlStep, ConservationStep DEF IInv, Control
<1> QED BY <1>1, <1>2

-----------------------------------------------------------------------------
LEMMA Invariance == Spec => []IInv
BY Inductive, PTL DEF Spec

\* The variables of the pipeline keep their types; the queues never hold more
\* than their capacities, and the database refuses no more than MaxFaults inserts.
THEOREM TypeCorrect == Spec => []TypeOK
<1>1. IInv => TypeOK BY DEF IInv
<1> QED BY <1>1, Invariance, PTL

\* Every record is in exactly one place: not submitted, with its producer, in the
\* log queue, with a worker, in the writer's queue or batch, in the table once, or
\* given up (EnqueueEntries, ProcessEntries, BatchWriter), through shutdown and panic.
THEOREM NothingLost == Spec => []Conservation
<1>1. IInv => Conservation BY DEF IInv
<1> QED BY <1>1, Invariance, PTL

\* The scaler and the idle timers keep the pool between its base and its maximum
\* until the context is cancelled (StartWorkerPool, runLogWorker).
THEOREM PoolBounded == Spec => []PoolWithinBounds
<1>1. IInv => PoolWithinBounds
  <2> SUFFICES ASSUME IInv, phase = "up" PROVE Cardinality(Alive) \in Base..MaxWorkers
    BY DEF PoolWithinBounds
  <2>1. BaseAlive BY DEF IInv, Control, PoolFits, Cancelled
  <2>2. PICK S \in SUBSET Slots : Cardinality(S) = Base /\ \A w \in S : worker[w].kind = "base"
    BY <2>1 DEF BaseAlive
  <2>3. S \subseteq Alive BY <2>2 DEF Alive, IInv, Control, WorkersFit
  <2>4. Base <= Cardinality(Alive) BY <2>2, <2>3, AliveFinite, FS_Subset
  <2>5. Cardinality(Alive) <= MaxWorkers BY DEF IInv, Control, PoolFits
  <2> QED BY <2>4, <2>5, AliveFinite, Sizes
<1> QED BY <1>1, Invariance, PTL

\* When the process has exited in order, no queue, worker or buffer still holds a
\* record that was submitted (main's wg.Wait over ingest, the pool and the writer).
THEOREM SettledWhenOver == Spec => []SettledAtExit
<1>1. IInv => SettledAtExit
  <2> SUFFICES ASSUME IInv, phase = "exited", NEW r \in Records,
                      ~ (\E b \in fresh : r \in ToSet(b)), fate[r] = "none"
               PROVE  rows[r] = 1
    BY DEF SettledAtExit
  <2>1. PICK b \in Batches : r \in ToSet(b) BY BatchFacts
  <2>2. TypeOK /\ Conservation /\ Control BY DEF IInv
  <2>3. Sum(b, r) = 1 BY <2>1, <2>2, ConservationBySum
  <2>4. waiting = {} /\ pool.pc = "done" /\ bwClosed /\ writer.batch = <<>> /\ bwCh = <<>>
    BY <2>2 DEF Control, ExitFits, IngestFits, WriterFits
  <2>5. Alive = {} /\ logClosed BY <2>2, <2>4 DEF Control, PoolFits
  <2>6. ~ BaseAlive
    <3>1. ASSUME BaseAlive PROVE FALSE
      <4>1. PICK S \in SUBSET Slots :
              Cardinality(S) = Base /\ \A w \in S : worker[w].kind = "base"
        BY <3>1 DEF BaseAlive
      <4>2. S = {} BY <2>2, <2>5, <4>1 DEF Alive, Control, WorkersFit
      <4> QED BY <4>1, <4>2, FS_EmptySet, Sizes
    <3> QED BY <3>1
  <2>7. logCh = <<>> BY <2>2, <2>6 DEF Control, PoolFits
  <2>8. AtWorkers(r) = 0
    <3>1. \A w \in Slots : worker[w].todo = <<>>
      BY <2>2, <2>5 DEF Alive, Control, WorkersFit
    <3>2. Spread(Todo, r) = {} BY <3>1 DEF Spread, Todo, Places
    <3> QED BY <3>2, FS_EmptySet DEF AtWorkers
  <2>9. InSet(fresh, b) = 0 /\ InSet(waiting, b) = 0 /\ Fated(r) = 0
    BY <2>1, <2>4 DEF InSet, Fated
  <2>10. Times(logCh, b) = 0 /\ Times(bwCh, r) = 0 /\ Times(writer.batch, r) = 0
    BY <2>4, <2>7, TimesEmpty
  <2>11. rows[r] \in Nat BY <2>1, <2>2, CopiesSum
  <2> QED BY <2>3, <2>8, <2>9, <2>10, <2>11 DEF Sum
<1> QED BY <1>1, Invariance, PTL
-----------------------------------------------------------------------------
(* The pipeline implements the ledger of its records. *)

\* What no step undoes: submissions, rows and losses; a batch that is being
\* submitted adds no row.
Onward ==
    /\ fresh' \subseteq fresh
    /\ fresh' = fresh \/ rows' = rows
    /\ \A r \in Records : rows'[r] >= rows[r]
    /\ \A r \in Records : fate[r] # "none" => fate'[r] # "none"

LEMMA OnwardStep == TypeOK /\ [Next]_vars => Onward
<1> SUFFICES ASSUME TypeOK, [Next]_vars PROVE Onward
  OBVIOUS
<1> USE DEF queue, intake, out
<1>r. \A r \in Records : rows[r] \in Nat BY DEF TypeOK
<1>e. ASSUME NEW S, NEW how, how # "none", Ended(S, how)
      PROVE  \A r \in Records : fate[r] # "none" => fate'[r] # "none"
  BY <1>e DEF Ended
<1>1. CASE UNCHANGED <<fresh, rows, fate>> BY <1>1, <1>r DEF Onward
<1>2. ASSUME NEW b \in Batches, Submit(b) \/ StopWaiting(b) PROVE Onward
  <2>1. fresh' \subseteq fresh /\ UNCHANGED rows /\ (UNCHANGED fate \/ Ended(ToSet(b), "rejected"))
    BY <1>2 DEF Submit, StopWaiting
  <2> QED BY <1>r, <1>e, <2>1 DEF Onward
<1>3. ASSUME NEW w \in Slots, WorkerStep(w) PROVE Onward
  <2>1. /\ UNCHANGED <<fresh, rows>>
        /\ \/ UNCHANGED fate
           \/ \E S : Ended(S, "skipped") \/ Ended(S, "overflow") \/ Ended(S, "panic")
    BY <1>3 DEF WorkerStep, Receive, LeaveClosed, LeaveCancelled, LeaveIdle, Leave,
       FinishBatch, Process, WriteRecord, Panic
  <2>2. \A r \in Records : fate[r] # "none" => fate'[r] # "none" BY <1>e, <2>1
  <2> QED BY <1>r, <2>1, <2>2 DEF Onward
<1>4. CASE Flush \/ FinalFlush
  <2>1. /\ UNCHANGED fresh
        /\ \/ Inserted(writer.batch)
           \/ Ended(ToSet(writer.batch), "flush") /\ UNCHANGED rows
    BY <1>4 DEF Flush, FinalFlush, Refused
  <2>2. CASE Inserted(writer.batch)
    <3>1. \A r \in Records : rows'[r] >= rows[r] BY <1>r, <2>2 DEF Inserted
    <3> QED BY <2>1, <2>2, <3>1 DEF Onward, Inserted
  <2>3. CASE Ended(ToSet(writer.batch), "flush") /\ UNCHANGED rows
    BY <1>r, <1>e, <2>1, <2>3 DEF Onward
  <2> QED BY <2>1, <2>2, <2>3
<1>5. StopIngest \/ PoolStep \/ Collect \/ FlushTick \/ CloseWriter \/ Shutdown \/ Exit \/ Rest
        \/ UNCHANGED vars => UNCHANGED <<fresh, rows, fate>>
  BY DEF StopIngest, PoolStep, Scale, Spawn, ClosePool, PoolDone, Collect, FlushTick,
     CloseWriter, Shutdown, Exit, Rest, vars
<1> QED BY <1>1, <1>2, <1>3, <1>4, <1>5 DEF Next, IngestStep, WriterStep

\* The status of a record, from the counts of its batch.
LEMMA StatusFacts ==
    TypeOK => \A b \in Batches : \A r \in ToSet(b) :
        StatusOf(r) = IF InSet(fresh, b) = 1 THEN "fresh"
                      ELSE IF rows[r] > 0 \/ Fated(r) = 1 THEN "settled" ELSE "held"
<1> SUFFICES ASSUME TypeOK, NEW b \in Batches, NEW r \in ToSet(b)
             PROVE  StatusOf(r) = IF InSet(fresh, b) = 1 THEN "fresh"
                                  ELSE IF rows[r] > 0 \/ Fated(r) = 1 THEN "settled" ELSE "held"
  OBVIOUS
<1>1. (\E c \in fresh : r \in ToSet(c)) <=> InSet(fresh, b) = 1
  BY BatchFacts DEF InSet, TypeOK
<1>2. Fated(r) = 1 <=> fate[r] # "none" BY DEF Fated
<1> QED BY <1>1, <1>2 DEF StatusOf

LEMMA StatusFactsNext ==
    TypeOK' => \A b \in Batches : \A r \in ToSet(b) :
        StatusOf(r)' = IF InSet(fresh', b) = 1 THEN "fresh"
                       ELSE IF rows'[r] > 0 \/ Fated(r)' = 1 THEN "settled" ELSE "held"
<1>1. TypeOK' => (\A b \in Batches : \A r \in ToSet(b) :
        StatusOf(r) = IF InSet(fresh, b) = 1 THEN "fresh"
                      ELSE IF rows[r] > 0 \/ Fated(r) = 1 THEN "settled" ELSE "held")'
  BY StatusFacts, PTL
<1> QED BY <1>1

LEMMA LedgerInit == Init => L!Init
<1> SUFFICES ASSUME Init PROVE L!Init
  OBVIOUS
<1>1. \A r \in Records : StatusOf(r) = "fresh" BY BatchFacts DEF Init, StatusOf
<1> QED BY <1>1 DEF Init, L!Init

\* Each record is accepted, settled or kept as it is.
LEMMA LedgerStep == IInv /\ IInv' /\ [Next]_vars => L!Next
<1> SUFFICES ASSUME IInv, IInv', [Next]_vars PROVE L!Next
  OBVIOUS
<1> DEFINE status == [r \in Records |-> StatusOf(r)]
<1>1. TypeOK /\ TypeOK' /\ Onward BY OnwardStep DEF IInv
<1>2. status' = [r \in Records |-> StatusOf(r)'] OBVIOUS
<1>3. status' \in [Records -> {"fresh", "held", "settled"}] BY <1>2 DEF StatusOf
<1>4. rows' \in [Records -> Nat] BY <1>1 DEF TypeOK
<1>5. ASSUME NEW r \in Records
      PROVE  \/ /\ status[r] = "fresh" /\ status'[r] \in {"held", "settled"}
                /\ rows'[r] = rows[r]
             \/ /\ status[r] = "held" /\ status'[r] = "settled"
                /\ rows'[r] \in {rows[r], rows[r] + 1}
             \/ status'[r] = status[r] /\ rows'[r] = rows[r]
  <2>1. PICK b \in Batches : r \in ToSet(b) BY BatchFacts
  <2> DEFINE new == InSet(fresh, b)
             newN == InSet(fresh', b)
             lost == Fated(r)
             lostN == Fated(r)'
             m == rows[r]
             n == rows'[r]
  <2>2. Sum(b, r) = 1 /\ Sum(b, r)' = 1
    BY <1>1, <2>1, ConservationBySum, ConservationBySumNext DEF IInv
  <2>3. new + m + lost <= 1
    <3>1. /\ Times(logCh, b) \in Nat /\ AtWorkers(r) \in Nat /\ Times(bwCh, r) \in Nat
          /\ Times(writer.batch, r) \in Nat /\ m \in Nat
      BY <1>1, <2>1, CopiesSum
    <3>2. new \in 0..1 /\ InSet(waiting, b) \in 0..1 /\ lost \in 0..1 BY DEF InSet, Fated
    <3> QED BY <2>2, <3>1, <3>2 DEF Sum
  <2>4. newN + n + lostN <= 1
    <3>1. /\ Times(logCh', b) \in Nat /\ AtWorkers(r)' \in Nat /\ Times(bwCh', r) \in Nat
          /\ Times(writer'.batch, r) \in Nat /\ n \in Nat
      BY <1>1, <2>1, CopiesSumNext
    <3>2. newN \in 0..1 /\ InSet(waiting', b) \in 0..1 /\ lostN \in 0..1 BY DEF InSet, Fated
    <3>3. InSet(fresh', b) + InSet(waiting', b) + Times(logCh', b) + AtWorkers(r)'
            + Times(bwCh', r) + Times(writer'.batch, r) + rows'[r] + Fated(r)' = 1
      BY <2>2 DEF Sum
    <3> QED BY <3>1, <3>2, <3>3
  <2>5. new \in 0..1 /\ newN \in 0..1 /\ lost \in 0..1 /\ lostN \in 0..1 BY DEF InSet, Fated
  <2>6. m \in Nat /\ n \in Nat BY <1>1 DEF TypeOK
  <2>7. n >= m /\ newN <= new /\ lostN >= lost /\ (newN = new \/ n = m)
    <3>1. newN <= new /\ (newN = new \/ n = m) BY <1>1 DEF Onward, InSet
    <3>2. n >= m BY <1>1 DEF Onward
    <3>3. lostN >= lost BY <1>1 DEF Onward, Fated
    <3> QED BY <3>1, <3>2, <3>3
  <2>8. status[r] = IF new = 1 THEN "fresh" ELSE IF m > 0 \/ lost = 1 THEN "settled" ELSE "held"
    BY <1>1, <2>1, StatusFacts
  <2>9. status'[r] = IF newN = 1 THEN "fresh"
                     ELSE IF n > 0 \/ lostN = 1 THEN "settled" ELSE "held"
    BY <1>1, <1>2, <2>1, StatusFactsNext
  <2> HIDE DEF new, newN, lost, lostN, m, n
  <2>10. CASE new = 1
    <3>1. m = 0 /\ n = 0 BY <2>3, <2>4, <2>5, <2>6, <2>7, <2>10
    <3> QED BY <2>8, <2>9, <2>10, <3>1 DEF m, n
  <2>11. CASE new = 0 /\ (m > 0 \/ lost = 1)
    <3>1. newN = 0 /\ n = m /\ (n > 0 \/ lostN = 1)
      BY <2>3, <2>4, <2>5, <2>6, <2>7, <2>11
    <3> QED BY <2>8, <2>9, <2>11, <3>1 DEF m, n
  <2>12. CASE new = 0 /\ ~ (m > 0 \/ lost = 1)
    <3>1. newN = 0 /\ m = 0 /\ n \in {0, 1} BY <2>4, <2>5, <2>6, <2>7, <2>12
    <3> QED BY <2>8, <2>9, <2>12, <3>1 DEF m, n
  <2> QED BY <2>5, <2>10, <2>11, <2>12
<1> QED BY <1>3, <1>4, <1>5 DEF L!Next, L!Accept, L!Settle, L!Keep

\* The pipeline implements the ledger: every record is settled once, by one row
\* or by none, and never stored after it was given up.
THEOREM PipelineKeepsLedger == Spec => ImplementsLedger
<1>1. Init => L!Init BY LedgerInit
<1>2. IInv /\ IInv' /\ [Next]_vars => [L!Next]_<<[r \in Records |-> StatusOf(r)], rows>>
  BY LedgerStep
<1> QED BY <1>1, <1>2, Invariance, PTL DEF Spec, ImplementsLedger, L!Spec
=============================================================================
