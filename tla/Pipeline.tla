------------------------------ MODULE Pipeline ------------------------------
(***************************************************************************)
(* From a batch of observations to rows of user_connections: the bounded   *)
(* log queue with its backpressure, the worker pool that grows and shrinks *)
(* with it, the BatchWriter, and the shutdown that cancels one context and *)
(* waits for all of them.                                                  *)
(*                                                                         *)
(* The log queue and the writer's queue are Go channels: a send to a       *)
(* closed channel panics, a receive from one drains it first, and a select *)
(* with several ready cases takes any of them.                             *)
(***************************************************************************)
EXTENDS Naturals, FiniteSets, Sequences, SequencesExt

CONSTANTS
    Batches,      \* the batches panel ingest will ever submit: sequences of records
    Slots,        \* goroutines a log worker may run on
    Base,         \* logWorkerBase
    MaxWorkers,   \* logWorkerMax
    LogCap,       \* LOG_CHANNEL_BUFFER_SIZE
    BatchSize,    \* batchSize of the writer
    MaxFaults     \* bound: inserts the database refuses while the context lives

Records == UNION {ToSet(b) : b \in Batches}

ASSUME PipelineAssumption ==
    /\ IsFiniteSet(Batches)
    /\ \A b \in Batches : b \in Seq(ToSet(b)) /\ b # <<>> /\ IsInjective(b)
    /\ \A b, c \in Batches : b # c => ToSet(b) \cap ToSet(c) = {}
    /\ IsFiniteSet(Slots)
    /\ Base \in Nat \ {0} /\ MaxWorkers \in Nat
    /\ Base <= MaxWorkers /\ MaxWorkers <= Cardinality(Slots)
    /\ LogCap \in Nat \ {0} /\ BatchSize \in Nat \ {0} /\ MaxFaults \in Nat

VARIABLES
    phase,       \* "up", then "stopping" once the context is cancelled, then over
    fresh,       \* batches not submitted yet
    waiting,     \* batches whose producer waits in EnqueueEntries
    ingest,      \* panel ingest: "running" or "stopped"
    logCh,       \* the log queue
    logClosed,
    pool,        \* StartWorkerPool: its position, and the workers it is about to start
    worker,      \* each slot's kind, position and the entries it still has to process
    bwCh,        \* the writer's queue
    writer,      \* BatchWriter.Run: its position, its batch and whether the flush
                 \* under way began with a live context
    bwClosed,
    rows,        \* rows of user_connections per record
    fate,        \* history: how a record without a row ended
    faults

vars == <<phase, fresh, waiting, ingest, logCh, logClosed, pool, worker, bwCh,
          writer, bwClosed, rows, fate, faults>>
queue == <<logCh, logClosed>>
intake == <<fresh, waiting, ingest>>
out == <<bwCh, writer, bwClosed, rows, faults>>
-----------------------------------------------------------------------------
BwCap == 2 * BatchSize

Phases == {"up", "stopping", "exited", "panicked"}
Fates == {"none", "rejected", "skipped", "overflow", "flush", "panic"}
WorkerPc == {"gone", "recv", "entries", "write", "leaving"}

Gone == [kind |-> "elastic", pc |-> "gone", todo |-> <<>>]
Started(kind) == [kind |-> kind, pc |-> "recv", todo |-> <<>>]
Stopped == [pc |-> "stopped", batch |-> <<>>, live |-> FALSE]

\* The context every goroutine was given.
Cancelled == phase # "up"

\* logWorkerCount
Alive == {w \in Slots : worker[w].pc # "gone"}

TypeOK ==
    /\ phase \in Phases
    /\ fresh \subseteq Batches /\ waiting \subseteq Batches
    /\ ingest \in {"running", "stopped"}
    /\ logCh \in Seq(Batches) /\ Len(logCh) <= LogCap
    /\ logClosed \in BOOLEAN /\ bwClosed \in BOOLEAN
    /\ pool \in [pc : {"wait", "spawn", "drain", "done"}, n : Nat]
    /\ worker \in [Slots -> [kind : {"base", "elastic"}, pc : WorkerPc, todo : Seq(Records)]]
    /\ bwCh \in Seq(Records) /\ Len(bwCh) <= BwCap
    /\ writer \in [pc : {"run", "flush", "final", "stopped"}, batch : Seq(Records),
                   live : BOOLEAN]
    /\ rows \in [Records -> Nat]
    /\ fate \in [Records -> Fates]
    /\ faults \in 0..MaxFaults

Init ==
    /\ phase = "up"
    /\ fresh = Batches
    /\ waiting = {}
    /\ ingest = "running"
    /\ logCh = <<>> /\ logClosed = FALSE
    /\ pool = [pc |-> "wait", n |-> 0]
    /\ \E S \in SUBSET Slots :
        /\ Cardinality(S) = Base
        /\ worker = [w \in Slots |-> IF w \in S THEN Started("base") ELSE Gone]
    /\ bwCh = <<>> /\ bwClosed = FALSE
    /\ writer = [pc |-> "run", batch |-> <<>>, live |-> FALSE]
    /\ rows = [r \in Records |-> 0]
    /\ fate = [r \in Records |-> "none"]
    /\ faults = 0

Ended(S, how) == fate' = [r \in Records |-> IF r \in S THEN how ELSE fate[r]]
-----------------------------------------------------------------------------
(* EnqueueEntries, called by panel ingest *)

\* Mutant of Room: one batch too many fits.
RoomForOneMore == Len(logCh) <= LogCap

Room == Len(logCh) < LogCap

\* The first select: send, or wait because the queue is full.  The panic of a
\* send to the closed queue is recovered into an error, and ingest drops the batch.
Submit(b) ==
    /\ ingest = "running"
    /\ b \in fresh
    /\ fresh' = fresh \ {b}
    /\ \/ /\ ~ logClosed /\ Room
          /\ logCh' = Append(logCh, b)
          /\ UNCHANGED <<waiting, fate>>
       \/ /\ ~ logClosed /\ ~ Room
          /\ waiting' = waiting \cup {b}
          /\ UNCHANGED <<logCh, fate>>
       \/ /\ logClosed
          /\ Ended(ToSet(b), "rejected")
          /\ UNCHANGED <<logCh, waiting>>
    /\ UNCHANGED <<phase, ingest, logClosed, pool, worker, out>>

\* The second select: room appeared, or the backpressure timer fired first, or
\* the queue was closed under the waiting sender.
StopWaiting(b) ==
    /\ b \in waiting
    /\ waiting' = waiting \ {b}
    /\ \/ /\ ~ logClosed /\ Room
          /\ logCh' = Append(logCh, b)
          /\ UNCHANGED fate
       \/ /\ Ended(ToSet(b), "rejected")
          /\ UNCHANGED logCh
    /\ UNCHANGED <<phase, fresh, ingest, logClosed, pool, worker, out>>

\* Panel ingest returns when the context is cancelled and its polls are over.
StopIngest ==
    /\ ingest = "running"
    /\ Cancelled
    /\ waiting = {}
    /\ ingest' = "stopped"
    /\ UNCHANGED <<phase, fresh, waiting, queue, pool, worker, out, fate>>
-----------------------------------------------------------------------------
(* StartWorkerPool *)

Bigger(m, n) == IF m > n THEN m ELSE n
Smaller(m, n) == IF m < n THEN m ELSE n

\* What the length of the queue asks for: a ramp from 70% full on, and one more
\* worker for every four batches.
Demand ==
    LET len == Len(logCh)
        ramp == IF 10 * len >= 7 * LogCap
                THEN Bigger(1, (len * (MaxWorkers - Base)) \div LogCap) ELSE 0
    IN  Bigger(Base + ramp, Base + len \div 4)

targetLogWorkerCount == IF logCh = <<>> THEN Base ELSE Smaller(Demand, MaxWorkers)

\* A tick of the scaler: the demand and the worker count are read ...
Scale ==
    /\ pool.pc = "wait"
    /\ targetLogWorkerCount > Cardinality(Alive)
    /\ pool' = [pc |-> "spawn", n |-> targetLogWorkerCount - Cardinality(Alive)]
    /\ UNCHANGED <<phase, intake, queue, worker, out, fate>>

\* ... and by the time the workers start, both may have changed.
Spawn ==
    /\ pool.pc = "spawn"
    /\ pool' = [pc |-> "wait", n |-> 0]
    /\ \E S \in SUBSET (Slots \ Alive) :
        /\ Cardinality(S) = pool.n
        /\ worker' = [w \in Slots |-> IF w \in S THEN Started("elastic") ELSE worker[w]]
    /\ UNCHANGED <<phase, intake, queue, out, fate>>

\* Mutant of ClosePool: the queue is left open.
ClosePoolOnly ==
    /\ pool.pc = "wait"
    /\ Cancelled
    /\ pool' = [pool EXCEPT !.pc = "drain"]
    /\ UNCHANGED <<phase, intake, queue, worker, out, fate>>

ClosePool ==
    /\ pool.pc = "wait"
    /\ Cancelled
    /\ logClosed' = TRUE
    /\ pool' = [pool EXCEPT !.pc = "drain"]
    /\ UNCHANGED <<phase, intake, logCh, worker, out, fate>>

\* workerWg.Wait()
PoolDone ==
    /\ pool.pc = "drain"
    /\ Alive = {}
    /\ pool' = [pool EXCEPT !.pc = "done"]
    /\ UNCHANGED <<phase, intake, queue, worker, out, fate>>
-----------------------------------------------------------------------------
(* A log worker *)

Receive(w) ==
    /\ worker[w].pc = "recv"
    /\ logCh # <<>>
    /\ logCh' = Tail(logCh)
    /\ worker' = [worker EXCEPT ![w].pc = "entries", ![w].todo = Head(logCh)]
    /\ UNCHANGED <<phase, intake, logClosed, pool, out, fate>>

\* Mutant of LeaveClosed: a closed queue is not drained.
LeaveAtOnce(w) ==
    /\ worker[w].pc = "recv"
    /\ logClosed
    /\ worker' = [worker EXCEPT ![w] = Gone]
    /\ UNCHANGED <<phase, intake, queue, pool, out, fate>>

\* A worker of either kind ends once the queue is closed and empty.
LeaveClosed(w) ==
    /\ worker[w].pc = "recv"
    /\ logClosed
    /\ logCh = <<>>
    /\ worker' = [worker EXCEPT ![w] = Gone]
    /\ UNCHANGED <<phase, intake, queue, pool, out, fate>>

\* An elastic worker also ends when the context is cancelled.
LeaveCancelled(w) ==
    /\ worker[w].pc = "recv"
    /\ worker[w].kind = "elastic"
    /\ Cancelled
    /\ worker' = [worker EXCEPT ![w] = Gone]
    /\ UNCHANGED <<phase, intake, queue, pool, out, fate>>

\* Mutant of LeaveIdle: every worker may leave.
LeaveIdleAny(w) ==
    /\ worker[w].pc = "recv"
    /\ logCh = <<>>
    /\ Cardinality(Alive) > Base
    /\ worker' = [worker EXCEPT ![w].pc = "leaving"]
    /\ UNCHANGED <<phase, intake, queue, pool, out, fate>>

\* ... or when its idle timer fires, nothing is queued and the pool is above its
\* base size; the worker count drops only later.
LeaveIdle(w) ==
    /\ worker[w].pc = "recv"
    /\ worker[w].kind = "elastic"
    /\ logCh = <<>>
    /\ Cardinality(Alive) > Base
    /\ worker' = [worker EXCEPT ![w].pc = "leaving"]
    /\ UNCHANGED <<phase, intake, queue, pool, out, fate>>

Leave(w) ==
    /\ worker[w].pc = "leaving"
    /\ worker' = [worker EXCEPT ![w] = Gone]
    /\ UNCHANGED <<phase, intake, queue, pool, out, fate>>

\* ProcessEntries between two entries: it returns when none is left, and drops
\* what is left when the context is cancelled.
FinishBatch(w) ==
    /\ worker[w].pc = "entries"
    /\ worker[w].todo = <<>> \/ Cancelled
    /\ worker' = [worker EXCEPT ![w].pc = "recv", ![w].todo = <<>>]
    /\ Ended(ToSet(worker[w].todo), "skipped")
    /\ UNCHANGED <<phase, intake, queue, pool, out>>

\* processEntryByASN up to the write.  Excluded users, an ASN the user already
\* has and a failed call end the entry; only a call made with a live context can
\* find the ASN new.
Process(w) ==
    /\ worker[w].pc = "entries"
    /\ worker[w].todo # <<>>
    /\ ~ Cancelled
    /\ \/ /\ worker' = [worker EXCEPT ![w].pc = "write"]
          /\ UNCHANGED fate
       \/ /\ worker' = [worker EXCEPT ![w].todo = Tail(@)]
          /\ Ended({Head(worker[w].todo)}, "skipped")
    /\ UNCHANGED <<phase, intake, queue, pool, out>>

\* Every record in the memory of the process.
InMemory ==
    {r \in Records : /\ rows[r] = 0
                     /\ fate[r] = "none"
                     /\ \A b \in fresh : r \notin ToSet(b)}

\* The runtime ends the process.
Panic ==
    /\ phase' = "panicked"
    /\ Ended(InMemory, "panic")
    /\ waiting' = {} /\ ingest' = "stopped"
    /\ logCh' = <<>> /\ logClosed' = TRUE
    /\ pool' = [pc |-> "done", n |-> 0]
    /\ worker' = [v \in Slots |-> Gone]
    /\ bwCh' = <<>> /\ writer' = Stopped /\ bwClosed' = TRUE
    /\ UNCHANGED <<fresh, rows, faults>>

\* BatchWriter.Write never blocks: it drops the record when the queue is full
\* and panics, with nobody to recover, when the queue is closed.
WriteRecord(w) ==
    /\ worker[w].pc = "write"
    /\ \/ /\ bwClosed
          /\ Panic
       \/ /\ ~ bwClosed
          /\ worker' = [worker EXCEPT ![w].pc = "entries", ![w].todo = Tail(@)]
          /\ \/ /\ Len(bwCh) < BwCap
                /\ bwCh' = Append(bwCh, Head(worker[w].todo))
                /\ UNCHANGED fate
             \/ /\ Len(bwCh) = BwCap
                /\ Ended({Head(worker[w].todo)}, "overflow")
                /\ UNCHANGED bwCh
          /\ UNCHANGED <<phase, intake, queue, pool, writer, bwClosed, rows, faults>>
-----------------------------------------------------------------------------
(* BatchWriter.Run *)

StartFlush(batch) == [pc |-> "flush", batch |-> batch, live |-> ~ Cancelled]

Collect ==
    /\ writer.pc = "run"
    /\ bwCh # <<>>
    /\ bwCh' = Tail(bwCh)
    /\ LET batch == Append(writer.batch, Head(bwCh)) IN
       writer' = IF Len(batch) >= BatchSize THEN StartFlush(batch)
                 ELSE [writer EXCEPT !.batch = batch]
    /\ UNCHANGED <<phase, intake, queue, pool, worker, bwClosed, rows, fate, faults>>

\* Mutant of FlushTick: the ticker flushes full batches only.
FlushTickFull ==
    /\ writer.pc = "run"
    /\ Len(writer.batch) >= BatchSize
    /\ writer' = StartFlush(writer.batch)
    /\ UNCHANGED <<phase, intake, queue, pool, worker, bwCh, bwClosed, rows, fate, faults>>

FlushTick ==
    /\ writer.pc = "run"
    /\ writer.batch # <<>>
    /\ writer' = StartFlush(writer.batch)
    /\ UNCHANGED <<phase, intake, queue, pool, worker, bwCh, bwClosed, rows, fate, faults>>

Inserted(batch) ==
    /\ rows' = [r \in Records |-> IF r \in ToSet(batch) THEN rows[r] + 1 ELSE rows[r]]
    /\ UNCHANGED <<fate, faults>>

\* A refused insert loses the batch.
Refused(batch) ==
    /\ faults < MaxFaults
    /\ faults' = faults + 1
    /\ Ended(ToSet(batch), "flush")
    /\ UNCHANGED rows

\* Mutant of Flush: the batch is not emptied.
FlushAgain ==
    /\ writer.pc = "flush"
    /\ writer' = [writer EXCEPT !.pc = "run"]
    /\ writer.live
    /\ Inserted(writer.batch)
    /\ UNCHANGED <<phase, intake, queue, pool, worker, bwCh, bwClosed>>

\* InsertConnections, one transaction: with a cancelled context it does not
\* start, and a cancellation in mid-flight may roll it back.
Flush ==
    /\ writer.pc = "flush"
    /\ writer' = [pc |-> "run", batch |-> <<>>, live |-> FALSE]
    /\ \/ writer.live /\ Inserted(writer.batch)
       \/ Refused(writer.batch)
       \/ Cancelled /\ Ended(ToSet(writer.batch), "flush") /\ UNCHANGED <<rows, faults>>
    /\ UNCHANGED <<phase, intake, queue, pool, worker, bwCh, bwClosed>>

\* ctx.Done is one of the ready cases of the select: the queue is closed and
\* drained, and what was collected goes to the last flush.
CloseWriter ==
    /\ writer.pc = "run"
    /\ Cancelled
    /\ bwClosed' = TRUE
    /\ bwCh' = <<>>
    /\ LET batch == writer.batch \o bwCh IN
       writer' = IF batch = <<>> THEN Stopped
                 ELSE [pc |-> "final", batch |-> batch, live |-> TRUE]
    /\ UNCHANGED <<phase, intake, queue, pool, worker, rows, fate, faults>>

\* The last flush has a context of its own.
FinalFlush ==
    /\ writer.pc = "final"
    /\ writer' = Stopped
    /\ Inserted(writer.batch) \/ Refused(writer.batch)
    /\ UNCHANGED <<phase, intake, queue, pool, worker, bwCh, bwClosed>>
-----------------------------------------------------------------------------
(* main *)

\* SIGINT or SIGTERM.
Shutdown ==
    /\ phase = "up"
    /\ phase' = "stopping"
    /\ UNCHANGED <<intake, queue, pool, worker, out, fate>>

\* wg.Wait()
Exit ==
    /\ phase = "stopping"
    /\ ingest = "stopped"
    /\ pool.pc = "done"
    /\ writer.pc = "stopped"
    /\ phase' = "exited"
    /\ UNCHANGED <<intake, queue, pool, worker, out, fate>>

Over == phase \in {"exited", "panicked"}

\* The process has ended.
Rest == Over /\ UNCHANGED vars
-----------------------------------------------------------------------------
IngestStep == (\E b \in Batches : StopWaiting(b)) \/ StopIngest
PoolStep == Scale \/ Spawn \/ ClosePool \/ PoolDone
WorkerStep(w) ==
    \/ Receive(w) \/ LeaveClosed(w) \/ LeaveCancelled(w) \/ LeaveIdle(w) \/ Leave(w)
    \/ FinishBatch(w) \/ Process(w) \/ WriteRecord(w)
WriterStep == Collect \/ FlushTick \/ Flush \/ CloseWriter \/ FinalFlush

Next ==
    \/ \E b \in Batches : Submit(b)
    \/ IngestStep
    \/ PoolStep
    \/ \E w \in Slots : WorkerStep(w)
    \/ WriterStep
    \/ Shutdown
    \/ Exit
    \/ Rest

Spec == Init /\ [][Next]_vars

\* Goroutines are scheduled, timers and tickers fire, Redis and the database
\* answer; nothing forces a submission or a shutdown.
Fairness ==
    /\ WF_vars(IngestStep)
    /\ WF_vars(PoolStep)
    /\ \A w \in Slots : WF_vars(WorkerStep(w))
    /\ WF_vars(WriterStep)
    /\ WF_vars(Exit)

FairSpec == Spec /\ Fairness
-----------------------------------------------------------------------------
(* Properties *)

Places(seq, x) == {i \in DOMAIN seq : seq[i] = x}
Times(seq, x) == Cardinality(Places(seq, x))

Copies(r) ==
    LET holding == {b \in Batches : r \in ToSet(b)}
        inQueue == {i \in DOMAIN logCh : logCh[i] \in holding}
        atWorker == UNION {{w} \X Places(worker[w].todo, r) : w \in Slots}
    IN  Cardinality(holding \cap fresh) + Cardinality(holding \cap waiting)
          + Cardinality(inQueue) + Cardinality(atWorker)
          + Times(bwCh, r) + Times(writer.batch, r)
          + rows[r] + (IF fate[r] = "none" THEN 0 ELSE 1)

\* Nothing is duplicated and nothing vanishes without being accounted for: every
\* record is in exactly one place, be it a queue, a goroutine, the table or the
\* list of the lost.
Conservation == \A r \in Records : Copies(r) = 1

\* When the service has shut down in order, no submitted record is left in a
\* queue or a buffer that nobody reads any more.
SettledAtExit ==
    phase = "exited" =>
        \A r \in Records : rows[r] = 1 \/ fate[r] # "none" \/ \E b \in fresh : r \in ToSet(b)

\* Growing from a stale count and shrinking by a check that several idle workers
\* pass at once keep the pool between its base and its maximum until shutdown.
PoolWithinBounds ==
    phase = "up" => Cardinality(Alive) \in Base..MaxWorkers

StatusOf(r) ==
    IF \E b \in fresh : r \in ToSet(b) THEN "fresh"
    ELSE IF rows[r] > 0 \/ fate[r] # "none" THEN "settled"
    ELSE "held"

L == INSTANCE Ledger WITH status <- [r \in Records |-> StatusOf(r)], rows <- rows

\* The pipeline implements the ledger: a record is settled once, with at most
\* one row, and never after it was given up.
ImplementsLedger == L!Spec

\* ... and a record it took is settled eventually, up or stopping.
SettlesEventually == L!EverySettled

\* A cancelled context ends the process: no goroutine waits for another one
\* for ever.
ShutdownTerminates == phase = "stopping" ~> Over

\* batch_writer.go:36 "Non-blocking; drops if full": a write never brings the
\* process down.
WriteNeverPanics == phase # "panicked"

\* batch_writer.go:67,73 "Drain remaining items", "Use background context for
\* final flush": with a database that accepts every insert, what the writer took
\* over is stored even if the service shuts down.
WriterKeepsAll == faults = 0 => \A r \in Records : fate[r] # "flush"
=============================================================================
