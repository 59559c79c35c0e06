----------------------------- MODULE Enforcement -----------------------------
(***************************************************************************)
(* Temporary user disable and its automatic re-enable.                     *)
(*                                                                         *)
(* Log workers run RemnawaveEnforcer.DisableTempByInternalID, one          *)
(* Scheduler runs processDueDisables, and they share three places with no  *)
(* lock or transaction across them: the status a user has on the Remnawave *)
(* panel, the Redis key rw:disable:{id} and the Redis ZSET                 *)
(* rw:reenable:zset.  Every remote call is an action of its own, so calls  *)
(* of different actors interleave; a call may fail, or take effect and     *)
(* lose its answer; the process may stop between any two calls.            *)
(***************************************************************************)
EXTENDS Naturals, FiniteSets

CONSTANTS
    Users,       \* users, named on the panel by the UUID their id resolves to
    Workers,     \* log workers: each runs one enforcement at a time
    NoUser,      \* the user of an idle actor
    Duration,    \* BLOCK_DURATION, in ticks
    Timeout,     \* deadline of one enforcement (defaultEnforcementTimeout), in ticks
    Backoffs,    \* the delays calculateBackoff may return
    BatchSize,   \* the most ids one scheduler pass pops
    Retention,   \* how long a record outlives its "until" (24h)
    Horizon,     \* bound: last tick of the clock
    MaxFaults,   \* bound: remote calls that do not return success
    MaxCrashes   \* bound: restarts of the service

ASSUME EnforcementAssumption ==
    /\ NoUser \notin Users
    /\ Duration \in Nat \ {0}
    /\ Timeout \in Nat
    /\ Backoffs \subseteq Nat \ {0}
    /\ BatchSize \in Nat \ {0}
    /\ Retention \in Nat \ {0}
    /\ Horizon \in Nat
    /\ MaxFaults \in Nat
    /\ MaxCrashes \in Nat

VARIABLES
    panel,     \* the user's status on the panel
    record,    \* "until" of rw:disable:{id}; NoTime if there is no key
    zset,      \* score of the id in rw:reenable:zset; NoTime if not a member
    clock,
    worker,    \* a worker's position in DisableTempByInternalID and its locals
    sched,     \* the scheduler's position in processDueDisables and its locals
    faults,
    crashes,
    mishap,    \* history: what has ever gone wrong for a user
    promised   \* history: the latest "until" a worker disabled the user for

vars == <<panel, record, zset, clock, worker, sched, faults, crashes,
          mishap, promised>>

stores == <<panel, record, zset>>
history == <<mishap, promised>>
-----------------------------------------------------------------------------
NoTime == 0   \* the clock starts at 1

Status == {"enabled", "disabled"}

\* "lost": a call failed or the service stopped before the user's schedule was
\* complete; "expired": Redis dropped the record at the end of its TTL;
\* "overlap": a worker and the scheduler were both between two writes for the
\* user; "double": two workers were both past the idempotency check for it;
\* "blind": a failed idempotency
\* read hid a longer record; "unsure": the panel enabled the user but its answer
\* was lost.
Mishaps == {"lost", "expired", "overlap", "double", "blind", "unsure"}

IdleWorker == [pc |-> "idle", user |-> NoUser, until |-> NoTime]

IdleSched == [pc |-> "idle", now |-> NoTime, todo |-> {}, user |-> NoUser,
              until |-> NoTime]

WorkerPc == {"idle", "check", "disable", "save", "queue"}
SchedPc == {"idle", "next", "enable", "clear", "save", "queue"}

TypeOK ==
    /\ panel \in [Users -> Status]
    /\ record \in [Users -> Nat]
    /\ zset \in [Users -> Nat]
    /\ clock \in Nat \ {0}
    /\ worker \in [Workers -> [pc : WorkerPc, user : Users \cup {NoUser}, until : Nat]]
    /\ sched \in [pc : SchedPc, now : Nat, todo : SUBSET Users,
                  user : Users \cup {NoUser}, until : Nat]
    /\ faults \in 0..MaxFaults
    /\ crashes \in 0..MaxCrashes
    /\ mishap \in [Users -> SUBSET Mishaps]
    /\ promised \in [Users -> Nat]

Init ==
    /\ panel = [u \in Users |-> "enabled"]
    /\ record = [u \in Users |-> NoTime]
    /\ zset = [u \in Users |-> NoTime]
    /\ clock = 1
    /\ worker = [w \in Workers |-> IdleWorker]
    /\ sched = IdleSched
    /\ faults = 0
    /\ crashes = 0
    /\ mishap = [u \in Users |-> {}]
    /\ promised = [u \in Users |-> NoTime]
-----------------------------------------------------------------------------
(* Remote calls.  "ok": takes effect and says so; "lost": takes effect but  *)
(* the caller gets an error (timeout, broken connection); "failed": error   *)
(* and no effect.                                                           *)
Outcomes == {"ok", "lost", "failed"}

TakesEffect(o) == o # "failed"
Succeeds(o) == o = "ok"

Call(o) ==
    /\ o # "ok" => faults < MaxFaults
    /\ faults' = IF o = "ok" THEN faults ELSE faults + 1

Write(store, u, value, o) ==
    IF TakesEffect(o) THEN [store EXCEPT ![u] = value] ELSE store

Noted(S, kinds) ==
    [u \in Users |-> IF u \in S THEN mishap[u] \cup kinds ELSE mishap[u]]

When(condition, kind) == IF condition THEN {kind} ELSE {}
-----------------------------------------------------------------------------
(* Who is in the middle of handling a user. *)

WorkerAt(u, pcs) == \E w \in Workers : worker[w].user = u /\ worker[w].pc \in pcs

\* The user was disabled by a worker that has yet to schedule its re-enable.
Scheduling(u) == WorkerAt(u, {"save", "queue"})

\* The scheduler popped the user and has not finished with it.
Popped(u) == u \in sched.todo \/ sched.user = u
-----------------------------------------------------------------------------
(* RemnawaveEnforcer.DisableTempByInternalID *)

\* Past the deadline of its context every call of a worker fails.
TimedOut(w) == clock + Duration > worker[w].until + Timeout

WorkerCall(w, o) ==
    IF TimedOut(w) THEN o = "failed" /\ UNCHANGED faults ELSE Call(o)

\* Mutant of BlockUntil: the duration is subtracted.
BlockUntilBackwards == clock - Duration

\* expiresAt := time.Now().Add(duration)
BlockUntil == clock + Duration

\* The score of a user crosses a blocking threshold: its UUID is resolved and
\* "until" computed.  (A UUID that cannot be resolved changes nothing.)
StartDisable(w, u) ==
    /\ worker[w].pc = "idle"
    /\ BlockUntil <= Horizon
    /\ worker' = [worker EXCEPT
           ![w] = [pc |-> "check", user |-> u, until |-> BlockUntil]]
    /\ UNCHANGED <<stores, clock, sched, faults, crashes, history>>

\* GetDisableRecord: a failed read counts as no record; a record that lasts
\* at least as long ends the operation.
CheckRecord(w, o) ==
    LET u == worker[w].user IN
    /\ worker[w].pc = "check"
    /\ WorkerCall(w, o)
    /\ \/ /\ Succeeds(o) /\ record[u] >= worker[w].until
          /\ worker' = [worker EXCEPT ![w] = IdleWorker]
          /\ UNCHANGED mishap
       \/ /\ ~ (Succeeds(o) /\ record[u] >= worker[w].until)
          /\ worker' = [worker EXCEPT ![w].pc = "disable"]
          /\ mishap' = Noted({u}, When(WorkerAt(u, {"disable", "save", "queue"}), "double")
                                   \cup When(record[u] >= worker[w].until, "blind"))
    /\ UNCHANGED <<stores, clock, sched, crashes, promised>>

\* What a disable that takes effect leaves in the histories.
Promise(u, until, o) ==
    /\ promised' = Write(promised, u, IF until > promised[u] THEN until ELSE promised[u], o)
    /\ mishap' = Noted({u}, When(o = "lost", "lost")
                            \cup When(TakesEffect(o) /\ sched.user = u, "overlap"))

\* Mutant of DisableUser: an error of the panel is ignored.
DisableUserUnchecked(w, o) ==
    /\ worker[w].pc = "disable"
    /\ WorkerCall(w, o)
    /\ panel' = Write(panel, worker[w].user, "disabled", o)
    /\ worker' = [worker EXCEPT ![w].pc = "save"]
    /\ Promise(worker[w].user, worker[w].until, o)
    /\ UNCHANGED <<record, zset, clock, sched, crashes>>

\* Mutant of DisableUser: the block goes on record one tick short.
DisableUserShort(w, o) ==
    /\ worker[w].pc = "disable"
    /\ WorkerCall(w, o)
    /\ panel' = Write(panel, worker[w].user, "disabled", o)
    /\ worker' = [worker EXCEPT ![w] = IF Succeeds(o)
                                       THEN [@ EXCEPT !.pc = "save", !.until = @ - 1]
                                       ELSE IdleWorker]
    /\ Promise(worker[w].user, worker[w].until, o)
    /\ UNCHANGED <<record, zset, clock, sched, crashes>>

\* client.DisableUser: on an error the operation ends with nothing scheduled.
DisableUser(w, o) ==
    /\ worker[w].pc = "disable"
    /\ WorkerCall(w, o)
    /\ panel' = Write(panel, worker[w].user, "disabled", o)
    /\ worker' = [worker EXCEPT ![w] = IF Succeeds(o) THEN [@ EXCEPT !.pc = "save"]
                                       ELSE IdleWorker]
    /\ Promise(worker[w].user, worker[w].until, o)
    /\ UNCHANGED <<record, zset, clock, sched, crashes>>

\* ScheduleDisable, first command: SET rw:disable:{id}.
SaveRecord(w, o) ==
    LET u == worker[w].user IN
    /\ worker[w].pc = "save"
    /\ WorkerCall(w, o)
    /\ record' = Write(record, u, worker[w].until, o)
    /\ worker' = [worker EXCEPT ![w] = IF Succeeds(o) THEN [@ EXCEPT !.pc = "queue"]
                                       ELSE IdleWorker]
    /\ mishap' = Noted({u}, When(~ Succeeds(o), "lost"))
    /\ UNCHANGED <<panel, zset, clock, sched, crashes, promised>>

\* ScheduleDisable, second command: ZADD.  Its error is only logged.
QueueReenable(w, o) ==
    LET u == worker[w].user IN
    /\ worker[w].pc = "queue"
    /\ WorkerCall(w, o)
    /\ zset' = Write(zset, u, worker[w].until, o)
    /\ worker' = [worker EXCEPT ![w] = IdleWorker]
    /\ mishap' = Noted({u}, When(~ TakesEffect(o), "lost"))
    /\ UNCHANGED <<panel, record, clock, sched, crashes, promised>>
-----------------------------------------------------------------------------
(* Scheduler.processDueDisables *)

Due == {u \in Users : zset[u] # NoTime /\ zset[u] <= clock}

\* ZRANGEBYSCORE -inf now LIMIT 0 BatchSize: the lowest scores first.
Batches ==
    {ids \in SUBSET Due :
        /\ ids # {}
        /\ Cardinality(ids) <= BatchSize
        /\ Cardinality(ids) = BatchSize \/ ids = Due
        /\ \A i \in ids, j \in Due \ ids : zset[i] <= zset[j]}

\* The scheduler is done with the user at hand.
NextOf(todo) ==
    IF todo = {} THEN IdleSched
    ELSE [pc |-> "next", now |-> sched.now, todo |-> todo, user |-> NoUser,
          until |-> NoTime]

\* Mutant of PopDue: the script removes every due id but returns one batch.
PopDueRange(o) ==
    /\ sched.pc = "idle"
    /\ Call(o)
    /\ \E ids \in Batches :
        /\ zset' = IF TakesEffect(o)
                   THEN [u \in Users |-> IF u \in Due THEN NoTime ELSE zset[u]]
                   ELSE zset
        /\ sched' = IF Succeeds(o)
                    THEN [pc |-> "next", now |-> clock, todo |-> ids,
                          user |-> NoUser, until |-> NoTime]
                    ELSE sched
        /\ mishap' = Noted(ids, When(o = "lost", "lost"))
    /\ UNCHANGED <<panel, record, clock, worker, crashes, promised>>

\* A tick of the scheduler: ids leave the ZSET before any of them is enabled.
PopDue(o) ==
    /\ sched.pc = "idle"
    /\ Call(o)
    /\ \E ids \in Batches :
        /\ zset' = IF TakesEffect(o)
                   THEN [u \in Users |-> IF u \in ids THEN NoTime ELSE zset[u]]
                   ELSE zset
        /\ sched' = IF Succeeds(o)
                    THEN [pc |-> "next", now |-> clock, todo |-> ids,
                          user |-> NoUser, until |-> NoTime]
                    ELSE sched
        /\ mishap' = Noted(ids, When(o = "lost", "lost"))
    /\ UNCHANGED <<panel, record, clock, worker, crashes, promised>>

\* A user without a readable record is skipped; one whose record is not due
\* goes back to the ZSET; the others are enabled.
ReadRecord(u, o) ==
    /\ sched.pc = "next"
    /\ u \in sched.todo
    /\ Call(o)
    /\ LET rest == sched.todo \ {u}
           busy == [sched EXCEPT !.todo = rest, !.user = u, !.until = record[u]] IN
       \/ /\ ~ Succeeds(o) \/ record[u] = NoTime
          /\ sched' = NextOf(rest)
          /\ mishap' = Noted({u}, When(~ Succeeds(o), "lost"))
       \/ /\ Succeeds(o) /\ record[u] > sched.now
          /\ sched' = [busy EXCEPT !.pc = "save"]
          /\ mishap' = Noted({u}, When(WorkerAt(u, {"save"}), "overlap"))
       \/ /\ Succeeds(o) /\ record[u] # NoTime /\ record[u] <= sched.now
          /\ sched' = [busy EXCEPT !.pc = "enable"]
          /\ mishap' = Noted({u}, When(Scheduling(u), "overlap"))
    /\ UNCHANGED <<stores, clock, worker, crashes, promised>>

\* Mutant of EnableUser: a failed enable is not rescheduled.
EnableUserOnce(o) ==
    /\ sched.pc = "enable"
    /\ Call(o)
    /\ panel' = Write(panel, sched.user, "enabled", o)
    /\ sched' = IF Succeeds(o) THEN [sched EXCEPT !.pc = "clear"] ELSE NextOf(sched.todo)
    /\ mishap' = Noted({sched.user}, When(o = "lost", "unsure"))
    /\ UNCHANGED <<record, zset, clock, worker, crashes, promised>>

\* client.EnableUser; on an error the user is rescheduled after a backoff.
EnableUser(o) ==
    LET u == sched.user IN
    /\ sched.pc = "enable"
    /\ Call(o)
    /\ panel' = Write(panel, u, "enabled", o)
    /\ \/ /\ Succeeds(o)
          /\ sched' = [sched EXCEPT !.pc = "clear"]
       \/ /\ ~ Succeeds(o)
          /\ \E b \in Backoffs :
                /\ clock + b <= Horizon
                /\ sched' = [sched EXCEPT !.pc = "save", !.until = clock + b]
    /\ mishap' = Noted({u}, When(o = "lost", "unsure"))
    /\ UNCHANGED <<record, zset, clock, worker, crashes, promised>>

\* The scheduler's own ScheduleDisable: SET, then ZADD; errors are dropped.
ResaveRecord(o) ==
    LET u == sched.user IN
    /\ sched.pc = "save"
    /\ Call(o)
    /\ record' = Write(record, u, sched.until, o)
    /\ sched' = IF Succeeds(o) THEN [sched EXCEPT !.pc = "queue"] ELSE NextOf(sched.todo)
    /\ mishap' = Noted({u}, When(~ Succeeds(o), "lost"))
    /\ UNCHANGED <<panel, zset, clock, worker, crashes, promised>>

RequeueReenable(o) ==
    LET u == sched.user IN
    /\ sched.pc = "queue"
    /\ Call(o)
    /\ zset' = Write(zset, u, sched.until, o)
    /\ sched' = NextOf(sched.todo)
    /\ mishap' = Noted({u}, When(~ TakesEffect(o), "lost"))
    /\ UNCHANGED <<panel, record, clock, worker, crashes, promised>>

\* ClearDisableRecord deletes whatever record the key holds by now.
ClearRecord(o) ==
    /\ sched.pc = "clear"
    /\ Call(o)
    /\ record' = Write(record, sched.user, NoTime, o)
    /\ sched' = NextOf(sched.todo)
    /\ UNCHANGED <<panel, zset, clock, worker, crashes, history>>
-----------------------------------------------------------------------------
(* The environment *)

Tick ==
    /\ clock < Horizon
    /\ clock' = clock + 1
    /\ UNCHANGED <<stores, worker, sched, faults, crashes, history>>

\* The TTL of rw:disable:{id} runs out.
ExpireRecord(u) ==
    /\ record[u] # NoTime
    /\ clock >= record[u] + Retention
    /\ record' = [record EXCEPT ![u] = NoTime]
    /\ mishap' = Noted({u}, {"expired"})
    /\ UNCHANGED <<panel, zset, clock, worker, sched, faults, crashes, promised>>

\* The service stops and starts again.  A kill loses what the actors held; an
\* orderly shutdown cancels the context every later call is made with, so those
\* calls fail without effect and it loses the same.
Restart ==
    /\ crashes < MaxCrashes
    /\ crashes' = crashes + 1
    /\ worker' = [w \in Workers |-> IdleWorker]
    /\ sched' = IdleSched
    /\ mishap' = Noted({u \in Users : Scheduling(u) \/ Popped(u)}, {"lost"})
    /\ UNCHANGED <<stores, clock, faults, promised>>

\* Nothing is left to do before the horizon.
Rest ==
    /\ clock = Horizon
    /\ Due = {}
    /\ sched = IdleSched
    /\ \A w \in Workers : worker[w] = IdleWorker
    /\ UNCHANGED vars
-----------------------------------------------------------------------------
WorkerStep(w) ==
    \E o \in Outcomes :
        \/ CheckRecord(w, o)
        \/ DisableUser(w, o)
        \/ SaveRecord(w, o)
        \/ QueueReenable(w, o)

SchedulerStep ==
    \E o \in Outcomes :
        \/ PopDue(o)
        \/ \E u \in Users : ReadRecord(u, o)
        \/ EnableUser(o)
        \/ ResaveRecord(o)
        \/ RequeueReenable(o)
        \/ ClearRecord(o)

Next ==
    \/ \E w \in Workers : WorkerStep(w) \/ \E u \in Users : StartDisable(w, u)
    \/ SchedulerStep
    \/ Tick
    \/ \E u \in Users : ExpireRecord(u)
    \/ Restart
    \/ Rest

Spec == Init /\ [][Next]_vars

\* Time passes, every remote call returns within its timeout, and the
\* scheduler's ticker keeps firing; nothing forces a fault, a crash or a block.
Fairness ==
    /\ WF_vars(Tick)
    /\ WF_vars(SchedulerStep)
    /\ \A w \in Workers : WF_vars(WorkerStep(w))

FairSpec == Spec /\ Fairness
-----------------------------------------------------------------------------
(* Properties *)

Disabled(u) == panel[u] = "disabled"
Quiet(u) == ~ Popped(u) /\ ~ WorkerAt(u, {"disable", "save", "queue"})
Clean(u, kinds) == mishap[u] \cap kinds = {}

\* Nobody holds the user and the scheduler will never enable it.
Stranded(u) ==
    /\ Disabled(u)
    /\ ~ Popped(u)
    /\ ~ Scheduling(u)
    /\ zset[u] = NoTime \/ record[u] = NoTime

\* A disabled user stays without a scheduled re-enable only if a call of its
\* own schedule failed, the service stopped, the record's TTL ran out, or a
\* worker and the scheduler overlapped on it: failed enables (retried), two
\* workers on one user, a refused or repeated disable are all survived.
StrandedHasCause ==
    \A u \in Users : Stranded(u) => ~ Clean(u, {"lost", "expired", "overlap"})

\* When nobody is at work on a user that met no mishap, panel, record and ZSET
\* agree: it is disabled exactly if its re-enable is queued with a record.
QuietAgreement ==
    \A u \in Users : Quiet(u) /\ Clean(u, Mishaps) =>
        /\ Disabled(u) <=> zset[u] # NoTime
        /\ Disabled(u) => record[u] # NoTime

\* The scheduler never enables a user before the end of the longest block a
\* worker put on the panel, unless their writes overlapped or were lost.
NoEarlyEnable ==
    [][\A u \in Users :
          Disabled(u) /\ ~ Disabled(u)' /\ Clean(u, {"lost", "overlap", "double", "blind"})
              => clock >= promised[u]]_vars

\* The idempotency check skips a user only if it really is disabled (given a
\* block that lasts longer than an enforcement may take).
SkipOnlyIfDisabled ==
    \A w \in Workers :
        LET u == worker[w].user IN
        worker[w].pc = "check" /\ ~ TimedOut(w) /\ record[u] >= worker[w].until
            => Disabled(u) \/ ~ Clean(u, {"lost", "overlap", "double", "unsure"})

\* A disabled user whose writes were not lost and did not overlap is enabled
\* again, however many enable calls fail before the faults cease.
EventuallyEnabled ==
    \A u \in Users :
        Disabled(u) ~> \/ ~ Disabled(u)
                       \/ ~ Clean(u, {"lost", "expired", "overlap"})

\* README.md:58 "A Redis scheduler re-enables users automatically after
\* BLOCK_DURATION": no user is left disabled with nobody to enable it.
NoUserStranded == \A u \in Users : ~ Stranded(u)
=============================================================================
