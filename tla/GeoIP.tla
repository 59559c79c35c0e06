-------------------------------- MODULE GeoIP --------------------------------
(***************************************************************************)
(* GeoIPService: lookups through the Redis cache, the MMDB reader and a    *)
(* paid fallback provider, the queue of addresses one background worker    *)
(* enriches later, its retry timers, and the hot reload of the reader.     *)
(*                                                                         *)
(* Log workers and the monitor call Lookup concurrently.  The service's    *)
(* mutex covers single steps (a reservation, an enqueue, a swap), never a  *)
(* remote call, so every Redis or provider call is an action of its own    *)
(* and the local steps that follow it up to the next lock go with it.      *)
(* Delays are not numbers: a spacing, a pause and a timer end at some time *)
(* after they began.                                                       *)
(***************************************************************************)
EXTENDS Naturals, Sequences, FiniteSets

CONSTANTS
    IPs,         \* source addresses
    Lookers,     \* goroutines that call Lookup
    Worker,      \* the fallback worker
    NoIP,        \* the address of an idle goroutine
    QueueCap,    \* capacity of fallbackQueue
    RetryMax,    \* fallbackRetryMax
    Coverage,    \* Coverage[i + 1]: addresses edition i of the MMDB files is complete for
    MaxLookups,  \* bound: calls of Lookup
    MaxFaults    \* bound: cache calls that fail and entries that expire

ASSUME GeoIPAssumption ==
    /\ NoIP \notin IPs
    /\ Worker \notin Lookers
    /\ QueueCap \in Nat \ {0}
    /\ RetryMax \in Nat
    /\ Coverage \in Seq(SUBSET IPs) /\ Coverage # <<>>
    /\ MaxLookups \in Nat
    /\ MaxFaults \in Nat

VARIABLES
    cache,     \* geoip:{ip} in Redis
    queue,     \* fallbackQueue
    timers,    \* tasks waiting in scheduleFallbackRetry, with their number
    pending,   \* fallbackPending
    provider,  \* "on", "paused" until fallbackPauseTo, "off" once it is nil
    spaced,    \* fallbackNextAt is still to come
    reader,    \* the edition mmdbReader serves
    closed,    \* editions whose reader was closed
    caller,    \* a goroutine's position in Lookup or processFallbackTask
    lookups,
    faults,
    up,        \* the service context is not cancelled
    lost       \* history: addresses whose enrichment was lost since last queued

vars == <<cache, queue, timers, pending, provider, spaced, reader, closed,
          caller, lookups, faults, up, lost>>

tasks == <<queue, timers, pending>>
service == <<provider, spaced, reader, closed>>
-----------------------------------------------------------------------------
Callers == Lookers \cup {Worker}
Editions == 0..(Len(Coverage) - 1)
Tasks == [ip : IPs, attempt : 0..RetryMax]

\* A location is poor if needsFallbackGeo: no city or no coordinates.
Levels == {"poor", "rich"}

Idle == [pc |-> "idle", ip |-> NoIP, attempt |-> 0, held |-> 0, loc |-> "none"]

Pcs == {"idle", "cache", "reader", "base", "reserve", "call", "enqueue", "save"}

Positions == [pc : Pcs, ip : IPs \cup {NoIP}, attempt : 0..RetryMax, held : Editions,
              loc : Levels \cup {"none"}]

TypeOK ==
    /\ cache \in [IPs -> Levels \cup {"none"}]
    /\ queue \in Seq(Tasks) /\ Len(queue) <= QueueCap
    /\ timers \in [Tasks -> Nat]
    /\ pending \subseteq IPs
    /\ provider \in {"on", "paused", "off"}
    /\ spaced \in BOOLEAN
    /\ reader \in Editions
    /\ closed \subseteq Editions
    /\ caller \in [Callers -> Positions]
    /\ lookups \in 0..MaxLookups
    /\ faults \in 0..MaxFaults
    /\ up \in BOOLEAN
    /\ lost \subseteq IPs

Init ==
    /\ cache = [i \in IPs |-> "none"]
    /\ queue = <<>>
    /\ timers = [t \in Tasks |-> 0]
    /\ pending = {}
    /\ provider = "on"
    /\ spaced = FALSE
    /\ reader = 0
    /\ closed = {}
    /\ caller = [c \in Callers |-> Idle]
    /\ lookups = 0
    /\ faults = 0
    /\ up = TRUE
    /\ lost = {}
-----------------------------------------------------------------------------
(* What the steps are made of *)

Fault ==
    /\ faults < MaxFaults
    /\ faults' = faults + 1

Goto(c, pc) == caller' = [caller EXCEPT ![c].pc = pc]
Leave(c) == caller' = [caller EXCEPT ![c] = Idle]

\* A lookup that is about to store a location it read before a task ended.
Overtaken(c, i) ==
    \E d \in Lookers \ {c} :
        caller[d].ip = i /\ caller[d].pc = "save" /\ caller[d].loc = "poor"

\* finishFallbackTask; losing says that the address did not get its answer.
Finish(c, i, losing) ==
    /\ pending' = pending \ {i}
    /\ lost' = IF losing \/ Overtaken(c, i) THEN lost \cup {i} ELSE lost

\* Mutant of HasRoom: one task too many.
HasRoomLate == Len(queue) <= QueueCap

HasRoom == Len(queue) < QueueCap

\* Mutant of Enqueue: the address becomes pending before the queue is tried.
EnqueueMarkFirst(i) ==
    IF provider = "off" \/ i \in pending
    THEN UNCHANGED <<tasks, lost>>
    ELSE /\ pending' = pending \cup {i}
         /\ queue' = IF HasRoom
                     THEN Append(queue, [ip |-> i, attempt |-> 0]) ELSE queue
         /\ lost' = lost \ {i}
         /\ UNCHANGED timers

\* enqueueFallbackTask: under the lock, one task per pending address.
Enqueue(i) ==
    \/ /\ provider = "off" \/ i \in pending
       /\ UNCHANGED <<tasks, lost>>
    \/ /\ provider # "off" /\ i \notin pending
       /\ HasRoom
       /\ queue' = Append(queue, [ip |-> i, attempt |-> 0])
       /\ pending' = pending \cup {i}
       /\ lost' = lost \ {i}
       /\ UNCHANGED timers
    \/ /\ provider # "off" /\ i \notin pending
       /\ ~ HasRoom
       /\ lost' = lost \cup {i}
       /\ UNCHANGED tasks

\* reserveFallbackProvider hands the provider out.
CanReserve == provider = "on" /\ ~ spaced

Reserved(c) ==
    /\ spaced' = TRUE
    /\ Goto(c, "call")

\* An answer of the provider; its status decides what the service does next.
\* "retry": a timeout or 5xx; "busy": 429; "refused": 401, or 429 with no free
\* requests; "error": anything else.
Failures == {"retry", "busy", "refused", "error"}
Answers == Levels \cup Failures

\* disableFallbackProvider, activateFallbackCooldown.
ProviderAfter(o) ==
    CASE o = "refused" -> "off"
      [] o = "busy" /\ provider = "on" -> "paused"
      [] OTHER -> provider

\* mergeFallbackLocation fills in what is missing.
Merged(o) == IF o = "rich" THEN "rich" ELSE "poor"

\* The provider knows no city or no coordinates either.
Thin(o) == o = "poor"
-----------------------------------------------------------------------------
(* GeoIPService.Lookup *)

StartLookup(l, i) ==
    /\ caller[l].pc = "idle"
    /\ lookups < MaxLookups
    /\ lookups' = lookups + 1
    /\ caller' = [caller EXCEPT ![l] = [Idle EXCEPT !.pc = "cache", !.ip = i]]
    /\ UNCHANGED <<cache, tasks, service, faults, up, lost>>

\* A hit is the answer, and asks for enrichment if it is poor; an error of
\* Redis is a miss.
LookupCache(l) ==
    LET found == cache[caller[l].ip] IN
    /\ caller[l].pc = "cache"
    /\ \/ /\ found = "rich" /\ Leave(l) /\ UNCHANGED faults
       \/ /\ found = "poor" /\ UNCHANGED faults
          /\ caller' = [caller EXCEPT ![l].pc = "enqueue", ![l].loc = "none"]
       \/ /\ found = "none" /\ Goto(l, "reader") /\ UNCHANGED faults
       \/ /\ found # "none" /\ Fault /\ Goto(l, "reader")
    /\ UNCHANGED <<cache, tasks, service, lookups, up, lost>>

\* buildBaseLocation takes the reader under the lock ...
TakeReader(c) ==
    /\ caller[c].pc = "reader"
    /\ caller' = [caller EXCEPT ![c].pc = "base", ![c].held = reader]
    /\ UNCHANGED <<cache, tasks, service, lookups, faults, up, lost>>

\* ... and reads it later: a reader closed meanwhile gives an error, and the
\* location is what iptoasn alone knows.
BaseOf(c) ==
    IF caller[c].held \notin closed /\ caller[c].ip \in Coverage[caller[c].held + 1]
    THEN "rich" ELSE "poor"

ReadBase(l) ==
    /\ l # Worker
    /\ caller[l].pc = "base"
    /\ caller' = [caller EXCEPT ![l].loc = BaseOf(l), ![l].held = 0,
                                ![l].pc = IF BaseOf(l) = "poor" THEN "reserve" ELSE "save"]
    /\ UNCHANGED <<cache, tasks, service, lookups, faults, up, lost>>

Reserve(l) ==
    /\ l # Worker
    /\ caller[l].pc = "reserve"
    /\ \/ CanReserve /\ Reserved(l)
       \/ ~ CanReserve /\ Goto(l, "enqueue") /\ UNCHANGED spaced
    /\ UNCHANGED <<cache, tasks, provider, reader, closed, lookups, faults, up, lost>>

\* Mutant of LookupCall: after an error nothing is queued.
LookupCallOnce(l, o) ==
    LET i == caller[l].ip IN
    /\ l # Worker
    /\ caller[l].pc = "call"
    /\ provider' = ProviderAfter(o)
    /\ caller' = [caller EXCEPT ![l].pc = "save", ![l].loc = Merged(o)]
    /\ IF o \in Levels THEN Finish(l, i, Thin(o)) ELSE UNCHANGED <<pending, lost>>
    /\ UNCHANGED <<cache, queue, timers, spaced, reader, closed, lookups, faults, up>>

\* The synchronous call.  Its success ends the task of the address even if the
\* queue still holds it; its error queues one.
LookupCall(l, o) ==
    LET i == caller[l].ip IN
    /\ l # Worker
    /\ caller[l].pc = "call"
    /\ provider' = ProviderAfter(o)
    /\ \/ /\ o \in Levels
          /\ caller' = [caller EXCEPT ![l].pc = "save", ![l].loc = Merged(o)]
          /\ Finish(l, i, Thin(o))
       \/ /\ o \in Failures
          /\ Goto(l, "enqueue")
          /\ UNCHANGED <<pending, lost>>
    /\ UNCHANGED <<cache, queue, timers, spaced, reader, closed, lookups, faults, up>>

\* After a hit the lookup ends here; after a miss its location is still to store.
LookupEnqueue(l) ==
    /\ caller[l].pc = "enqueue"
    /\ Enqueue(caller[l].ip)
    /\ IF caller[l].loc = "none" THEN Leave(l) ELSE Goto(l, "save")
    /\ UNCHANGED <<cache, service, lookups, faults, up>>

\* saveToCache: whatever the entry has become meanwhile is overwritten.
LookupSave(l) ==
    LET i == caller[l].ip IN
    /\ l # Worker
    /\ caller[l].pc = "save"
    /\ Leave(l)
    /\ \/ /\ cache' = [cache EXCEPT ![i] = caller[l].loc]
          /\ UNCHANGED <<faults, lost>>
       \/ /\ Fault
          /\ lost' = lost \cup {i}
          /\ UNCHANGED cache
    /\ UNCHANGED <<tasks, service, lookups, up>>
-----------------------------------------------------------------------------
(* StartFallbackWorker and processFallbackTask *)

\* scheduleFallbackRetry
Later(i, attempt) ==
    timers' = [timers EXCEPT ![[ip |-> i, attempt |-> attempt]] = @ + 1]

TakeTask ==
    /\ caller[Worker].pc = "idle"
    /\ queue # <<>>
    /\ caller' = [caller EXCEPT ![Worker] =
                    [Idle EXCEPT !.pc = "cache", !.ip = Head(queue).ip,
                                 !.attempt = Head(queue).attempt]]
    /\ queue' = Tail(queue)
    /\ UNCHANGED <<cache, timers, pending, service, lookups, faults, up, lost>>

\* An entry that is complete by now ends the task; otherwise the worker keeps
\* what it read.
WorkerCache ==
    LET w == caller[Worker] IN
    /\ w.pc = "cache"
    /\ \/ /\ cache[w.ip] = "rich"
          /\ Finish(Worker, w.ip, FALSE)
          /\ Leave(Worker)
          /\ UNCHANGED faults
       \/ /\ cache[w.ip] # "rich"
          /\ caller' = [caller EXCEPT ![Worker].pc = "reserve", ![Worker].loc = cache[w.ip]]
          /\ UNCHANGED <<pending, faults, lost>>
       \/ /\ cache[w.ip] # "none"
          /\ Fault
          /\ Goto(Worker, "reserve")
          /\ UNCHANGED <<pending, lost>>
    /\ UNCHANGED <<cache, queue, timers, service, lookups, up>>

\* No provider at hand: the task waits and costs no attempt.
WorkerReserve ==
    LET w == caller[Worker] IN
    /\ w.pc = "reserve"
    /\ \/ /\ CanReserve
          /\ Reserved(Worker)
          /\ UNCHANGED timers
       \/ /\ ~ CanReserve
          /\ Later(w.ip, w.attempt)
          /\ Leave(Worker)
          /\ UNCHANGED spaced
    /\ UNCHANGED <<cache, queue, pending, provider, reader, closed, lookups, faults, up, lost>>

\* Mutant of NextAttempt: the retry keeps its number.
NextAttemptSame(attempt) == attempt

NextAttempt(attempt) == attempt + 1

\* An answer is merged into the entry read earlier or into a new base location.
WorkerCall(o) ==
    LET w == caller[Worker]
        again == o \in {"retry", "busy"} /\ w.attempt < RetryMax IN
    /\ w.pc = "call"
    /\ provider' = ProviderAfter(o)
    /\ \/ /\ o \in Levels
          /\ caller' = [caller EXCEPT
                 ![Worker].pc = IF w.loc = "none" THEN "reader" ELSE "save",
                 ![Worker].loc = Merged(o)]
          /\ UNCHANGED <<timers, pending, lost>>
       \/ /\ again
          /\ Later(w.ip, NextAttempt(w.attempt))
          /\ Leave(Worker)
          /\ UNCHANGED <<pending, lost>>
       \/ /\ o \in Failures /\ ~ again
          /\ Finish(Worker, w.ip, TRUE)
          /\ Leave(Worker)
          /\ UNCHANGED timers
    /\ UNCHANGED <<cache, queue, spaced, reader, closed, lookups, faults, up>>

WorkerBase ==
    /\ caller[Worker].pc = "base"
    /\ caller' = [caller EXCEPT ![Worker].pc = "save", ![Worker].held = 0,
                                ![Worker].loc = IF BaseOf(Worker) = "rich" THEN "rich" ELSE @]
    /\ UNCHANGED <<cache, tasks, service, lookups, faults, up, lost>>

\* saveToCache, then finishFallbackTask whether or not it worked.
WorkerSave ==
    LET w == caller[Worker] IN
    /\ w.pc = "save"
    /\ Leave(Worker)
    /\ \/ /\ cache' = [cache EXCEPT ![w.ip] = w.loc]
          /\ Finish(Worker, w.ip, w.loc = "poor")
          /\ UNCHANGED faults
       \/ /\ Fault
          /\ Finish(Worker, w.ip, TRUE)
          /\ UNCHANGED cache
    /\ UNCHANGED <<queue, timers, service, lookups, up>>

WorkerStep ==
    \/ TakeTask
    \/ WorkerCache
    \/ WorkerReserve
    \/ \E o \in Answers : WorkerCall(o)
    \/ TakeReader(Worker)
    \/ WorkerBase
    \/ WorkerSave

\* The timer of a retry: the task goes back to the queue, unless it was finished
\* by someone else, the provider is gone, the queue is full or the service stops.
FireTimer(t) ==
    /\ timers[t] > 0
    /\ timers' = [timers EXCEPT ![t] = @ - 1]
    /\ \/ /\ provider = "off" \/ ~ up
          /\ pending' = pending \ {t.ip}
          /\ UNCHANGED <<queue, lost>>
       \/ /\ provider # "off" /\ t.ip \notin pending
          /\ UNCHANGED <<queue, pending, lost>>
       \/ /\ provider # "off" /\ t.ip \in pending /\ HasRoom
          /\ queue' = Append(queue, t)
          /\ UNCHANGED <<pending, lost>>
       \/ /\ provider # "off" /\ t.ip \in pending /\ ~ HasRoom
          /\ pending' = pending \ {t.ip}
          /\ lost' = lost \cup {t.ip}
          /\ UNCHANGED queue
    /\ UNCHANGED <<cache, service, caller, lookups, faults, up>>
-----------------------------------------------------------------------------
(* Time, Redis, the updater and the process *)

SpacingEnds ==
    /\ spaced
    /\ spaced' = FALSE
    /\ UNCHANGED <<cache, tasks, provider, reader, closed, caller, lookups, faults, up, lost>>

PauseEnds ==
    /\ provider = "paused"
    /\ provider' = "on"
    /\ UNCHANGED <<cache, tasks, spaced, reader, closed, caller, lookups, faults, up, lost>>

Expire(i) ==
    /\ cache[i] # "none"
    /\ Fault
    /\ cache' = [cache EXCEPT ![i] = "none"]
    /\ UNCHANGED <<tasks, service, caller, lookups, up, lost>>

\* GeoLiteUpdater: UpdateMMDBReader swaps the reader under the lock ...
SwapReader ==
    /\ up
    /\ reader + 1 \in Editions
    /\ 0..(reader - 1) \subseteq closed
    /\ reader' = reader + 1
    /\ UNCHANGED <<cache, tasks, provider, spaced, closed, caller, lookups, faults, up, lost>>

\* ... and closes the old one outside it; Close of the service does the same to
\* the last one.
CloseReader(e) ==
    /\ e < reader \/ (e = reader /\ ~ up)
    /\ e \notin closed
    /\ closed' = closed \cup {e}
    /\ UNCHANGED <<cache, tasks, provider, spaced, reader, caller, lookups, faults, up, lost>>

\* The service context is cancelled: the worker leaves once its task is done, or
\* later, for select takes a queued task as gladly as the cancellation.
Cancel ==
    /\ up
    /\ up' = FALSE
    /\ UNCHANGED <<cache, tasks, service, caller, lookups, faults, lost>>

LookerStep(l) ==
    \/ LookupCache(l)
    \/ TakeReader(l)
    \/ ReadBase(l)
    \/ Reserve(l)
    \/ \E o \in Answers : LookupCall(l, o)
    \/ LookupEnqueue(l)
    \/ LookupSave(l)

Next ==
    \/ \E l \in Lookers : LookerStep(l) \/ \E i \in IPs : StartLookup(l, i)
    \/ WorkerStep
    \/ \E t \in Tasks : FireTimer(t)
    \/ SpacingEnds
    \/ PauseEnds
    \/ \E i \in IPs : Expire(i)
    \/ SwapReader
    \/ \E e \in Editions : CloseReader(e)
    \/ Cancel

Spec == Init /\ [][Next]_vars

\* Remote calls return within the timeouts of their clients, delays pass, and
\* the runtime schedules every goroutine while the service runs.
Fairness ==
    /\ WF_vars(up /\ WorkerStep)
    /\ WF_vars(\E l \in Lookers : LookerStep(l))
    /\ WF_vars(\E t \in Tasks : FireTimer(t))
    /\ WF_vars(SpacingEnds)
    /\ WF_vars(PauseEnds)

FairSpec == Spec /\ Fairness
-----------------------------------------------------------------------------
(* Properties *)

\* An address is pending only while a task for it exists: a pending address
\* nobody works on could never be queued again (geoip.go:147).
PendingHasTask ==
    \A i \in pending :
        \/ \E n \in DOMAIN queue : queue[n].ip = i
        \/ \E t \in Tasks : t.ip = i /\ timers[t] > 0
        \/ caller[Worker].ip = i

\* While there is a provider, an incomplete entry is queued for enrichment or
\* a lookup of the address is under way, or one of the named losses explains why
\* nothing will complete it (geoip.go:509, 562).
PoorIsExplained ==
    \A i \in IPs :
        \/ cache[i] # "poor" \/ provider = "off" \/ ~ up
        \/ i \in pending
        \/ \E l \in Lookers : caller[l].ip = i /\ caller[l].pc \in {"enqueue", "save"}
        \/ i \in lost

\* As long as the service runs, every pending address is dealt with: retries are
\* counted, and a task that waits for the provider gets it in the end.
PendingSettles == \A i \in IPs : i \in pending ~> (i \notin pending \/ ~ up)
=============================================================================
