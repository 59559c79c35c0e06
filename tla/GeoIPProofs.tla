----------------------------- MODULE GeoIPProofs -----------------------------
(***************************************************************************)
(* Proofs about GeoIP for every set of addresses and lookups, every queue, *)
(* every number of retries and every sequence of MMDB editions.            *)
(*                                                                         *)
(* PoorIsExplained is not inductive: a lookup may be about to store an     *)
(* incomplete location it read long ago.  PoorSaved adds that by then the  *)
(* address is pending, or its enrichment was lost.                         *)
(***************************************************************************)
EXTENDS GeoIP, TLAPS

\* An idle goroutine has no address and a busy one has.
AtWork == \A c \in Callers : caller[c].ip \in IPs <=> caller[c].pc # "idle"

Settled(i) == provider = "off" \/ ~ up \/ i \in pending \/ i \in lost

PoorSaved ==
    \A l \in Lookers :
        caller[l].pc = "save" /\ caller[l].loc = "poor" => Settled(caller[l].ip)

IInv == TypeOK /\ AtWork /\ PendingHasTask /\ PoorIsExplained /\ PoorSaved
-----------------------------------------------------------------------------
(* Types *)

LEMMA EditionZero == 0 \in Editions /\ Editions \subseteq Nat
BY GeoIPAssumption DEF Editions

LEMMA IdlePosition == Idle \in Positions
BY EditionZero, GeoIPAssumption DEF Idle, Positions, Pcs, Levels

LEMMA NewTask ==
    ASSUME NEW i \in IPs
    PROVE  [ip |-> i, attempt |-> 0] \in Tasks
BY GeoIPAssumption DEF Tasks

LEMMA EnqueueType ==
    ASSUME TypeOK, NEW i \in IPs, Enqueue(i)
    PROVE  /\ queue' \in Seq(Tasks) /\ Len(queue') <= QueueCap
           /\ timers' \in [Tasks -> Nat]
           /\ pending' \subseteq IPs
           /\ lost' \subseteq IPs
<1>1. [ip |-> i, attempt |-> 0] \in Tasks BY NewTask
<1>2. queue \in Seq(Tasks) /\ Len(queue) <= QueueCap /\ QueueCap \in Nat
  BY GeoIPAssumption DEF TypeOK
<1>3. queue' \in Seq(Tasks) /\ Len(queue') <= QueueCap
  BY <1>1, <1>2 DEF Enqueue, HasRoom, tasks
<1> QED
  BY <1>3 DEF TypeOK, Enqueue, tasks

LEMMA CoverageType == \A e \in Editions : Coverage[e + 1] \subseteq IPs
BY GeoIPAssumption DEF Editions

LEMMA GotoType ==
    ASSUME TypeOK, NEW c \in Callers, NEW pc \in Pcs, Goto(c, pc)
    PROVE  caller' \in [Callers -> Positions]
BY DEF Goto, TypeOK, Positions

LEMMA LeaveType ==
    ASSUME TypeOK, NEW c \in Callers, Leave(c)
    PROVE  caller' \in [Callers -> Positions]
BY IdlePosition DEF Leave, TypeOK

\* A step of a looker leaves every variable in its type.
LEMMA LookerType ==
    ASSUME TypeOK, AtWork, NEW l \in Lookers, LookerStep(l)
    PROVE  TypeOK'
<1> USE EditionZero, IdlePosition, GeoIPAssumption
<1>0. l \in Callers /\ caller[l] \in Positions /\ l # Worker
  BY DEF Callers, TypeOK
<1>1. CASE LookupCache(l)
  <2>1. caller' \in [Callers -> Positions]
    <3>1. CASE Leave(l) BY <1>0, <3>1, LeaveType
    <3>2. CASE Goto(l, "reader") BY <1>0, <3>2, GotoType DEF Pcs
    <3>3. CASE caller' = [caller EXCEPT ![l].pc = "enqueue", ![l].loc = "none"]
      BY <1>0, <3>3 DEF TypeOK, Positions, Pcs
    <3> QED BY <1>1, <3>1, <3>2, <3>3 DEF LookupCache
  <2>2. faults' \in 0..MaxFaults
    BY <1>1 DEF LookupCache, Fault, TypeOK
  <2> QED BY <1>1, <2>1, <2>2 DEF LookupCache, TypeOK, tasks, service
<1>2. CASE TakeReader(l)
  <2>1. caller' \in [Callers -> Positions]
    BY <1>0, <1>2 DEF TakeReader, TypeOK, Positions, Pcs
  <2> QED BY <1>2, <2>1 DEF TakeReader, TypeOK, tasks, service
<1>3. CASE ReadBase(l)
  <2>1. BaseOf(l) \in Levels BY DEF BaseOf, Levels
  <2>2. caller' \in [Callers -> Positions]
    BY <1>0, <1>3, <2>1 DEF ReadBase, TypeOK, Positions, Pcs
  <2> QED BY <1>3, <2>2 DEF ReadBase, TypeOK, tasks, service
<1>4. CASE Reserve(l)
  <2>1. caller' \in [Callers -> Positions]
    BY <1>0, <1>4, GotoType DEF Reserve, Reserved, Pcs
  <2>2. spaced' \in BOOLEAN
    BY <1>4 DEF Reserve, Reserved, TypeOK
  <2> QED BY <1>4, <2>1, <2>2 DEF Reserve, TypeOK, tasks
<1>5. ASSUME NEW o \in Answers, LookupCall(l, o) PROVE TypeOK'
  <2>1. caller[l].ip \in IPs BY <1>0, <1>5 DEF AtWork, LookupCall
  <2>2. caller' \in [Callers -> Positions]
    <3>1. CASE Goto(l, "enqueue") BY <1>0, <3>1, GotoType DEF Pcs
    <3>2. CASE caller' = [caller EXCEPT ![l].pc = "save", ![l].loc = Merged(o)]
      BY <1>0, <3>2 DEF Merged, Levels, TypeOK, Positions, Pcs
    <3> QED BY <1>5, <3>1, <3>2 DEF LookupCall
  <2>3. provider' \in {"on", "paused", "off"}
    BY <1>5 DEF LookupCall, ProviderAfter, TypeOK
  <2>4. pending' \subseteq IPs /\ lost' \subseteq IPs
    BY <1>5, <2>1 DEF LookupCall, Finish, TypeOK
  <2> QED BY <1>5, <2>2, <2>3, <2>4 DEF LookupCall, TypeOK
<1>6. CASE LookupEnqueue(l)
  <2>1. caller[l].ip \in IPs BY <1>0, <1>6 DEF AtWork, LookupEnqueue
  <2>2. Enqueue(caller[l].ip) BY <1>6 DEF LookupEnqueue
  <2>3. caller' \in [Callers -> Positions]
    BY <1>0, <1>6, GotoType, LeaveType DEF LookupEnqueue, Pcs
  <2> QED BY <1>6, <2>1, <2>2, <2>3, EnqueueType DEF LookupEnqueue, TypeOK, service
<1>7. CASE LookupSave(l)
  <2>1. caller[l].ip \in IPs BY <1>0, <1>7 DEF AtWork, LookupSave
  <2>2. caller' \in [Callers -> Positions]
    BY <1>0, <1>7, LeaveType DEF LookupSave
  <2>3. cache' \in [IPs -> Levels \cup {"none"}]
    BY <1>0, <1>7, <2>1 DEF LookupSave, TypeOK, Positions
  <2>4. faults' \in 0..MaxFaults /\ lost' \subseteq IPs
    BY <1>7, <2>1 DEF LookupSave, Fault, TypeOK
  <2> QED BY <1>7, <2>2, <2>3, <2>4 DEF LookupSave, TypeOK, tasks, service
<1> QED BY <1>1, <1>2, <1>3, <1>4, <1>5, <1>6, <1>7 DEF LookerStep

\* A retry is counted from the number of the task.
LEMMA LaterType ==
    ASSUME TypeOK, NEW i \in IPs, NEW n \in 0..RetryMax, Later(i, n)
    PROVE  timers' \in [Tasks -> Nat] /\ timers'[[ip |-> i, attempt |-> n]] > 0
<1>1. [ip |-> i, attempt |-> n] \in Tasks BY DEF Tasks
<1> QED BY <1>1 DEF Later, TypeOK

LEMMA HeadIsTask ==
    ASSUME TypeOK, queue # <<>>
    PROVE  /\ Head(queue) \in Tasks
           /\ Tail(queue) \in Seq(Tasks) /\ Len(Tail(queue)) <= QueueCap
<1>1. queue \in Seq(Tasks) /\ Len(queue) <= QueueCap /\ QueueCap \in Nat
  BY GeoIPAssumption DEF TypeOK
<1>2. Head(queue) \in Tasks /\ Tail(queue) \in Seq(Tasks) /\ Len(Tail(queue)) = Len(queue) - 1
  BY <1>1
<1> QED BY <1>1, <1>2

\* So does a step of the worker.
LEMMA WorkerType ==
    ASSUME TypeOK, AtWork, WorkerStep
    PROVE  TypeOK'
<1> USE EditionZero, IdlePosition, GeoIPAssumption
<1> DEFINE w == caller[Worker]
<1>0. Worker \in Callers /\ w \in Positions
  BY DEF Callers, TypeOK
<1>1. CASE TakeTask
  <2>1. Head(queue) \in Tasks /\ Tail(queue) \in Seq(Tasks) /\ Len(Tail(queue)) <= QueueCap
    BY <1>1, HeadIsTask DEF TakeTask
  <2>2. Head(queue).ip \in IPs /\ Head(queue).attempt \in 0..RetryMax
    BY <2>1 DEF Tasks
  <2>3. [Idle EXCEPT !.pc = "cache", !.ip = Head(queue).ip,
                     !.attempt = Head(queue).attempt] \in Positions
    BY <2>2 DEF Idle, Positions, Pcs
  <2>4. caller' \in [Callers -> Positions]
    BY <1>0, <1>1, <2>3 DEF TakeTask, TypeOK
  <2> QED BY <1>1, <2>1, <2>4 DEF TakeTask, TypeOK, service
<1>2. CASE WorkerCache
  <2>1. w.ip \in IPs BY <1>0, <1>2 DEF AtWork, WorkerCache
  <2>2. caller' \in [Callers -> Positions]
    <3>1. CASE Leave(Worker) BY <1>0, <3>1, LeaveType
    <3>2. CASE Goto(Worker, "reserve") BY <1>0, <3>2, GotoType DEF Pcs
    <3>3. CASE caller' = [caller EXCEPT ![Worker].pc = "reserve", ![Worker].loc = cache[w.ip]]
      BY <1>0, <2>1, <3>3 DEF TypeOK, Positions, Pcs
    <3> QED BY <1>2, <3>1, <3>2, <3>3 DEF WorkerCache
  <2>3. faults' \in 0..MaxFaults /\ pending' \subseteq IPs /\ lost' \subseteq IPs
    BY <1>2, <2>1 DEF WorkerCache, Fault, Finish, TypeOK
  <2> QED BY <1>2, <2>2, <2>3 DEF WorkerCache, TypeOK, service
<1>3. CASE WorkerReserve
  <2>1. w.ip \in IPs /\ w.attempt \in 0..RetryMax
    BY <1>0, <1>3 DEF AtWork, WorkerReserve, Positions
  <2>2. caller' \in [Callers -> Positions]
    BY <1>0, <1>3, GotoType, LeaveType DEF WorkerReserve, Reserved, Pcs
  <2>3. timers' \in [Tasks -> Nat]
    BY <1>3, <2>1, LaterType DEF WorkerReserve, TypeOK
  <2>4. spaced' \in BOOLEAN BY <1>3 DEF WorkerReserve, Reserved, TypeOK
  <2> QED BY <1>3, <2>2, <2>3, <2>4 DEF WorkerReserve, TypeOK
<1>4. ASSUME NEW o \in Answers, WorkerCall(o) PROVE TypeOK'
  <2>1. w.ip \in IPs /\ w.attempt \in 0..RetryMax
    BY <1>0, <1>4 DEF AtWork, WorkerCall, Positions
  <2>2. caller' \in [Callers -> Positions]
    <3>1. CASE Leave(Worker) BY <1>0, <3>1, LeaveType
    <3>2. CASE caller' = [caller EXCEPT
                 ![Worker].pc = IF w.loc = "none" THEN "reader" ELSE "save",
                 ![Worker].loc = Merged(o)]
      BY <1>0, <3>2 DEF Merged, Levels, TypeOK, Positions, Pcs
    <3> QED BY <1>4, <3>1, <3>2 DEF WorkerCall
  <2>3. timers' \in [Tasks -> Nat]
    <3>1. CASE Later(w.ip, NextAttempt(w.attempt)) /\ w.attempt < RetryMax
      <4>1. NextAttempt(w.attempt) \in 0..RetryMax
        BY <2>1, <3>1 DEF NextAttempt
      <4> QED BY <2>1, <3>1, <4>1, LaterType
    <3>2. CASE UNCHANGED timers BY <3>2 DEF TypeOK
    <3> QED BY <1>4, <3>1, <3>2 DEF WorkerCall
  <2>4. pending' \subseteq IPs /\ lost' \subseteq IPs
    BY <1>4, <2>1 DEF WorkerCall, Finish, TypeOK
  <2>5. provider' \in {"on", "paused", "off"}
    BY <1>4 DEF WorkerCall, ProviderAfter, TypeOK
  <2> QED BY <1>4, <2>2, <2>3, <2>4, <2>5 DEF WorkerCall, TypeOK
<1>5. CASE TakeReader(Worker)
  <2>1. caller' \in [Callers -> Positions]
    BY <1>0, <1>5 DEF TakeReader, TypeOK, Positions, Pcs
  <2> QED BY <1>5, <2>1 DEF TakeReader, TypeOK, tasks, service
<1>6. CASE WorkerBase
  <2>1. caller' \in [Callers -> Positions]
    BY <1>0, <1>6 DEF WorkerBase, TypeOK, Positions, Pcs, Levels
  <2> QED BY <1>6, <2>1 DEF WorkerBase, TypeOK, tasks, service
<1>7. CASE WorkerSave
  <2>1. w.ip \in IPs BY <1>0, <1>7 DEF AtWork, WorkerSave
  <2>2. caller' \in [Callers -> Positions]
    BY <1>0, <1>7, LeaveType DEF WorkerSave
  <2>3. cache' \in [IPs -> Levels \cup {"none"}]
    BY <1>0, <1>7, <2>1 DEF WorkerSave, TypeOK, Positions
  <2>4. faults' \in 0..MaxFaults /\ pending' \subseteq IPs /\ lost' \subseteq IPs
    BY <1>7, <2>1 DEF WorkerSave, Fault, Finish, TypeOK
  <2> QED BY <1>7, <2>2, <2>3, <2>4 DEF WorkerSave, TypeOK, service
<1> QED BY <1>1, <1>2, <1>3, <1>4, <1>5, <1>6, <1>7 DEF WorkerStep

\* Every other step.
Environment ==
    \/ \E t \in Tasks : FireTimer(t)
    \/ SpacingEnds
    \/ PauseEnds
    \/ \E i \in IPs : Expire(i)
    \/ SwapReader
    \/ \E e \in Editions : CloseReader(e)
    \/ Cancel

LEMMA TypeInit == Init => TypeOK
<1> SUFFICES ASSUME Init PROVE TypeOK
  OBVIOUS
<1>1. queue \in Seq(Tasks) /\ Len(queue) <= QueueCap
  BY GeoIPAssumption DEF Init
<1>2. caller \in [Callers -> Positions]
  BY IdlePosition DEF Init
<1>3. reader \in Editions
  BY EditionZero DEF Init
<1>4. cache \in [IPs -> Levels \cup {"none"}] /\ timers \in [Tasks -> Nat]
  BY DEF Init
<1>5. lookups \in 0..MaxLookups /\ faults \in 0..MaxFaults
  BY GeoIPAssumption DEF Init
<1>6. /\ pending \subseteq IPs /\ closed \subseteq Editions /\ lost \subseteq IPs
      /\ provider \in {"on", "paused", "off"} /\ spaced \in BOOLEAN /\ up \in BOOLEAN
  BY DEF Init
<1> QED
  BY <1>1, <1>2, <1>3, <1>4, <1>5, <1>6 DEF TypeOK

LEMMA TypeStep == TypeOK /\ AtWork /\ [Next]_vars => TypeOK'
<1> SUFFICES ASSUME TypeOK, AtWork, [Next]_vars PROVE TypeOK'
  OBVIOUS
<1> USE EditionZero, GeoIPAssumption
<1>1. ASSUME NEW l \in Lookers, NEW i \in IPs, StartLookup(l, i) PROVE TypeOK'
  <2>1. [Idle EXCEPT !.pc = "cache", !.ip = i] \in Positions
    BY IdlePosition DEF Idle, Positions, Pcs
  <2>2. caller' \in [Callers -> Positions] /\ lookups' \in 0..MaxLookups
    BY <1>1, <2>1 DEF StartLookup, TypeOK, Callers
  <2> QED BY <1>1, <2>2 DEF StartLookup, TypeOK, tasks, service
<1>2. ASSUME NEW t \in Tasks, FireTimer(t) PROVE TypeOK'
  <2>1. t.ip \in IPs BY DEF Tasks
  <2>2. timers' \in [Tasks -> Nat] BY <1>2 DEF FireTimer, TypeOK
  <2>3. queue \in Seq(Tasks) /\ Len(queue) <= QueueCap /\ QueueCap \in Nat
    BY DEF TypeOK
  <2>4. queue' \in Seq(Tasks) /\ Len(queue') <= QueueCap
    BY <1>2, <2>3 DEF FireTimer, HasRoom
  <2>5. pending' \subseteq IPs /\ lost' \subseteq IPs
    BY <1>2, <2>1 DEF FireTimer, TypeOK
  <2> QED BY <1>2, <2>2, <2>4, <2>5 DEF FireTimer, TypeOK, service
<1>3. CASE SpacingEnds BY <1>3 DEF SpacingEnds, TypeOK, tasks
<1>4. CASE PauseEnds BY <1>4 DEF PauseEnds, TypeOK, tasks
<1>5. ASSUME NEW i \in IPs, Expire(i) PROVE TypeOK'
  BY <1>5 DEF Expire, Fault, TypeOK, tasks, service
<1>6. CASE SwapReader BY <1>6 DEF SwapReader, TypeOK, tasks
<1>7. ASSUME NEW e \in Editions, CloseReader(e) PROVE TypeOK'
  BY <1>7 DEF CloseReader, TypeOK, tasks
<1>8. CASE Cancel BY <1>8 DEF Cancel, TypeOK, tasks, service
<1>9. CASE UNCHANGED vars BY <1>9 DEF vars, TypeOK
<1>10. ASSUME Environment PROVE TypeOK'
  BY <1>10, <1>2, <1>3, <1>4, <1>5, <1>6, <1>7, <1>8 DEF Environment
<1> QED
  BY <1>1, <1>9, <1>10, LookerType, WorkerType DEF Next, Environment
-----------------------------------------------------------------------------
(* Addresses of goroutines and tasks of pending addresses *)

LEMMA GotoAtWork ==
    ASSUME TypeOK, NEW c \in Callers, NEW d \in Callers, NEW pc \in Pcs, Goto(d, pc)
    PROVE  /\ caller'[c].ip = caller[c].ip
           /\ caller'[c].pc = IF c = d THEN pc ELSE caller[c].pc
           /\ caller'[c].loc = caller[c].loc
BY DEF Goto, TypeOK, Positions

LEMMA LeaveAtWork ==
    ASSUME TypeOK, NEW c \in Callers, NEW d \in Callers, Leave(d)
    PROVE  caller'[c] = IF c = d THEN Idle ELSE caller[c]
BY DEF Leave, TypeOK

\* Only a start gives an idle goroutine an address.
LEMMA AtWorkStep == TypeOK /\ AtWork /\ [Next]_vars => AtWork'
<1> SUFFICES ASSUME TypeOK, AtWork, [Next]_vars, NEW c \in Callers
             PROVE  (caller'[c].ip \in IPs <=> caller'[c].pc # "idle")
  BY DEF AtWork
<1> DEFINE Goal == caller'[c].ip \in IPs <=> caller'[c].pc # "idle"
<1>0. /\ caller \in [Callers -> Positions] /\ Worker \in Callers /\ Lookers \subseteq Callers
      /\ \A d \in Callers : caller[d].ip \in IPs <=> caller[d].pc # "idle"
      /\ Idle.ip \notin IPs /\ Idle.pc = "idle"
  BY GeoIPAssumption DEF TypeOK, Callers, AtWork, Idle
<1>1. ASSUME NEW d \in Callers, Leave(d) PROVE Goal
  BY <1>0, <1>1, LeaveAtWork
<1>2. ASSUME NEW d \in Callers, NEW pc \in Pcs \ {"idle"}, Goto(d, pc), caller[d].pc # "idle"
      PROVE  Goal
  BY <1>0, <1>2, GotoAtWork
<1>3. ASSUME NEW l \in Lookers, NEW i \in IPs, StartLookup(l, i) PROVE Goal
  BY <1>0, <1>3 DEF StartLookup, Idle
<1>4. ASSUME NEW d \in Callers, TakeReader(d) PROVE Goal
  BY <1>0, <1>4 DEF TakeReader, Positions
<1>5. ASSUME NEW l \in Lookers, LookerStep(l) PROVE Goal
  <2>0. l \in Callers BY <1>0
  <2>1. CASE LookupCache(l)
    <3>1. CASE caller' = [caller EXCEPT ![l].pc = "enqueue", ![l].loc = "none"]
      BY <1>0, <2>0, <2>1, <3>1 DEF LookupCache, Positions
    <3> QED BY <2>0, <2>1, <3>1, <1>1, <1>2 DEF LookupCache, Pcs
  <2>2. CASE ReadBase(l) BY <1>0, <2>0, <2>2 DEF ReadBase, Positions
  <2>3. CASE Reserve(l) BY <2>0, <2>3, <1>2 DEF Reserve, Reserved, Pcs
  <2>4. ASSUME NEW o \in Answers, LookupCall(l, o) PROVE Goal
    <3>1. CASE caller' = [caller EXCEPT ![l].pc = "save", ![l].loc = Merged(o)]
      BY <1>0, <2>0, <2>4, <3>1 DEF LookupCall, Positions
    <3> QED BY <2>0, <2>4, <3>1, <1>2 DEF LookupCall, Pcs
  <2>5. CASE LookupEnqueue(l) BY <2>0, <2>5, <1>1, <1>2 DEF LookupEnqueue, Pcs
  <2>6. CASE LookupSave(l) BY <2>0, <2>6, <1>1 DEF LookupSave
  <2> QED BY <1>5, <2>0, <1>4, <2>1, <2>2, <2>3, <2>4, <2>5, <2>6 DEF LookerStep
<1>6. ASSUME WorkerStep PROVE Goal
  <2>1. CASE TakeTask
    <3>1. Head(queue).ip \in IPs BY <2>1, HeadIsTask DEF TakeTask, Tasks
    <3> QED BY <1>0, <2>1, <3>1 DEF TakeTask, Idle
  <2>2. CASE WorkerCache
    <3>1. CASE caller' = [caller EXCEPT ![Worker].pc = "reserve",
                                        ![Worker].loc = cache[caller[Worker].ip]]
      BY <1>0, <2>2, <3>1 DEF WorkerCache, Positions
    <3> QED BY <1>0, <2>2, <3>1, <1>1, <1>2 DEF WorkerCache, Pcs
  <2>3. CASE WorkerReserve BY <1>0, <2>3, <1>1, <1>2 DEF WorkerReserve, Reserved, Pcs
  <2>4. ASSUME NEW o \in Answers, WorkerCall(o) PROVE Goal
    <3>1. CASE caller' = [caller EXCEPT
                 ![Worker].pc = IF caller[Worker].loc = "none" THEN "reader" ELSE "save",
                 ![Worker].loc = Merged(o)]
      BY <1>0, <2>4, <3>1 DEF WorkerCall, Positions
    <3> QED BY <1>0, <2>4, <3>1, <1>1 DEF WorkerCall
  <2>5. CASE WorkerBase BY <1>0, <2>5 DEF WorkerBase, Positions
  <2>6. CASE WorkerSave BY <1>0, <2>6, <1>1 DEF WorkerSave
  <2> QED BY <1>6, <1>0, <1>4, <2>1, <2>2, <2>3, <2>4, <2>5, <2>6 DEF WorkerStep
<1>7. ASSUME Environment PROVE UNCHANGED caller
  BY <1>7 DEF Environment, FireTimer, SpacingEnds, PauseEnds, Expire, SwapReader,
     CloseReader, Cancel
<1>8. CASE UNCHANGED vars BY <1>0, <1>8 DEF vars
<1> QED BY <1>0, <1>3, <1>5, <1>6, <1>7, <1>8 DEF Next, Environment

\* What PendingHasTask asks for one address.
HasTask(i) ==
    \/ \E n \in DOMAIN queue : queue[n].ip = i
    \/ \E t \in Tasks : t.ip = i /\ timers[t] > 0
    \/ caller[Worker].ip = i

\* Another timer keeps those that run and gives its address one.
LEMMA LaterKeeps ==
    ASSUME TypeOK, NEW i \in IPs, NEW n \in 0..RetryMax, Later(i, n)
    PROVE  /\ \E t \in Tasks : t.ip = i /\ timers'[t] > 0
           /\ \A t \in Tasks : timers[t] > 0 => timers'[t] > 0
<1>1. [ip |-> i, attempt |-> n] \in Tasks BY DEF Tasks
<1>2. timers' = [timers EXCEPT ![[ip |-> i, attempt |-> n]] = @ + 1] BY DEF Later
<1>3. timers \in [Tasks -> Nat] BY DEF TypeOK
<1> QED BY <1>1, <1>2, <1>3

\* Appending keeps every task and adds one.
LEMMA AppendKeeps ==
    ASSUME NEW t \in Tasks, queue \in Seq(Tasks), queue' = Append(queue, t), NEW i
    PROVE  /\ t.ip = i => \E n \in DOMAIN queue' : queue'[n].ip = i
           /\ (\E n \in DOMAIN queue : queue[n].ip = i) =>
                \E n \in DOMAIN queue' : queue'[n].ip = i
<1>1. Len(queue) + 1 \in DOMAIN queue' /\ queue'[Len(queue) + 1] = t
  OBVIOUS
<1>2. \A n \in DOMAIN queue : n \in DOMAIN queue' /\ queue'[n] = queue[n]
  OBVIOUS
<1> QED BY <1>1, <1>2

LEMMA TailKeeps ==
    ASSUME NEW q \in Seq(Tasks), NEW n \in DOMAIN q, q[n] # Head(q)
    PROVE  n - 1 \in DOMAIN Tail(q) /\ Tail(q)[n - 1] = q[n]
<1>1. q # <<>> /\ n # 1 /\ n \in 1..Len(q)
  OBVIOUS
<1> QED BY <1>1

LEMMA PendingStep ==
    TypeOK /\ AtWork /\ PendingHasTask /\ [Next]_vars => PendingHasTask'
<1> SUFFICES ASSUME TypeOK, AtWork, PendingHasTask, [Next]_vars, NEW i \in IPs,
                    i \in pending'
             PROVE  HasTask(i)'
  BY TypeStep DEF PendingHasTask, HasTask, TypeOK
<1> USE GeoIPAssumption
<1>0. /\ caller \in [Callers -> Positions] /\ Worker \in Callers /\ Worker \notin Lookers
      /\ Lookers \subseteq Callers /\ queue \in Seq(Tasks) /\ timers \in [Tasks -> Nat]
      /\ i \in pending => HasTask(i)
  BY DEF TypeOK, Callers, PendingHasTask, HasTask
<1>1. ASSUME NEW l \in Lookers, NEW j \in IPs, StartLookup(l, j) PROVE HasTask(i)'
  BY <1>0, <1>1 DEF StartLookup, tasks, HasTask
<1>2. ASSUME NEW l \in Lookers, LookerStep(l) PROVE HasTask(i)'
  <2>1. caller'[Worker] = caller[Worker]
    BY <1>0, <1>2 DEF LookerStep, LookupCache, TakeReader, ReadBase, Reserve, Reserved,
       LookupCall, LookupEnqueue, LookupSave, Goto, Leave
  <2>2. CASE LookupEnqueue(l)
    <3> DEFINE j == caller[l].ip
    <3>1. j \in IPs BY <1>0, <2>2 DEF AtWork, LookupEnqueue
    <3>2. CASE UNCHANGED tasks BY <1>0, <2>1, <3>2 DEF tasks, HasTask
    <3>3. CASE /\ queue' = Append(queue, [ip |-> j, attempt |-> 0])
               /\ pending' = pending \cup {j} /\ UNCHANGED timers
      <4>1. [ip |-> j, attempt |-> 0] \in Tasks BY <3>1, NewTask
      <4>2. i = j \/ i \in pending BY <3>3
      <4>3. CASE i = j
        <5>1. [ip |-> j, attempt |-> 0].ip = i BY <4>3
        <5>2. \E n \in DOMAIN queue' : queue'[n].ip = i
          BY <1>0, <3>3, <4>1, <5>1, AppendKeeps
        <5> QED BY <5>2 DEF HasTask
      <4>4. CASE i \in pending
        <5>1. (\E n \in DOMAIN queue : queue[n].ip = i) =>
                 \E n \in DOMAIN queue' : queue'[n].ip = i
          BY <1>0, <3>3, <4>1, AppendKeeps
        <5> QED BY <1>0, <2>1, <3>3, <4>4, <5>1 DEF HasTask
      <4> QED BY <4>2, <4>3, <4>4
    <3> QED BY <2>2, <3>2, <3>3 DEF LookupEnqueue, Enqueue
  <2>3. CASE ~ LookupEnqueue(l)
    <3>1. UNCHANGED <<queue, timers>> /\ pending' \subseteq pending
      BY <1>2, <2>3 DEF LookerStep, LookupCache, TakeReader, ReadBase, Reserve,
         LookupCall, LookupSave, Finish, tasks
    <3> QED BY <1>0, <2>1, <3>1 DEF HasTask
  <2> QED BY <2>2, <2>3
<1>3. ASSUME WorkerStep PROVE HasTask(i)'
  <2>1. CASE TakeTask
    <3>1. i \in pending /\ caller[Worker].ip # i
      BY <1>0, <2>1 DEF TakeTask, AtWork
    <3>2. queue' = Tail(queue) /\ UNCHANGED timers /\ caller'[Worker].ip = Head(queue).ip
      BY <1>0, <2>1 DEF TakeTask, Idle
    <3>3. CASE Head(queue).ip = i BY <3>2, <3>3 DEF HasTask
    <3>4. ASSUME Head(queue).ip # i, NEW n \in DOMAIN queue, queue[n].ip = i
          PROVE  HasTask(i)'
      <4>1. n - 1 \in DOMAIN queue' /\ queue'[n - 1].ip = i
        BY <1>0, <3>2, <3>4, TailKeeps
      <4> QED BY <4>1 DEF HasTask
    <3> QED BY <1>0, <3>1, <3>2, <3>3, <3>4 DEF HasTask
  <2>2. CASE WorkerCache
    BY <1>0, <2>2 DEF WorkerCache, Finish, Leave, Goto, HasTask, Positions
  <2>3. CASE WorkerReserve
    <3> DEFINE w == caller[Worker]
    <3>1. w.ip \in IPs /\ w.attempt \in 0..RetryMax
      BY <1>0, <2>3 DEF AtWork, WorkerReserve, Positions
    <3>2. CASE Later(w.ip, w.attempt)
      BY <1>0, <2>3, <3>1, <3>2, LaterKeeps DEF WorkerReserve, HasTask
    <3>3. CASE UNCHANGED timers /\ Reserved(Worker)
      BY <1>0, <2>3, <3>3 DEF WorkerReserve, Reserved, Goto, HasTask, Positions
    <3> QED BY <2>3, <3>2, <3>3 DEF WorkerReserve
  <2>4. ASSUME NEW o \in Answers, WorkerCall(o) PROVE HasTask(i)'
    <3> DEFINE w == caller[Worker]
    <3>1. w.ip \in IPs /\ w.attempt \in 0..RetryMax
      BY <1>0, <2>4 DEF AtWork, WorkerCall, Positions
    <3>2. CASE Later(w.ip, NextAttempt(w.attempt)) /\ w.attempt < RetryMax
               /\ UNCHANGED pending
      <4>1. NextAttempt(w.attempt) \in 0..RetryMax BY <3>1, <3>2 DEF NextAttempt
      <4> QED BY <1>0, <2>4, <3>1, <3>2, <4>1, LaterKeeps DEF WorkerCall, HasTask
    <3>3. CASE Finish(Worker, w.ip, TRUE) /\ UNCHANGED timers
      BY <1>0, <2>4, <3>3 DEF WorkerCall, Finish, HasTask
    <3>4. CASE /\ UNCHANGED <<timers, pending>>
               /\ caller' = [caller EXCEPT
                    ![Worker].pc = IF w.loc = "none" THEN "reader" ELSE "save",
                    ![Worker].loc = Merged(o)]
      <4>1. caller'[Worker].ip = w.ip BY <1>0, <3>4 DEF Positions
      <4> QED BY <1>0, <2>4, <3>4, <4>1 DEF WorkerCall, HasTask
    <3> QED BY <2>4, <3>2, <3>3, <3>4 DEF WorkerCall
  <2>5. CASE TakeReader(Worker)
    BY <1>0, <2>5 DEF TakeReader, HasTask, Positions, tasks
  <2>6. CASE WorkerBase
    BY <1>0, <2>6 DEF WorkerBase, HasTask, Positions, tasks
  <2>7. CASE WorkerSave
    BY <1>0, <2>7 DEF WorkerSave, Finish, HasTask
  <2> QED BY <1>3, <2>1, <2>2, <2>3, <2>4, <2>5, <2>6, <2>7 DEF WorkerStep
<1>4. ASSUME NEW t \in Tasks, FireTimer(t) PROVE HasTask(i)'
  <2>1. UNCHANGED caller /\ i \in pending BY <1>4 DEF FireTimer
  <2>2. \A s \in Tasks : s # t => timers'[s] = timers[s]
    BY <1>0, <1>4 DEF FireTimer
  <2>3. CASE t.ip # i /\ (UNCHANGED queue \/ queue' = Append(queue, t))
    <3>1. (\E n \in DOMAIN queue : queue[n].ip = i) =>
             \E n \in DOMAIN queue' : queue'[n].ip = i
      BY <1>0, <2>3, AppendKeeps
    <3> QED BY <1>0, <2>1, <2>2, <2>3, <3>1 DEF HasTask
  <2>4. CASE t.ip = i /\ queue' = Append(queue, t)
    BY <1>0, <2>4, AppendKeeps DEF HasTask
  <2> QED BY <1>4, <2>1, <2>3, <2>4 DEF FireTimer
<1>5. ASSUME UNCHANGED <<queue, timers, pending, caller>> PROVE HasTask(i)'
  BY <1>0, <1>5 DEF HasTask
<1> QED
  BY <1>1, <1>2, <1>3, <1>4, <1>5 DEF Next, SpacingEnds, PauseEnds, Expire, SwapReader,
     CloseReader, Cancel, tasks, vars
-----------------------------------------------------------------------------
(* Incomplete entries *)

\* What PoorIsExplained asks for one address, and PoorSaved for one goroutine.
Explained(i) ==
    \/ cache[i] # "poor" \/ Settled(i)
    \/ \E l \in Lookers : caller[l].ip = i /\ caller[l].pc \in {"enqueue", "save"}

SavesSettled(l) ==
    caller[l].pc = "save" /\ caller[l].loc = "poor" => Settled(caller[l].ip)

PoorOK == (\A i \in IPs : Explained(i)) /\ (\A l \in Lookers : SavesSettled(l))

LEMMA PoorParts == (PoorIsExplained /\ PoorSaved) <=> PoorOK
BY DEF PoorIsExplained, PoorSaved, PoorOK, Explained, SavesSettled, Settled

\* Nothing brings a provider back that was given up.
LEMMA OffStays ==
    ASSUME NEW o, provider' = ProviderAfter(o)
    PROVE  provider = "off" => provider' = "off"
BY DEF ProviderAfter

\* Ending the task of i leaves the other addresses alone; i itself stays settled
\* when its answer was lost or is about to be overwritten.
LEMMA FinishSettles ==
    ASSUME NEW c, NEW i, NEW losing, Finish(c, i, losing), UNCHANGED up,
           provider = "off" => provider' = "off"
    PROVE  /\ \A j : j # i /\ Settled(j) => Settled(j)'
           /\ losing \/ Overtaken(c, i) => Settled(i)'
BY DEF Finish, Settled

LEMMA EnqueueSettles ==
    ASSUME NEW i, Enqueue(i), UNCHANGED <<provider, up>>
    PROVE  Settled(i)' /\ \A j : Settled(j) => Settled(j)'
BY DEF Enqueue, Settled, tasks

\* A step that leaves the goroutines of lookups and the cache alone.
LEMMA QuietPoor ==
    ASSUME PoorOK,
           \A i \in IPs : cache'[i] = "poor" => cache[i] = "poor",
           \A l \in Lookers : caller'[l] = caller[l],
           \A j : Settled(j) => Settled(j)'
    PROVE  PoorOK'
BY DEF PoorOK, Explained, SavesSettled

\* The worker ends the task of i: the entry is complete by now or was lost.
LEMMA WorkerFinishes ==
    ASSUME PoorOK, Worker \notin Lookers, NEW i, NEW losing, Finish(Worker, i, losing),
           UNCHANGED up, provider = "off" => provider' = "off",
           \A l \in Lookers : caller'[l] = caller[l],
           \A j \in IPs : j # i => cache'[j] = cache[j],
           losing \/ cache'[i] # "poor"
    PROVE  PoorOK'
<1>1. /\ \A j : j # i /\ Settled(j) => Settled(j)'
      /\ losing \/ Overtaken(Worker, i) => Settled(i)'
  BY FinishSettles
<1>2. ASSUME NEW j \in IPs PROVE Explained(j)'
  BY <1>1 DEF PoorOK, Explained
<1>3. ASSUME NEW l \in Lookers PROVE SavesSettled(l)'
  BY <1>1 DEF PoorOK, SavesSettled, Overtaken
<1> QED BY <1>2, <1>3 DEF PoorOK

\* A lookup moves to a position where it neither queues nor stores: nothing that
\* was explained by another goroutine is lost.
LEMMA LookerMoves ==
    ASSUME PoorOK, NEW l \in Lookers, caller[l].pc \notin {"enqueue", "save"},
           caller'[l].pc = "save" => caller'[l].loc # "poor",
           \A d \in Lookers \ {l} : caller'[d] = caller[d],
           UNCHANGED <<cache, provider, up, pending, lost>>
    PROVE  PoorOK'
<1>1. \A j : Settled(j) <=> Settled(j)' BY DEF Settled
<1>2. ASSUME NEW j \in IPs PROVE Explained(j)' BY <1>1 DEF PoorOK, Explained
<1>3. ASSUME NEW d \in Lookers PROVE SavesSettled(d)' BY <1>1 DEF PoorOK, SavesSettled
<1> QED BY <1>2, <1>3 DEF PoorOK

LEMMA LookerPoor ==
    ASSUME TypeOK, AtWork, PoorOK, NEW l \in Lookers, LookerStep(l)
    PROVE  PoorOK'
<1> SUFFICES ASSUME NEW i, i = caller[l].ip PROVE PoorOK'
  OBVIOUS
<1>0. /\ caller \in [Callers -> Positions] /\ l \in Callers /\ Lookers \subseteq Callers
      /\ cache \in [IPs -> Levels \cup {"none"}]
  BY DEF TypeOK, Callers
<1>1. \A d \in Lookers \ {l} : caller'[d] = caller[d]
  BY <1>0 DEF LookerStep, LookupCache, TakeReader, ReadBase, Reserve, Reserved,
     LookupCall, LookupEnqueue, LookupSave, Goto, Leave
<1>2. CASE LookupCache(l)
  <2>1. caller'[l].pc # "save"
    <3>1. CASE Leave(l) BY <1>0, <3>1 DEF Leave, Idle
    <3>2. CASE Goto(l, "reader") BY <1>0, <3>2 DEF Goto, Positions
    <3>3. CASE caller' = [caller EXCEPT ![l].pc = "enqueue", ![l].loc = "none"]
      BY <1>0, <3>3 DEF Positions
    <3> QED BY <1>2, <3>1, <3>2, <3>3 DEF LookupCache
  <2> QED BY <1>1, <1>2, <2>1, LookerMoves DEF LookupCache, tasks, service
<1>3. CASE TakeReader(l)
  <2>1. caller'[l].pc # "save" BY <1>0, <1>3 DEF TakeReader, Positions
  <2> QED BY <1>1, <1>3, <2>1, LookerMoves DEF TakeReader, tasks, service
<1>4. CASE ReadBase(l)
  <2>1. caller'[l].pc = "save" => caller'[l].loc # "poor"
    BY <1>0, <1>4 DEF ReadBase, Positions
  <2> QED BY <1>1, <1>4, <2>1, LookerMoves DEF ReadBase, tasks, service
<1>5. CASE Reserve(l)
  <2>1. caller'[l].pc # "save"
    BY <1>0, <1>5, GotoAtWork DEF Reserve, Reserved, Pcs
  <2> QED BY <1>1, <1>5, <2>1, LookerMoves DEF Reserve, tasks
<1>6. ASSUME NEW o \in Answers, LookupCall(l, o) PROVE PoorOK'
  <2>1. provider = "off" => provider' = "off" BY <1>6, OffStays DEF LookupCall
  <2>2. CASE o \in Levels
    <3>1. /\ caller'[l].ip = i /\ caller'[l].pc = "save" /\ caller'[l].loc = Merged(o)
          /\ Finish(l, i, Thin(o))
      BY <1>0, <1>6, <2>2 DEF LookupCall, Positions, Levels, Failures
    <3>2. /\ \A j : j # i /\ Settled(j) => Settled(j)'
          /\ Thin(o) \/ Overtaken(l, i) => Settled(i)'
      BY <1>6, <2>1, <3>1, FinishSettles DEF LookupCall
    <3>3. ASSUME NEW j \in IPs PROVE Explained(j)'
      BY <1>1, <1>6, <3>1, <3>2 DEF PoorOK, Explained, LookupCall
    <3>4. ASSUME NEW d \in Lookers PROVE SavesSettled(d)'
      <4>1. CASE d = l
        BY <2>2, <3>1, <3>2, <4>1 DEF SavesSettled, Merged, Thin, Levels
      <4>2. CASE d # l
        <5>1. caller'[d] = caller[d] /\ SavesSettled(d) BY <1>1, <4>2 DEF PoorOK
        <5>2. caller[d].pc = "save" /\ caller[d].loc = "poor" /\ caller[d].ip = i
                => Overtaken(l, i)
          BY <4>2 DEF Overtaken
        <5> QED BY <3>2, <5>1, <5>2 DEF SavesSettled
      <4> QED BY <4>1, <4>2
    <3> QED BY <3>3, <3>4 DEF PoorOK
  <2>3. CASE o \in Failures
    <3>1. Goto(l, "enqueue") /\ UNCHANGED <<pending, lost, cache, up>>
      BY <1>6, <2>3 DEF LookupCall, Levels, Failures
    <3>2. caller'[l].ip = i /\ caller'[l].pc = "enqueue"
      BY <1>0, <3>1, GotoAtWork DEF Pcs
    <3>3. \A j : Settled(j) => Settled(j)' BY <2>1, <3>1 DEF Settled
    <3>4. ASSUME NEW j \in IPs PROVE Explained(j)'
      BY <1>1, <3>1, <3>2, <3>3 DEF PoorOK, Explained
    <3>5. ASSUME NEW d \in Lookers PROVE SavesSettled(d)'
      BY <1>1, <3>2, <3>3 DEF PoorOK, SavesSettled
    <3> QED BY <3>4, <3>5 DEF PoorOK
  <2> QED BY <2>2, <2>3 DEF Answers
<1>7. CASE LookupEnqueue(l)
  <2>1. Settled(i)' /\ \A j : Settled(j) => Settled(j)'
    BY <1>7, EnqueueSettles DEF LookupEnqueue, service
  <2>2. caller'[l].pc = "save" => caller'[l].ip = i
    BY <1>0, <1>7, GotoAtWork, LeaveAtWork DEF LookupEnqueue, Pcs, Idle
  <2>3. ASSUME NEW j \in IPs PROVE Explained(j)'
    BY <1>1, <1>7, <2>1 DEF PoorOK, Explained, LookupEnqueue
  <2>4. ASSUME NEW d \in Lookers PROVE SavesSettled(d)'
    BY <1>1, <2>1, <2>2 DEF PoorOK, SavesSettled
  <2> QED BY <2>3, <2>4 DEF PoorOK
<1>8. CASE LookupSave(l)
  <2>1. i \in IPs /\ caller'[l].pc = "idle"
    BY <1>0, <1>8, LeaveAtWork DEF LookupSave, AtWork, Idle
  <2>2. \A j : Settled(j) => Settled(j)'
    BY <1>8 DEF LookupSave, Settled, tasks, service
  <2>3. cache'[i] = "poor" => Settled(i)'
    <3>1. CASE cache' = [cache EXCEPT ![i] = caller[l].loc]
      BY <1>0, <1>8, <2>1, <2>2, <3>1 DEF LookupSave, PoorOK, SavesSettled
    <3>2. CASE lost' = lost \cup {i} BY <3>2 DEF Settled
    <3> QED BY <1>8, <3>1, <3>2 DEF LookupSave
  <2>4. \A j \in IPs : j # i => cache'[j] = cache[j]
    BY <1>0, <1>8, <2>1 DEF LookupSave
  <2>5. ASSUME NEW j \in IPs PROVE Explained(j)'
    BY <1>1, <2>2, <2>3, <2>4 DEF PoorOK, Explained
  <2>6. ASSUME NEW d \in Lookers PROVE SavesSettled(d)'
    BY <1>1, <2>1, <2>2 DEF PoorOK, SavesSettled
  <2> QED BY <2>5, <2>6 DEF PoorOK
<1> QED BY <1>2, <1>3, <1>4, <1>5, <1>6, <1>7, <1>8 DEF LookerStep

LEMMA WorkerPoor ==
    ASSUME TypeOK, AtWork, PoorOK, WorkerStep
    PROVE  PoorOK'
<1> DEFINE w == caller[Worker]
<1>0. /\ caller \in [Callers -> Positions] /\ Worker \in Callers /\ Lookers \subseteq Callers
      /\ Worker \notin Lookers /\ cache \in [IPs -> Levels \cup {"none"}]
  BY GeoIPAssumption DEF TypeOK, Callers
<1>1. \A d \in Lookers : caller'[d] = caller[d]
  BY <1>0 DEF WorkerStep, TakeTask, WorkerCache, WorkerReserve, Reserved, WorkerCall,
     TakeReader, WorkerBase, WorkerSave, Goto, Leave
<1>2. ASSUME UNCHANGED <<cache, pending, lost, up>>, provider = "off" => provider' = "off"
      PROVE  PoorOK'
  <2>1. \A j : Settled(j) => Settled(j)' BY <1>2 DEF Settled
  <2> QED BY <1>1, <1>2, <2>1, QuietPoor
<1>3. CASE TakeTask BY <1>2, <1>3 DEF TakeTask, service
<1>4. CASE WorkerCache
  <2>1. CASE cache[w.ip] = "rich" /\ Finish(Worker, w.ip, FALSE)
    BY <1>0, <1>1, <1>4, <2>1, WorkerFinishes DEF WorkerCache, service
  <2>2. CASE UNCHANGED <<pending, lost>>
    BY <1>2, <1>4, <2>2 DEF WorkerCache, service
  <2> QED BY <1>4, <2>1, <2>2 DEF WorkerCache
<1>5. CASE WorkerReserve BY <1>2, <1>5 DEF WorkerReserve
<1>6. ASSUME NEW o \in Answers, WorkerCall(o) PROVE PoorOK'
  <2>1. provider = "off" => provider' = "off" BY <1>6, OffStays DEF WorkerCall
  <2>2. CASE UNCHANGED <<pending, lost>> BY <1>2, <1>6, <2>1, <2>2 DEF WorkerCall
  <2>3. CASE Finish(Worker, w.ip, TRUE)
    BY <1>0, <1>1, <1>6, <2>1, <2>3, WorkerFinishes DEF WorkerCall
  <2> QED BY <1>6, <2>2, <2>3 DEF WorkerCall
<1>7. CASE TakeReader(Worker) BY <1>2, <1>7 DEF TakeReader, tasks, service
<1>8. CASE WorkerBase BY <1>2, <1>8 DEF WorkerBase, tasks, service
<1>9. CASE WorkerSave
  <2>1. w.ip \in IPs BY <1>0, <1>9 DEF AtWork, WorkerSave
  <2>2. CASE cache' = [cache EXCEPT ![w.ip] = w.loc] /\ Finish(Worker, w.ip, w.loc = "poor")
    <3>1. \A j \in IPs : j # w.ip => cache'[j] = cache[j] BY <1>0, <2>2
    <3>2. w.loc = "poor" \/ cache'[w.ip] # "poor" BY <1>0, <2>1, <2>2
    <3> QED BY <1>0, <1>1, <1>9, <2>2, <3>1, <3>2, WorkerFinishes DEF WorkerSave, service
  <2>3. CASE UNCHANGED cache /\ Finish(Worker, w.ip, TRUE)
    BY <1>0, <1>1, <1>9, <2>3, WorkerFinishes DEF WorkerSave, service
  <2> QED BY <1>9, <2>2, <2>3 DEF WorkerSave
<1> QED BY <1>3, <1>4, <1>5, <1>6, <1>7, <1>8, <1>9 DEF WorkerStep

LEMMA EnvironmentPoor ==
    ASSUME TypeOK, PoorOK, Environment
    PROVE  PoorOK'
<1>1. UNCHANGED caller
  BY DEF Environment, FireTimer, SpacingEnds, PauseEnds, Expire, SwapReader, CloseReader,
     Cancel
<1>2. \A i \in IPs : cache'[i] = "poor" => cache[i] = "poor"
  BY DEF Environment, FireTimer, SpacingEnds, PauseEnds, Expire, SwapReader, CloseReader,
     Cancel, TypeOK
<1>3. \A j : Settled(j) => Settled(j)'
  BY DEF Environment, FireTimer, SpacingEnds, PauseEnds, Expire, SwapReader, CloseReader,
     Cancel, Settled, tasks, service
<1> QED BY <1>1, <1>2, <1>3, QuietPoor

LEMMA PoorStep == TypeOK /\ AtWork /\ PoorOK /\ [Next]_vars => PoorOK'
<1> SUFFICES ASSUME TypeOK, AtWork, PoorOK, [Next]_vars PROVE PoorOK'
  OBVIOUS
<1>1. ASSUME NEW l \in Lookers, NEW i \in IPs, StartLookup(l, i) PROVE PoorOK'
  <2>1. /\ \A d \in Lookers \ {l} : caller'[d] = caller[d]
        /\ caller[l].pc = "idle" /\ caller'[l].pc = "cache"
    BY <1>1 DEF StartLookup, TypeOK, Callers, Idle
  <2> QED BY <1>1, <2>1, LookerMoves DEF StartLookup, tasks, service
<1>2. CASE UNCHANGED vars
  <2>1. \A j : Settled(j) => Settled(j)' BY <1>2 DEF vars, Settled
  <2> QED BY <1>2, <2>1, QuietPoor DEF vars
<1> QED BY <1>1, <1>2, LookerPoor, WorkerPoor, EnvironmentPoor DEF Next, Environment
-----------------------------------------------------------------------------
(* The specification *)

LEMMA InitInv == Init => IInv
<1> SUFFICES ASSUME Init PROVE IInv
  OBVIOUS
<1>1. AtWork /\ PendingHasTask /\ PoorIsExplained /\ PoorSaved
  BY GeoIPAssumption DEF Init, AtWork, PendingHasTask, PoorIsExplained, PoorSaved, Idle,
     Callers
<1> QED BY <1>1, TypeInit DEF IInv

LEMMA StepInv == IInv /\ [Next]_vars => IInv'
<1>1. PoorIsExplained' /\ PoorSaved' <=> PoorOK'
  BY DEF PoorIsExplained, PoorSaved, PoorOK, Explained, SavesSettled, Settled
<1> QED
  BY <1>1, PoorParts, TypeStep, AtWorkStep, PendingStep, PoorStep DEF IInv

\* Every reachable state satisfies the inductive invariant.
THEOREM Invariance == Spec => []IInv
BY InitInv, StepInv, PTL DEF Spec

\* Queue, timers, cache and goroutines keep their types: the fallback queue never
\* exceeds its capacity and no task is retried more than RetryMax times.
THEOREM TypeCorrect == Spec => []TypeOK
BY Invariance, PTL DEF IInv

\* An address is pending only while a task for it is queued, waits for its timer
\* or is in the hands of the worker.
THEOREM PendingIsServed == Spec => []PendingHasTask
BY Invariance, PTL DEF IInv

\* An incomplete cache entry is on its way to enrichment, or a named loss explains
\* why it is not, whatever the interleaving of lookups, worker and timers.
THEOREM PoorExplained == Spec => []PoorIsExplained
BY Invariance, PTL DEF IInv
=============================================================================
