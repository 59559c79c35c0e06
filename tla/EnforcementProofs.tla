-------------------------- MODULE EnforcementProofs --------------------------
(***************************************************************************)
(* Proofs about Enforcement, for any sets of users and workers, any        *)
(* durations and any number of faults and restarts.                        *)
(***************************************************************************)
EXTENDS Enforcement, TLAPS

Harmless(u) == Clean(u, {"lost", "expired", "overlap"})

\* What the program counters say about the other local variables.
WorkerLocals ==
    \A w \in Workers :
        worker[w].pc # "idle" => worker[w].user \in Users /\ worker[w].until # NoTime

SchedLocals ==
    /\ sched.pc = "idle" => sched.todo = {}
    /\ sched.pc \in {"idle", "next"} <=> sched.user = NoUser
    /\ sched.pc \in {"save", "queue"} => sched.until # NoTime

\* A disabled user nobody is scheduling has a record, and is queued or popped.
Scheduled(u) ==
    Disabled(u) /\ ~ Scheduling(u) =>
        record[u] # NoTime /\ (zset[u] # NoTime \/ Popped(u))

\* Between the scheduler's read of a due record and its DEL no worker schedules.
EnableAlone(u) ==
    sched.user = u =>
        /\ sched.pc \in {"enable", "clear"} => ~ Scheduling(u)
        /\ sched.pc = "clear" => ~ Disabled(u)

\* A worker about to ZADD finds the record it wrote, or a later one.
RecordBeforeQueue(u) == WorkerAt(u, {"queue"}) => record[u] # NoTime

UserInv(u) ==
    Harmless(u) => Scheduled(u) /\ EnableAlone(u) /\ RecordBeforeQueue(u)

IInv ==
    /\ TypeOK
    /\ WorkerLocals
    /\ SchedLocals
    /\ \A u \in Users : UserInv(u)
-----------------------------------------------------------------------------
\* Writes through a remote call and notes keep the shape of what they change.
LEMMA NotedType ==
    ASSUME TypeOK, NEW S, NEW kinds \in SUBSET Mishaps
    PROVE  Noted(S, kinds) \in [Users -> SUBSET Mishaps]
  BY DEF TypeOK, Noted

LEMMA CallType ==
    ASSUME TypeOK, NEW o \in Outcomes, Call(o)
    PROVE  faults' \in 0..MaxFaults
  BY EnforcementAssumption DEF TypeOK, Call, Outcomes

LEMMA WorkerCallType ==
    ASSUME TypeOK, NEW o \in Outcomes, NEW w \in Workers, WorkerCall(w, o)
    PROVE  faults' \in 0..MaxFaults
  BY CallType DEF WorkerCall, TypeOK

\* Every step of a worker, of the scheduler and of the environment keeps the
\* variables in their types.
LEMMA TypeStep == TypeOK /\ [Next]_vars => TypeOK'
  <1> SUFFICES ASSUME TypeOK, [Next]_vars PROVE TypeOK'
    OBVIOUS
  <1> USE EnforcementAssumption
  <1>1. ASSUME NEW w \in Workers, NEW u \in Users, StartDisable(w, u)
        PROVE  TypeOK'
    BY <1>1 DEF TypeOK, StartDisable, BlockUntil, stores, history, WorkerPc
  <1>2. ASSUME NEW w \in Workers, NEW o \in Outcomes, CheckRecord(w, o)
        PROVE  TypeOK'
    <2> DEFINE u == worker[w].user
    <2>1. mishap' \in [Users -> SUBSET Mishaps]
      BY <1>2, NotedType DEF TypeOK, CheckRecord, When, Mishaps
    <2>2. worker' \in [Workers -> [pc : WorkerPc, user : Users \cup {NoUser}, until : Nat]]
      BY <1>2 DEF TypeOK, CheckRecord, IdleWorker, NoTime, WorkerPc
    <2> QED
      BY <1>2, <2>1, <2>2, WorkerCallType DEF TypeOK, CheckRecord, stores
  <1>3. ASSUME NEW w \in Workers, NEW o \in Outcomes, DisableUser(w, o)
        PROVE  TypeOK'
    <2>1. mishap' \in [Users -> SUBSET Mishaps]
      BY <1>3, NotedType DEF TypeOK, DisableUser, Promise, When, Mishaps
    <2>2. worker' \in [Workers -> [pc : WorkerPc, user : Users \cup {NoUser}, until : Nat]]
      BY <1>3 DEF TypeOK, DisableUser, Promise, IdleWorker, NoTime, WorkerPc
    <2>3. panel' \in [Users -> Status] /\ promised' \in [Users -> Nat]
      BY <1>3 DEF TypeOK, DisableUser, Promise, Write, Status
    <2> QED
      BY <1>3, <2>1, <2>2, <2>3, WorkerCallType DEF TypeOK, DisableUser, Promise
  <1>4. ASSUME NEW w \in Workers, NEW o \in Outcomes, SaveRecord(w, o)
        PROVE  TypeOK'
    <2>1. mishap' \in [Users -> SUBSET Mishaps]
      BY <1>4, NotedType DEF TypeOK, SaveRecord, When, Mishaps
    <2>2. worker' \in [Workers -> [pc : WorkerPc, user : Users \cup {NoUser}, until : Nat]]
      BY <1>4 DEF TypeOK, SaveRecord, IdleWorker, NoTime, WorkerPc
    <2>3. record' \in [Users -> Nat]
      BY <1>4 DEF TypeOK, SaveRecord, Write
    <2> QED
      BY <1>4, <2>1, <2>2, <2>3, WorkerCallType DEF TypeOK, SaveRecord
  <1>5. ASSUME NEW w \in Workers, NEW o \in Outcomes, QueueReenable(w, o)
        PROVE  TypeOK'
    <2>1. mishap' \in [Users -> SUBSET Mishaps]
      BY <1>5, NotedType DEF TypeOK, QueueReenable, When, Mishaps
    <2>2. worker' \in [Workers -> [pc : WorkerPc, user : Users \cup {NoUser}, until : Nat]]
      BY <1>5 DEF TypeOK, QueueReenable, IdleWorker, NoTime, WorkerPc
    <2>3. zset' \in [Users -> Nat]
      BY <1>5 DEF TypeOK, QueueReenable, Write
    <2> QED
      BY <1>5, <2>1, <2>2, <2>3, WorkerCallType DEF TypeOK, QueueReenable
  <1>6. ASSUME NEW o \in Outcomes, PopDue(o)
        PROVE  TypeOK'
    <2> PICK ids \in Batches :
          /\ zset' = IF TakesEffect(o)
                     THEN [u \in Users |-> IF u \in ids THEN NoTime ELSE zset[u]]
                     ELSE zset
          /\ sched' = IF Succeeds(o)
                      THEN [pc |-> "next", now |-> clock, todo |-> ids,
                            user |-> NoUser, until |-> NoTime]
                      ELSE sched
          /\ mishap' = Noted(ids, When(o = "lost", "lost"))
      BY <1>6 DEF PopDue
    <2>1. mishap' \in [Users -> SUBSET Mishaps]
      BY NotedType DEF When, Mishaps
    <2>2. ids \in SUBSET Users
      BY DEF Batches, Due
    <2>3. zset' \in [Users -> Nat]
      BY DEF TypeOK, NoTime
    <2>4. sched' \in [pc : SchedPc, now : Nat, todo : SUBSET Users,
                      user : Users \cup {NoUser}, until : Nat]
      BY <2>2 DEF TypeOK, NoTime, SchedPc
    <2> QED
      BY <1>6, <2>1, <2>3, <2>4, CallType DEF TypeOK, PopDue
  <1>7. ASSUME NEW u \in Users, NEW o \in Outcomes, ReadRecord(u, o)
        PROVE  TypeOK'
    <2>1. mishap' \in [Users -> SUBSET Mishaps]
      BY <1>7, NotedType DEF TypeOK, ReadRecord, When, Mishaps
    <2>2. sched' \in [pc : SchedPc, now : Nat, todo : SUBSET Users,
                      user : Users \cup {NoUser}, until : Nat]
      <3>1. /\ NextOf(sched.todo \ {u}) \in [pc : SchedPc, now : Nat, todo : SUBSET Users,
                                           user : Users \cup {NoUser}, until : Nat]
            /\ \A p \in SchedPc :
                 [sched EXCEPT !.todo = sched.todo \ {u}, !.user = u,
                               !.until = record[u], !.pc = p]
                   \in [pc : SchedPc, now : Nat, todo : SUBSET Users,
                       user : Users \cup {NoUser}, until : Nat]
        BY DEF TypeOK, NextOf, IdleSched, NoTime, SchedPc
      <3>2. \/ sched' = NextOf(sched.todo \ {u})
            \/ \E p \in SchedPc :
                 sched' = [sched EXCEPT !.todo = sched.todo \ {u}, !.user = u,
                                        !.until = record[u], !.pc = p]
        BY <1>7 DEF TypeOK, ReadRecord, SchedPc
      <3> QED
        BY <3>1, <3>2
    <2> QED
      BY <1>7, <2>1, <2>2, CallType DEF TypeOK, ReadRecord, stores
  <1>8. ASSUME NEW o \in Outcomes, EnableUser(o)
        PROVE  TypeOK'
    <2>1. mishap' \in [Users -> SUBSET Mishaps]
      BY <1>8, NotedType DEF TypeOK, EnableUser, When, Mishaps
    <2>2. sched' \in [pc : SchedPc, now : Nat, todo : SUBSET Users,
                      user : Users \cup {NoUser}, until : Nat]
      <3>1. CASE Succeeds(o)
        BY <1>8, <3>1 DEF TypeOK, EnableUser, SchedPc
      <3>2. CASE ~ Succeeds(o)
        <4> PICK b \in Backoffs : sched' = [sched EXCEPT !.pc = "save", !.until = clock + b]
          BY <1>8, <3>2 DEF EnableUser
        <4>1. clock + b \in Nat
          BY DEF TypeOK
        <4> QED
          BY <4>1 DEF TypeOK, SchedPc
      <3> QED
        BY <3>1, <3>2
    <2>3. panel' \in [Users -> Status]
      BY <1>8 DEF TypeOK, EnableUser, Write, Status
    <2> QED
      BY <1>8, <2>1, <2>2, <2>3, CallType DEF TypeOK, EnableUser
  <1>9. ASSUME NEW o \in Outcomes, ResaveRecord(o)
        PROVE  TypeOK'
    <2>1. mishap' \in [Users -> SUBSET Mishaps]
      BY <1>9, NotedType DEF TypeOK, ResaveRecord, When, Mishaps
    <2>2. sched' \in [pc : SchedPc, now : Nat, todo : SUBSET Users,
                      user : Users \cup {NoUser}, until : Nat]
      BY <1>9 DEF TypeOK, ResaveRecord, NextOf, IdleSched, NoTime, SchedPc
    <2>3. record' \in [Users -> Nat]
      BY <1>9 DEF TypeOK, ResaveRecord, Write
    <2> QED
      BY <1>9, <2>1, <2>2, <2>3, CallType DEF TypeOK, ResaveRecord
  <1>10. ASSUME NEW o \in Outcomes, RequeueReenable(o)
         PROVE  TypeOK'
    <2>1. mishap' \in [Users -> SUBSET Mishaps]
      BY <1>10, NotedType DEF TypeOK, RequeueReenable, When, Mishaps
    <2>2. sched' \in [pc : SchedPc, now : Nat, todo : SUBSET Users,
                      user : Users \cup {NoUser}, until : Nat]
      BY <1>10 DEF TypeOK, RequeueReenable, NextOf, IdleSched, NoTime, SchedPc
    <2>3. zset' \in [Users -> Nat]
      BY <1>10 DEF TypeOK, RequeueReenable, Write
    <2> QED
      BY <1>10, <2>1, <2>2, <2>3, CallType DEF TypeOK, RequeueReenable
  <1>11. ASSUME NEW o \in Outcomes, ClearRecord(o)
         PROVE  TypeOK'
    <2>1. sched' \in [pc : SchedPc, now : Nat, todo : SUBSET Users,
                      user : Users \cup {NoUser}, until : Nat]
      BY <1>11 DEF TypeOK, ClearRecord, NextOf, IdleSched, NoTime, SchedPc
    <2>2. record' \in [Users -> Nat]
      BY <1>11 DEF TypeOK, ClearRecord, Write, NoTime
    <2> QED
      BY <1>11, <2>1, <2>2, CallType DEF TypeOK, ClearRecord, history
  <1>12. CASE Tick
    BY <1>12 DEF TypeOK, Tick, stores, history
  <1>13. ASSUME NEW u \in Users, ExpireRecord(u)
         PROVE  TypeOK'
    BY <1>13, NotedType DEF TypeOK, ExpireRecord, NoTime, Mishaps
  <1>14. CASE Restart
    BY <1>14, NotedType DEF TypeOK, Restart, IdleWorker, IdleSched, NoTime,
       WorkerPc, SchedPc, Mishaps, stores
  <1>15. CASE UNCHANGED vars
    BY <1>15 DEF TypeOK, vars
  <1> QED
    BY <1>1, <1>2, <1>3, <1>4, <1>5, <1>6, <1>7, <1>8, <1>9, <1>10, <1>11,
       <1>12, <1>13, <1>14, <1>15 DEF Next, WorkerStep, SchedulerStep, Rest

\* TypeOK holds of every behaviour of the service.
THEOREM TypeCorrect == Spec => []TypeOK
  <1>1. Init => TypeOK
    BY EnforcementAssumption DEF Init, TypeOK, IdleWorker, IdleSched, NoTime,
       Status, WorkerPc, SchedPc
  <1> QED
    BY <1>1, TypeStep, PTL DEF Spec
-----------------------------------------------------------------------------
\* The program counters keep describing the locals of every actor.
LEMMA WorkerLocalsStep ==
    TypeOK /\ WorkerLocals /\ [Next]_vars => WorkerLocals'
  <1> SUFFICES ASSUME TypeOK, WorkerLocals, [Next]_vars PROVE WorkerLocals'
    OBVIOUS
  <1> USE EnforcementAssumption
  <1>1. ASSUME NEW w \in Workers, NEW u \in Users, StartDisable(w, u)
        PROVE  WorkerLocals'
    BY <1>1 DEF TypeOK, WorkerLocals, StartDisable, BlockUntil, NoTime
  <1>2. ASSUME NEW w \in Workers, WorkerStep(w)
        PROVE  WorkerLocals'
    <2>1. \/ worker' = [worker EXCEPT ![w] = IdleWorker]
          \/ \E p \in WorkerPc :
               worker[w].pc # "idle" /\ worker' = [worker EXCEPT ![w].pc = p]
      BY <1>2 DEF TypeOK, WorkerStep, CheckRecord, DisableUser, Promise, SaveRecord,
         QueueReenable, WorkerPc
    <2> QED
      BY <2>1 DEF TypeOK, WorkerLocals, IdleWorker
  <1>3. ASSUME UNCHANGED worker
        PROVE  WorkerLocals'
    BY <1>3 DEF WorkerLocals
  <1>4. CASE Restart
    BY <1>4 DEF WorkerLocals, Restart, IdleWorker
  <1> QED
    BY <1>1, <1>2, <1>3, <1>4 DEF Next, SchedulerStep, PopDue, ReadRecord, EnableUser,
       ResaveRecord, RequeueReenable, ClearRecord, Tick, ExpireRecord, Rest, vars

LEMMA SchedLocalsStep ==
    TypeOK /\ SchedLocals /\ [Next]_vars => SchedLocals'
  <1> SUFFICES ASSUME TypeOK, SchedLocals, [Next]_vars PROVE SchedLocals'
    OBVIOUS
  <1> USE EnforcementAssumption
  <1>1. ASSUME NEW todo, sched' = NextOf(todo)
        PROVE  SchedLocals'
    BY <1>1 DEF SchedLocals, NextOf, IdleSched
  <1>2. ASSUME NEW o \in Outcomes, PopDue(o)
        PROVE  SchedLocals'
    BY <1>2 DEF PopDue, SchedLocals
  <1>3. ASSUME NEW u \in Users, NEW o \in Outcomes, ReadRecord(u, o)
        PROVE  SchedLocals'
    <2>1. CASE sched' = NextOf(sched.todo \ {u})
      BY <1>1, <2>1
    <2>2. ASSUME NEW p \in {"save", "enable"}, p = "save" => record[u] > sched.now,
                 sched' = [sched EXCEPT !.todo = sched.todo \ {u}, !.user = u,
                                        !.until = record[u], !.pc = p]
          PROVE  SchedLocals'
      BY <2>2 DEF TypeOK, SchedLocals, NoTime
    <2> QED
      BY <1>3, <2>1, <2>2 DEF TypeOK, ReadRecord
  <1>4. ASSUME NEW o \in Outcomes, EnableUser(o)
        PROVE  SchedLocals'
    <2>1. CASE sched' = [sched EXCEPT !.pc = "clear"]
      BY <1>4, <2>1 DEF TypeOK, EnableUser, SchedLocals
    <2>2. ASSUME NEW b \in Backoffs,
                 sched' = [sched EXCEPT !.pc = "save", !.until = clock + b]
          PROVE  SchedLocals'
      <3>1. clock + b # NoTime
        <4>1. clock \in Nat \ {0} /\ b \in Nat
          BY DEF TypeOK
        <4> QED
          BY <4>1 DEF NoTime
      <3>2. /\ sched'.pc = "save" /\ sched'.user = sched.user
            /\ sched'.until = clock + b /\ sched'.todo = sched.todo
        BY <2>2 DEF TypeOK
      <3>3. sched.user # NoUser
        BY <1>4 DEF EnableUser, SchedLocals
      <3> QED
        BY <3>1, <3>2, <3>3 DEF SchedLocals
    <2> QED
      BY <1>4, <2>1, <2>2 DEF EnableUser
  <1>5. ASSUME NEW o \in Outcomes, ResaveRecord(o)
        PROVE  SchedLocals'
    BY <1>1, <1>5 DEF TypeOK, ResaveRecord, SchedLocals
  <1>6. ASSUME NEW o \in Outcomes, RequeueReenable(o) \/ ClearRecord(o)
        PROVE  SchedLocals'
    BY <1>1, <1>6 DEF RequeueReenable, ClearRecord
  <1>7. CASE Restart
    BY <1>7 DEF SchedLocals, Restart, IdleSched
  <1>8. ASSUME UNCHANGED sched
        PROVE  SchedLocals'
    BY <1>8 DEF SchedLocals
  <1> QED
    BY <1>2, <1>3, <1>4, <1>5, <1>6, <1>7, <1>8 DEF Next, WorkerStep, SchedulerStep,
       StartDisable, BlockUntil, CheckRecord, DisableUser, Promise, SaveRecord, QueueReenable, Tick,
       ExpireRecord, Rest, vars
-----------------------------------------------------------------------------
\* A user that is still harmless after a step was harmless before it, and the
\* step noted no harm for it.
LEMMA NotedHarmless ==
    ASSUME TypeOK, NEW S, NEW kinds, NEW u \in Users,
           mishap' = Noted(S, kinds), Harmless(u)'
    PROVE  /\ Harmless(u)
           /\ u \in S => kinds \cap {"lost", "expired", "overlap"} = {}
  BY DEF TypeOK, Noted, Harmless, Clean

\* The scheduler's next user is nobody, and it keeps the popped ones it has.
LEMMA NextOfFacts ==
    ASSUME NEW todo, NoUser \notin Users
    PROVE  /\ NextOf(todo).user = NoUser
           /\ NextOf(todo).todo = todo
  BY DEF NextOf, IdleSched

\* Steps of the workers keep the invariant of every user.
LEMMA WorkerKeepsUserInv ==
    ASSUME IInv, NEW w \in Workers, NEW o \in Outcomes, NEW u \in Users,
           \/ CheckRecord(w, o)
           \/ DisableUser(w, o)
           \/ SaveRecord(w, o)
           \/ QueueReenable(w, o)
    PROVE  UserInv(u)'
  <1> SUFFICES ASSUME Harmless(u)'
               PROVE  Scheduled(u)' /\ EnableAlone(u)' /\ RecordBeforeQueue(u)'
    BY DEF UserInv
  <1> USE EnforcementAssumption
  <1> DEFINE v == worker[w].user
  <1>u. worker[w].pc # "idle" => v \in Users /\ worker[w].until # NoTime
    BY DEF IInv, WorkerLocals
  <1>1. CASE CheckRecord(w, o)
    <2>1. Harmless(u)
      <3>1. CASE UNCHANGED mishap
        BY <3>1 DEF Harmless, Clean
      <3>2. CASE mishap' = Noted({v}, When(WorkerAt(v, {"disable", "save", "queue"}), "double")
                                   \cup When(record[v] >= worker[w].until, "blind"))
        BY <3>2, NotedHarmless DEF IInv
      <3> QED
        BY <1>1, <3>1, <3>2 DEF CheckRecord
    <2>2. Scheduling(u)' <=> Scheduling(u)
      BY <1>1 DEF IInv, TypeOK, CheckRecord, Scheduling, WorkerAt, IdleWorker
    <2>3. WorkerAt(u, {"queue"})' <=> WorkerAt(u, {"queue"})
      BY <1>1, SMTT(20) DEF IInv, TypeOK, CheckRecord, WorkerAt, IdleWorker
    <2> QED
      BY <1>1, <2>1, <2>2, <2>3 DEF IInv, UserInv, Scheduled, EnableAlone,
         RecordBeforeQueue, CheckRecord, stores, Disabled, Popped
  <1>2. CASE DisableUser(w, o)
    <2>1. /\ Harmless(u)
          /\ u = v => o # "lost" /\ (TakesEffect(o) => sched.user # u)
      BY <1>2, NotedHarmless DEF IInv, DisableUser, Promise, When
    <2>2. WorkerAt(u, {"queue"})' <=> WorkerAt(u, {"queue"})
      BY <1>2 DEF IInv, TypeOK, DisableUser, Promise, WorkerAt, IdleWorker
    <2>3. CASE u # v
      <3>1. Scheduling(u)' <=> Scheduling(u)
        BY <1>2, <2>3 DEF IInv, TypeOK, DisableUser, Promise, Scheduling, WorkerAt, IdleWorker
      <3>2. Disabled(u)' <=> Disabled(u)
        BY <1>2, <2>3 DEF IInv, TypeOK, DisableUser, Promise, Write, Disabled
      <3> QED
        BY <1>2, <2>1, <2>2, <3>1, <3>2 DEF IInv, UserInv, Scheduled, EnableAlone,
           RecordBeforeQueue, DisableUser, Promise, Popped
    <2>4. CASE u = v /\ o = "ok"
      <3>1. Scheduling(u)'
        BY <1>2, <2>4 DEF IInv, TypeOK, DisableUser, Promise, Scheduling, WorkerAt, Succeeds
      <3> QED
        BY <1>2, <2>1, <2>2, <2>4, <3>1 DEF IInv, UserInv, Scheduled, EnableAlone,
           RecordBeforeQueue, DisableUser, Promise, TakesEffect
    <2>5. CASE u = v /\ o = "failed"
      <3>1. Scheduling(u)' <=> Scheduling(u)
        BY <1>2, <2>5 DEF IInv, TypeOK, DisableUser, Promise, Scheduling, WorkerAt, IdleWorker,
           Succeeds
      <3>2. UNCHANGED panel
        BY <1>2, <2>5 DEF DisableUser, Promise, Write, TakesEffect
      <3> QED
        BY <1>2, <2>1, <2>2, <3>1, <3>2 DEF IInv, UserInv, Scheduled, EnableAlone,
           RecordBeforeQueue, DisableUser, Promise, Popped, Disabled
    <2> QED
      BY <2>1, <2>3, <2>4, <2>5 DEF Outcomes
  <1>3. CASE SaveRecord(w, o)
    <2>1. Harmless(u) /\ (u = v => o = "ok")
      BY <1>3, NotedHarmless DEF IInv, SaveRecord, When, Succeeds
    <2>2. Scheduling(u)' <=> Scheduling(u)
      BY <1>3, <2>1 DEF IInv, TypeOK, SaveRecord, Scheduling, WorkerAt, IdleWorker, Succeeds
    <2>3. CASE u # v
      <3>1. WorkerAt(u, {"queue"})' <=> WorkerAt(u, {"queue"})
        BY <1>3, <2>3 DEF IInv, TypeOK, SaveRecord, WorkerAt, IdleWorker
      <3>2. record'[u] = record[u]
        BY <1>3, <2>3 DEF IInv, TypeOK, SaveRecord, Write
      <3> QED
        BY <1>3, <2>1, <2>2, <3>1, <3>2 DEF IInv, UserInv, Scheduled, EnableAlone,
           RecordBeforeQueue, SaveRecord, Popped, Disabled
    <2>4. CASE u = v
      <3>1. record'[u] # NoTime
        BY <1>3, <1>u, <2>1, <2>4 DEF IInv, TypeOK, SaveRecord, Write, TakesEffect
      <3> QED
        BY <1>3, <2>1, <2>2, <3>1 DEF IInv, UserInv, Scheduled, EnableAlone,
           RecordBeforeQueue, SaveRecord, Popped, Disabled
    <2> QED
      BY <2>3, <2>4
  <1>4. CASE QueueReenable(w, o)
    <2>1. Harmless(u) /\ (u = v => o # "failed")
      BY <1>4, NotedHarmless DEF IInv, QueueReenable, When, TakesEffect
    <2>2. Scheduling(u)' => Scheduling(u)
      BY <1>4 DEF IInv, TypeOK, QueueReenable, Scheduling, WorkerAt, IdleWorker
    <2>3. WorkerAt(u, {"queue"})' => WorkerAt(u, {"queue"})
      BY <1>4 DEF IInv, TypeOK, QueueReenable, WorkerAt, IdleWorker
    <2>4. CASE u # v
      <3>1. Scheduling(u)' <=> Scheduling(u)
        BY <1>4, <2>4 DEF IInv, TypeOK, QueueReenable, Scheduling, WorkerAt, IdleWorker
      <3>2. zset'[u] = zset[u]
        BY <1>4, <2>4 DEF IInv, TypeOK, QueueReenable, Write
      <3> QED
        BY <1>4, <2>1, <2>3, <3>1, <3>2 DEF IInv, UserInv, Scheduled, EnableAlone,
           RecordBeforeQueue, QueueReenable, Popped, Disabled
    <2>5. CASE u = v
      <3>1. zset'[u] # NoTime
        BY <1>4, <1>u, <2>1, <2>5 DEF IInv, TypeOK, QueueReenable, Write, TakesEffect
      <3>2. record[u] # NoTime
        BY <1>4, <2>1, <2>5 DEF IInv, UserInv, RecordBeforeQueue, WorkerAt, QueueReenable
      <3> QED
        BY <1>4, <2>1, <2>2, <2>3, <3>1, <3>2 DEF IInv, UserInv, Scheduled, EnableAlone,
           RecordBeforeQueue, QueueReenable, Popped, Disabled
    <2> QED
      BY <2>4, <2>5
  <1> QED
    BY <1>1, <1>2, <1>3, <1>4

\* So do the steps of the scheduler.
LEMMA SchedulerKeepsUserInv ==
    ASSUME IInv, SchedulerStep, NEW u \in Users
    PROVE  UserInv(u)'
  <1> SUFFICES ASSUME Harmless(u)'
               PROVE  Scheduled(u)' /\ EnableAlone(u)' /\ RecordBeforeQueue(u)'
    BY DEF UserInv
  <1> USE EnforcementAssumption
  <1>w. /\ Scheduling(u)' <=> Scheduling(u)
        /\ \A pcs : WorkerAt(u, pcs)' <=> WorkerAt(u, pcs)
    <2>1. UNCHANGED worker
      BY DEF SchedulerStep, PopDue, ReadRecord, EnableUser, ResaveRecord,
         RequeueReenable, ClearRecord
    <2> QED
      BY <2>1 DEF Scheduling, WorkerAt
  <1>1. ASSUME NEW o \in Outcomes, PopDue(o)
        PROVE  Scheduled(u)' /\ EnableAlone(u)' /\ RecordBeforeQueue(u)'
    <2> PICK ids \in Batches :
          /\ zset' = IF TakesEffect(o)
                     THEN [x \in Users |-> IF x \in ids THEN NoTime ELSE zset[x]]
                     ELSE zset
          /\ sched' = IF Succeeds(o)
                      THEN [pc |-> "next", now |-> clock, todo |-> ids,
                            user |-> NoUser, until |-> NoTime]
                      ELSE sched
          /\ mishap' = Noted(ids, When(o = "lost", "lost"))
      BY <1>1 DEF PopDue
    <2>1. Harmless(u) /\ (u \in ids => o # "lost")
      BY NotedHarmless DEF IInv, When
    <2>2. ~ Popped(u)
      BY <1>1 DEF IInv, PopDue, SchedLocals, Popped
    <2>3. zset[u] # NoTime => zset'[u] # NoTime \/ Popped(u)'
      BY <2>1 DEF IInv, TypeOK, TakesEffect, Succeeds, Outcomes, Popped
    <2>4. sched'.user # u
      BY <2>2 DEF Popped
    <2> QED
      BY <1>1, <1>w, <2>1, <2>2, <2>3, <2>4 DEF IInv, UserInv, Scheduled, EnableAlone,
         RecordBeforeQueue, PopDue, Disabled
  <1>2. ASSUME NEW v \in Users, NEW o \in Outcomes, ReadRecord(v, o)
        PROVE  Scheduled(u)' /\ EnableAlone(u)' /\ RecordBeforeQueue(u)'
    <2>1. CASE /\ ~ Succeeds(o) \/ record[v] = NoTime
               /\ sched' = NextOf(sched.todo \ {v})
               /\ mishap' = Noted({v}, When(~ Succeeds(o), "lost"))
      <3>1. Harmless(u) /\ (u = v => record[u] = NoTime)
        BY <2>1, NotedHarmless DEF IInv, When
      <3>2. sched'.user # u /\ (u # v /\ Popped(u) => Popped(u)')
        BY <1>2, <2>1, NextOfFacts DEF IInv, SchedLocals, ReadRecord, Popped
      <3> QED
        BY <1>2, <1>w, <3>1, <3>2 DEF IInv, UserInv, Scheduled, EnableAlone,
           RecordBeforeQueue, ReadRecord, stores, Disabled
    <2>2. ASSUME NEW p \in {"save", "enable"}, NEW kinds,
                 sched' = [sched EXCEPT !.todo = sched.todo \ {v}, !.user = v,
                                        !.until = record[v], !.pc = p],
                 mishap' = Noted({v}, kinds),
                 p = "enable" => kinds = When(Scheduling(v), "overlap")
          PROVE  Scheduled(u)' /\ EnableAlone(u)' /\ RecordBeforeQueue(u)'
      <3>1. Harmless(u) /\ (u = v /\ p = "enable" => ~ Scheduling(u))
        BY <2>2, NotedHarmless DEF IInv, When
      <3>2. /\ sched'.user = v /\ sched'.pc = p
            /\ sched'.todo = sched.todo \ {v}
        BY <2>2 DEF IInv, TypeOK
      <3>3. Popped(u) => Popped(u)'
        BY <1>2, <3>2 DEF IInv, SchedLocals, ReadRecord, Popped
      <3> QED
        BY <1>2, <1>w, <3>1, <3>2, <3>3 DEF IInv, UserInv, Scheduled, EnableAlone,
           RecordBeforeQueue, ReadRecord, stores, Disabled
    <2> QED
      BY <1>2, <2>1, <2>2 DEF ReadRecord
  <1>3. ASSUME NEW o \in Outcomes, EnableUser(o)
        PROVE  Scheduled(u)' /\ EnableAlone(u)' /\ RecordBeforeQueue(u)'
    <2>1. Harmless(u)
      BY <1>3, NotedHarmless DEF IInv, EnableUser
    <2>2. /\ sched'.user = sched.user /\ sched'.todo = sched.todo
          /\ sched'.pc \in {"clear", "save"}
          /\ sched'.pc = "clear" => o = "ok"
      BY <1>3 DEF IInv, TypeOK, EnableUser, Succeeds
    <2>3. Popped(u)' <=> Popped(u)
      BY <2>2 DEF Popped
    <2>4. /\ Disabled(u)' => Disabled(u)
          /\ sched.user = u /\ o = "ok" => ~ Disabled(u)'
      BY <1>3 DEF IInv, TypeOK, EnableUser, Write, TakesEffect, Disabled
    <2> QED
      BY <1>3, <1>w, <2>1, <2>2, <2>3, <2>4 DEF IInv, UserInv, Scheduled, EnableAlone,
         RecordBeforeQueue, EnableUser
  <1>4. ASSUME NEW o \in Outcomes, ResaveRecord(o)
        PROVE  Scheduled(u)' /\ EnableAlone(u)' /\ RecordBeforeQueue(u)'
    <2> DEFINE v == sched.user
    <2>1. Harmless(u) /\ (u = v => o = "ok")
      BY <1>4, NotedHarmless DEF IInv, ResaveRecord, When, Succeeds
    <2>2. record[u] # NoTime => record'[u] # NoTime
      BY <1>4 DEF IInv, TypeOK, SchedLocals, ResaveRecord, Write
    <2>3. u = v => record'[u] # NoTime
      BY <1>4, <2>1 DEF IInv, TypeOK, SchedLocals, ResaveRecord, Write, TakesEffect
    <2>4. /\ Popped(u) => Popped(u)'
          /\ sched'.user = u => sched'.pc = "queue"
      BY <1>4, <2>1, NextOfFacts DEF IInv, TypeOK, ResaveRecord, Popped, Succeeds
    <2> QED
      BY <1>4, <1>w, <2>1, <2>2, <2>3, <2>4 DEF IInv, UserInv, Scheduled, EnableAlone,
         RecordBeforeQueue, ResaveRecord, Disabled
  <1>5. ASSUME NEW o \in Outcomes, RequeueReenable(o)
        PROVE  Scheduled(u)' /\ EnableAlone(u)' /\ RecordBeforeQueue(u)'
    <2> DEFINE v == sched.user
    <2>1. Harmless(u) /\ (u = v => o # "failed")
      BY <1>5, NotedHarmless DEF IInv, RequeueReenable, When, TakesEffect
    <2>2. zset[u] # NoTime => zset'[u] # NoTime
      BY <1>5 DEF IInv, TypeOK, SchedLocals, RequeueReenable, Write
    <2>3. u = v => zset'[u] # NoTime
      BY <1>5, <2>1 DEF IInv, TypeOK, SchedLocals, RequeueReenable, Write, TakesEffect
    <2>4. /\ u # v /\ Popped(u) => Popped(u)'
          /\ sched'.user # u
      BY <1>5, NextOfFacts DEF RequeueReenable, Popped
    <2> QED
      BY <1>5, <1>w, <2>1, <2>2, <2>3, <2>4 DEF IInv, UserInv, Scheduled, EnableAlone,
         RecordBeforeQueue, RequeueReenable, Disabled
  <1>6. ASSUME NEW o \in Outcomes, ClearRecord(o)
        PROVE  Scheduled(u)' /\ EnableAlone(u)' /\ RecordBeforeQueue(u)'
    <2> DEFINE v == sched.user
    <2>1. Harmless(u)
      BY <1>6 DEF ClearRecord, history, Harmless, Clean
    <2>2. u # v => record'[u] = record[u]
      BY <1>6 DEF IInv, TypeOK, ClearRecord, Write
    <2>3. u = v => ~ Disabled(u) /\ ~ Scheduling(u)
      BY <1>6, <2>1 DEF IInv, UserInv, EnableAlone, ClearRecord
    <2>4. /\ u # v /\ Popped(u) => Popped(u)'
          /\ sched'.user # u
      BY <1>6, NextOfFacts DEF ClearRecord, Popped
    <2>5. WorkerAt(u, {"queue"}) => Scheduling(u)
      BY DEF WorkerAt, Scheduling
    <2> QED
      BY <1>6, <1>w, <2>1, <2>2, <2>3, <2>4, <2>5 DEF IInv, UserInv, Scheduled, EnableAlone,
         RecordBeforeQueue, ClearRecord, Disabled
  <1> QED
    BY <1>1, <1>2, <1>3, <1>4, <1>5, <1>6 DEF SchedulerStep

\* And the environment's: the clock, the TTL of a record, a restart.
LEMMA EnvironmentKeepsUserInv ==
    ASSUME IInv, NEW u \in Users,
           \/ \E w \in Workers, v \in Users : StartDisable(w, v)
           \/ Tick
           \/ \E v \in Users : ExpireRecord(v)
           \/ Restart
           \/ UNCHANGED vars
    PROVE  UserInv(u)'
  <1> SUFFICES ASSUME Harmless(u)'
               PROVE  Scheduled(u)' /\ EnableAlone(u)' /\ RecordBeforeQueue(u)'
    BY DEF UserInv
  <1>1. ASSUME NEW w \in Workers, NEW v \in Users, StartDisable(w, v)
        PROVE  Scheduled(u)' /\ EnableAlone(u)' /\ RecordBeforeQueue(u)'
    <2>1. Harmless(u)
      BY <1>1 DEF StartDisable, BlockUntil, history, Harmless, Clean
    <2>2. Scheduling(u)' <=> Scheduling(u)
      BY <1>1 DEF IInv, TypeOK, StartDisable, BlockUntil, Scheduling, WorkerAt
    <2>3. WorkerAt(u, {"queue"})' <=> WorkerAt(u, {"queue"})
      BY <1>1 DEF IInv, TypeOK, StartDisable, BlockUntil, WorkerAt
    <2> QED
      BY <1>1, <2>1, <2>2, <2>3 DEF IInv, UserInv, Scheduled, EnableAlone,
         RecordBeforeQueue, StartDisable, BlockUntil, stores, Disabled, Popped
  <1>2. CASE Tick
    BY <1>2 DEF IInv, UserInv, Scheduled, EnableAlone, RecordBeforeQueue, Tick, stores,
       history, Disabled, Popped, Scheduling, WorkerAt, Harmless, Clean
  <1>3. ASSUME NEW v \in Users, ExpireRecord(v)
        PROVE  Scheduled(u)' /\ EnableAlone(u)' /\ RecordBeforeQueue(u)'
    <2>1. Harmless(u) /\ u # v
      BY <1>3, NotedHarmless DEF IInv, ExpireRecord
    <2>2. record'[u] = record[u]
      BY <1>3, <2>1 DEF IInv, TypeOK, ExpireRecord
    <2> QED
      BY <1>3, <2>1, <2>2 DEF IInv, UserInv, Scheduled, EnableAlone, RecordBeforeQueue,
         ExpireRecord, Disabled, Popped, Scheduling, WorkerAt
  <1>4. CASE Restart
    <2>1. Harmless(u) /\ ~ Scheduling(u) /\ ~ Popped(u)
      BY <1>4, NotedHarmless DEF IInv, Restart
    <2>2. ~ WorkerAt(u, {"queue"})'
      BY <1>4 DEF Restart, WorkerAt, IdleWorker
    <2>3. sched'.user # u
      BY <1>4, EnforcementAssumption DEF Restart, IdleSched
    <2> QED
      BY <1>4, <2>1, <2>2, <2>3 DEF IInv, UserInv, Scheduled, EnableAlone,
         RecordBeforeQueue, Restart, stores, Disabled
  <1>5. CASE UNCHANGED vars
    BY <1>5 DEF IInv, UserInv, Scheduled, EnableAlone, RecordBeforeQueue, vars,
       Disabled, Popped, Scheduling, WorkerAt, Harmless, Clean
  <1> QED
    BY <1>1, <1>2, <1>3, <1>4, <1>5

LEMMA IInvStep == IInv /\ [Next]_vars => IInv'
  <1> SUFFICES ASSUME IInv, [Next]_vars PROVE IInv'
    OBVIOUS
  <1>1. TypeOK' /\ WorkerLocals' /\ SchedLocals'
    BY TypeStep, WorkerLocalsStep, SchedLocalsStep DEF IInv
  <1>2. ASSUME NEW u \in Users PROVE UserInv(u)'
    BY WorkerKeepsUserInv, SchedulerKeepsUserInv, EnvironmentKeepsUserInv
       DEF Next, WorkerStep, Rest
  <1> QED
    BY <1>1, <1>2 DEF IInv

LEMMA IInvInit == Init => IInv
  <1> SUFFICES ASSUME Init PROVE IInv
    OBVIOUS
  <1>1. TypeOK
    BY EnforcementAssumption DEF Init, TypeOK, IdleWorker, IdleSched, NoTime,
       Status, WorkerPc, SchedPc
  <1>2. WorkerLocals /\ SchedLocals
    BY DEF Init, WorkerLocals, SchedLocals, IdleWorker, IdleSched
  <1>3. ASSUME NEW u \in Users PROVE UserInv(u)
    BY DEF Init, UserInv, Scheduled, EnableAlone, RecordBeforeQueue, Disabled,
       WorkerAt, IdleWorker, IdleSched
  <1> QED
    BY <1>1, <1>2, <1>3 DEF IInv

\* A user is left disabled with no re-enable scheduled only after one of the
\* three harms: whatever the interleaving of workers and scheduler, the number
\* of failing enables, of workers and of users.
THEOREM StrandedOnlyByHarm == Spec => []StrandedHasCause
  <1>1. IInv => StrandedHasCause
    BY DEF IInv, UserInv, Scheduled, StrandedHasCause, Stranded, Harmless
  <1> QED
    BY IInvInit, IInvStep, <1>1, PTL DEF Spec
-----------------------------------------------------------------------------
(***************************************************************************)
(* Why the scheduler enables nobody too early.  It trusts the record it    *)
(* reads.  That the record is not older than the longest block on the      *)
(* panel (Covered) depends on what workers and scheduler are about to      *)
(* write (Ahead, SchedFits), and on no two workers being past the          *)
(* idempotency check for one user (OneWorker).                             *)
(***************************************************************************)
Orderly(u) == Clean(u, {"lost", "overlap", "double", "blind"})

\* The longest block ever put on the user has ended.
Over(u) == promised[u] <= clock

Covered(u) == Over(u) \/ record[u] >= promised[u] \/ WorkerAt(u, {"save"})

Busy(w, u) == worker[w].user = u /\ worker[w].pc \in {"disable", "save", "queue"}

OneWorker(u) == \A v, w \in Workers : Busy(v, u) /\ Busy(w, u) => v = w

Ahead(w, u) ==
    worker[w].user = u /\ worker[w].pc \in {"disable", "save"} =>
        Over(u) \/ worker[w].until >= promised[u]

SchedFits(u) ==
    sched.user = u =>
        /\ sched.pc \in {"enable", "clear"} => Over(u)
        /\ sched.pc = "save" => Over(u) \/ sched.until >= promised[u]

Timed(u) == Covered(u) /\ OneWorker(u) /\ (\A w \in Workers : Ahead(w, u)) /\ SchedFits(u)

TimeInv == sched.now <= clock /\ \A u \in Users : Orderly(u) => Timed(u)
-----------------------------------------------------------------------------
\* A user that is orderly after a step was so before it, and the step noted
\* nothing against it.
LEMMA NotedOrderly ==
    ASSUME TypeOK, NEW S, NEW kinds, NEW u \in Users,
           mishap' = Noted(S, kinds), Orderly(u)'
    PROVE  /\ Orderly(u)
           /\ u \in S => kinds \cap {"lost", "overlap", "double", "blind"} = {}
BY DEF TypeOK, Noted, Orderly, Clean

\* Numbers are numbers.
LEMMA TimeTypes ==
    ASSUME TypeOK, NEW u \in Users
    PROVE  /\ clock \in Nat /\ record[u] \in Nat /\ promised[u] \in Nat
           /\ sched.now \in Nat /\ sched.until \in Nat
           /\ \A w \in Workers : worker[w].until \in Nat
BY DEF TypeOK

\* A worker's step leaves the others where they are.
LEMMA OthersAt ==
    ASSUME TypeOK, NEW w \in Workers, NEW r, worker' = [worker EXCEPT ![w] = r]
    PROVE  /\ worker'[w] = r
           /\ \A x \in Workers : x # w => worker'[x] = worker[x]
BY DEF TypeOK

\* A worker that ends its operation, but not one about to save.
LEMMA WorkerLeaves ==
    ASSUME NEW u \in Users, NEW w \in Workers, Timed(u),
           worker[w].pc # "save", worker'[w].pc = "idle",
           \A x \in Workers : x # w => worker'[x] = worker[x],
           record' = record, promised' = promised, clock' = clock, sched' = sched
    PROVE  Timed(u)'
<1>1. Covered(u)' BY DEF Timed, Covered, Over, WorkerAt
<1>2. OneWorker(u)'
  <2>1. \A x \in Workers : Busy(x, u)' => Busy(x, u) BY DEF Busy
  <2> QED BY <2>1 DEF Timed, OneWorker
<1>3. ASSUME NEW x \in Workers PROVE Ahead(x, u)' BY DEF Timed, Ahead, Over
<1>4. SchedFits(u)' BY DEF Timed, SchedFits, Over
<1> QED BY <1>1, <1>2, <1>3, <1>4 DEF Timed

LEMMA WorkerKeepsTimed ==
    ASSUME IInv, TimeInv, NEW w \in Workers, NEW o \in Outcomes, NEW u \in Users,
           \/ CheckRecord(w, o)
           \/ DisableUser(w, o)
           \/ SaveRecord(w, o)
           \/ QueueReenable(w, o),
           Orderly(u)'
    PROVE  Timed(u)'
<1> DEFINE v == worker[w].user
<1>0. TypeOK /\ v \in Users /\ worker[w].until # NoTime
  BY DEF IInv, WorkerLocals, CheckRecord, DisableUser, SaveRecord, QueueReenable
<1>t. /\ clock \in Nat /\ record[u] \in Nat /\ promised[u] \in Nat
      /\ \A x \in Workers : worker[x].until \in Nat
  BY <1>0, TimeTypes
<1>1. CASE CheckRecord(w, o)
  <2>1. CASE worker' = [worker EXCEPT ![w] = IdleWorker] /\ UNCHANGED mishap
    <3>1. Timed(u) BY <2>1 DEF TimeInv, Orderly, Clean
    <3>2. \A x \in Workers : x # w => worker'[x] = worker[x] BY <1>0, <2>1, OthersAt
    <3>3. worker'[w].pc = "idle" /\ worker[w].pc # "save"
      BY <1>0, <1>1, <2>1 DEF CheckRecord, IdleWorker, TypeOK
    <3>4. UNCHANGED <<record, promised, clock, sched>> BY <1>1 DEF CheckRecord, stores
    <3> QED BY <3>1, <3>2, <3>3, <3>4, WorkerLeaves
  <2>2. CASE /\ worker' = [worker EXCEPT ![w].pc = "disable"]
             /\ mishap' = Noted({v}, When(WorkerAt(v, {"disable", "save", "queue"}), "double")
                                      \cup When(record[v] >= worker[w].until, "blind"))
    <3>1. /\ Orderly(u)
          /\ u = v => /\ ~ WorkerAt(u, {"disable", "save", "queue"})
                      /\ ~ record[u] >= worker[w].until
      BY <1>0, <2>2, NotedOrderly DEF When
    <3>2. \A x \in Workers : x # w => worker'[x] = worker[x] BY <1>0, <2>2, OthersAt
    <3>3. worker'[w].pc = "disable" /\ worker[w].pc = "check" /\ worker'[w].user = v
          /\ worker'[w].until = worker[w].until
      BY <1>0, <1>1, <2>2 DEF CheckRecord, TypeOK
    <3>4. UNCHANGED <<stores, clock, sched, promised>> BY <1>1 DEF CheckRecord
    <3>5. Timed(u) BY <3>1 DEF TimeInv
    <3>6. Covered(u)' /\ SchedFits(u)'
      BY <3>2, <3>3, <3>4, <3>5 DEF Timed, Covered, SchedFits, Over, WorkerAt, stores
    <3>7. OneWorker(u)'
      BY <3>1, <3>2, <3>3, <3>5 DEF Timed, OneWorker, Busy, WorkerAt
    <3>8. ASSUME NEW x \in Workers PROVE Ahead(x, u)'
      <4>1. CASE x # w BY <3>2, <3>4, <3>5, <4>1 DEF Timed, Ahead, Over
      <4>2. CASE x = w /\ u = v
        <5>1. Over(u) \/ record[u] >= promised[u]
          BY <3>1, <3>5, <4>2 DEF Timed, Covered, WorkerAt
        <5>2. Over(u) \/ worker[w].until >= promised[u] BY <1>t, <3>1, <4>2, <5>1
        <5> QED BY <3>3, <3>4, <4>2, <5>2 DEF Ahead, Over
      <4> QED BY <3>3, <4>1, <4>2 DEF Ahead
    <3> QED BY <3>6, <3>7, <3>8 DEF Timed
  <2> QED BY <1>1, <2>1, <2>2 DEF CheckRecord
<1>2. CASE DisableUser(w, o)
  <2>1. /\ Orderly(u)
        /\ u = v => o # "lost" /\ (TakesEffect(o) => sched.user # u)
    BY <1>0, <1>2, NotedOrderly DEF DisableUser, Promise, When
  <2>2. Timed(u) BY <2>1 DEF TimeInv
  <2>3. \A x \in Workers : x # w => worker'[x] = worker[x]
    BY <1>0, <1>2, OthersAt DEF DisableUser
  <2>4. worker[w].pc = "disable" /\ UNCHANGED <<record, clock, sched>> BY <1>2 DEF DisableUser
  <2>5. /\ Succeeds(o) => /\ worker'[w].pc = "save" /\ worker'[w].user = v
                          /\ worker'[w].until = worker[w].until
        /\ ~ Succeeds(o) => worker'[w].pc = "idle" /\ worker'[w].user = NoUser
    BY <1>0, <1>2 DEF DisableUser, TypeOK, IdleWorker
  <2>6. CASE u # v
    <3>1. promised'[u] = promised[u]
      BY <1>0, <1>2, <2>6 DEF DisableUser, Promise, Write, TypeOK
    <3>2. NoUser # u BY EnforcementAssumption
    <3>3. worker[w].user # u /\ worker'[w].user # u BY <2>5, <2>6, <3>2
    <3> QED BY <2>2, <2>3, <2>4, <3>1, <3>3 DEF Timed, Covered, OneWorker, Ahead,
              SchedFits, Over, Busy, WorkerAt
  <2>7. CASE u = v /\ o = "ok"
    <3>1. promised'[u] = IF worker[w].until > promised[u] THEN worker[w].until ELSE promised[u]
      BY <1>0, <1>2, <2>7 DEF DisableUser, Promise, Write, TakesEffect, TypeOK
    <3>2. worker'[w].pc = "save" /\ worker'[w].user = u /\ worker'[w].until = worker[w].until
      BY <2>5, <2>7 DEF Succeeds
    <3>3. Covered(u)' /\ SchedFits(u)'
      BY <2>1, <2>4, <2>7, <3>2 DEF Covered, SchedFits, WorkerAt, TakesEffect
    <3>4. OneWorker(u)' BY <2>2, <2>3, <2>4, <2>7, <3>2 DEF Timed, OneWorker, Busy
    <3>5. ASSUME NEW x \in Workers PROVE Ahead(x, u)'
      <4>1. CASE x # w BY <2>2, <2>3, <2>4, <2>7, <4>1 DEF Timed, OneWorker, Busy, Ahead
      <4>2. CASE x = w
        <5>1. Over(u) \/ worker[w].until >= promised[u]
          BY <2>2, <2>4, <2>7 DEF Timed, Ahead
        <5>2. promised'[u] <= clock \/ worker[w].until >= promised'[u]
          BY <1>t, <3>1, <5>1 DEF Over
        <5> QED BY <2>4, <3>2, <4>2, <5>2 DEF Ahead, Over
      <4> QED BY <4>1, <4>2
    <3> QED BY <3>3, <3>4, <3>5 DEF Timed
  <2>8. CASE u = v /\ o = "failed"
    <3>1. UNCHANGED promised
      BY <1>2, <2>8 DEF DisableUser, Promise, Write, TakesEffect
    <3>2. worker'[w].pc = "idle" BY <2>5, <2>8 DEF Succeeds
    <3> QED BY <2>2, <2>3, <2>4, <3>1, <3>2, WorkerLeaves
  <2> QED BY <2>1, <2>6, <2>7, <2>8 DEF Outcomes
<1>3. CASE SaveRecord(w, o)
  <2>1. Orderly(u) /\ (u = v => o = "ok")
    BY <1>0, <1>3, NotedOrderly DEF SaveRecord, When, Succeeds
  <2>2. Timed(u) BY <2>1 DEF TimeInv
  <2>3. \A x \in Workers : x # w => worker'[x] = worker[x]
    BY <1>0, <1>3, OthersAt DEF SaveRecord
  <2>4. worker[w].pc = "save" /\ UNCHANGED <<promised, clock, sched>> BY <1>3 DEF SaveRecord
  <2>5. /\ Succeeds(o) => worker'[w].pc = "queue" /\ worker'[w].user = v
        /\ ~ Succeeds(o) => worker'[w].pc = "idle" /\ worker'[w].user = NoUser
    BY <1>0, <1>3 DEF SaveRecord, TypeOK, IdleWorker
  <2>6. CASE u # v
    <3>1. record'[u] = record[u]
      BY <1>0, <1>3, <2>6 DEF SaveRecord, Write, TypeOK
    <3>2. NoUser # u BY EnforcementAssumption
    <3>3. worker[w].user # u /\ worker'[w].user # u BY <2>5, <2>6, <3>2
    <3> QED BY <2>2, <2>3, <2>4, <3>1, <3>3 DEF Timed, Covered, OneWorker, Ahead,
              SchedFits, Over, Busy, WorkerAt
  <2>7. CASE u = v
    <3>1. record'[u] = worker[w].until
      BY <1>0, <1>3, <2>1, <2>7 DEF SaveRecord, Write, TakesEffect, TypeOK
    <3>2. worker'[w].pc = "queue" /\ worker'[w].user = u BY <2>1, <2>5, <2>7 DEF Succeeds
    <3>3. Over(u) \/ worker[w].until >= promised[u] BY <2>2, <2>4, <2>7 DEF Timed, Ahead
    <3>4. Covered(u)' BY <2>4, <3>1, <3>3 DEF Covered, Over
    <3>5. OneWorker(u)' BY <2>2, <2>3, <2>4, <2>7, <3>2 DEF Timed, OneWorker, Busy
    <3> QED BY <2>2, <2>3, <2>4, <3>2, <3>4, <3>5 DEF Timed, Ahead, SchedFits, Over
  <2> QED BY <2>6, <2>7
<1>4. CASE QueueReenable(w, o)
  <2>1. Timed(u) BY <1>0, <1>4, NotedOrderly DEF QueueReenable, TimeInv
  <2>2. \A x \in Workers : x # w => worker'[x] = worker[x]
    BY <1>0, <1>4, OthersAt DEF QueueReenable
  <2>3. worker'[w].pc = "idle" /\ worker[w].pc # "save"
        /\ UNCHANGED <<record, promised, clock, sched>>
    BY <1>0, <1>4 DEF QueueReenable, IdleWorker, TypeOK
  <2> QED BY <2>1, <2>2, <2>3, WorkerLeaves
<1> QED BY <1>1, <1>2, <1>3, <1>4
-----------------------------------------------------------------------------
\* The scheduler looks at a user, or not, while workers and promises stay.
LEMMA SchedulerMoves ==
    ASSUME NEW u \in Users, Timed(u), UNCHANGED <<worker, promised, clock>>,
           Over(u) \/ record'[u] = record[u] \/ record'[u] >= promised[u],
           SchedFits(u)'
    PROVE  Timed(u)'
<1>1. Covered(u)' BY DEF Timed, Covered, Over, WorkerAt
<1>2. OneWorker(u)' BY DEF Timed, OneWorker, Busy
<1>3. \A x \in Workers : Ahead(x, u)' BY DEF Timed, Ahead, Over
<1> QED BY <1>1, <1>2, <1>3 DEF Timed

LEMMA SchedulerKeepsTimed ==
    ASSUME IInv, TimeInv, SchedulerStep, NEW u \in Users, Orderly(u)'
    PROVE  Timed(u)'
<1>0. TypeOK /\ NoUser # u /\ SchedLocals /\ sched.now <= clock
  BY EnforcementAssumption DEF IInv, TimeInv
<1>t. /\ clock \in Nat /\ record[u] \in Nat /\ promised[u] \in Nat
      /\ sched.now \in Nat /\ sched.until \in Nat
  BY <1>0, TimeTypes
<1>n. \A todo : NextOf(todo).user # u BY <1>0, NextOfFacts, EnforcementAssumption
<1>w. UNCHANGED <<worker, promised, clock>>
  BY DEF SchedulerStep, PopDue, ReadRecord, EnableUser, ResaveRecord, RequeueReenable,
     ClearRecord, history
<1>1. ASSUME NEW o \in Outcomes, PopDue(o) PROVE Timed(u)'
  <2>1. PICK ids \in Batches :
          /\ sched' = IF Succeeds(o)
                      THEN [pc |-> "next", now |-> clock, todo |-> ids,
                            user |-> NoUser, until |-> NoTime]
                      ELSE sched
          /\ mishap' = Noted(ids, When(o = "lost", "lost"))
    BY <1>1 DEF PopDue
  <2>2. Orderly(u) /\ UNCHANGED record BY <1>0, <1>1, <2>1, NotedOrderly DEF PopDue
  <2>3. SchedFits(u)' BY <1>0, <1>w, <2>1, <2>2 DEF TimeInv, Timed, SchedFits, Over
  <2> QED BY <1>w, <2>2, <2>3, SchedulerMoves DEF TimeInv
<1>2. ASSUME NEW v \in Users, NEW o \in Outcomes, ReadRecord(v, o) PROVE Timed(u)'
  <2> DEFINE busy == [sched EXCEPT !.todo = sched.todo \ {v}, !.user = v, !.until = record[v]]
  <2>0. UNCHANGED record BY <1>2 DEF ReadRecord, stores
  <2>1. CASE /\ sched' = NextOf(sched.todo \ {v})
             /\ mishap' = Noted({v}, When(~ Succeeds(o), "lost"))
    <3>1. Orderly(u) BY <1>0, <2>1, NotedOrderly
    <3>2. SchedFits(u)' BY <1>n, <2>1 DEF SchedFits
    <3> QED BY <1>w, <2>0, <3>1, <3>2, SchedulerMoves DEF TimeInv
  <2>2. CASE /\ record[v] > sched.now
             /\ sched' = [busy EXCEPT !.pc = "save"]
             /\ mishap' = Noted({v}, When(WorkerAt(v, {"save"}), "overlap"))
    <3>1. Orderly(u) /\ (u = v => ~ WorkerAt(u, {"save"}))
      BY <1>0, <2>2, NotedOrderly DEF When
    <3>2. sched'.pc = "save" /\ sched'.user = v /\ sched'.until = record[v]
      BY <1>0, <2>2 DEF TypeOK
    <3>3. u = v => Over(u) \/ record[u] >= promised[u]
      BY <3>1 DEF TimeInv, Timed, Covered
    <3>4. SchedFits(u)' BY <1>w, <3>2, <3>3 DEF SchedFits, Over
    <3> QED BY <1>w, <2>0, <3>1, <3>4, SchedulerMoves DEF TimeInv
  <2>3. CASE /\ record[v] <= sched.now
             /\ sched' = [busy EXCEPT !.pc = "enable"]
             /\ mishap' = Noted({v}, When(Scheduling(v), "overlap"))
    <3>1. Orderly(u) /\ (u = v => ~ Scheduling(u))
      BY <1>0, <2>3, NotedOrderly DEF When
    <3>2. sched'.pc = "enable" /\ sched'.user = v BY <1>0, <2>3 DEF TypeOK
    <3>3. u = v => Over(u) \/ record[u] >= promised[u]
      BY <3>1 DEF TimeInv, Timed, Covered, Scheduling, WorkerAt
    <3>4. u = v => Over(u) BY <1>0, <1>t, <2>3, <3>3 DEF Over
    <3>5. SchedFits(u)' BY <1>w, <3>2, <3>4 DEF SchedFits, Over
    <3> QED BY <1>w, <2>0, <3>1, <3>5, SchedulerMoves DEF TimeInv
  <2> QED BY <1>2, <2>1, <2>2, <2>3 DEF ReadRecord
<1>3. ASSUME NEW o \in Outcomes, EnableUser(o) PROVE Timed(u)'
  <2>1. Orderly(u) /\ UNCHANGED record BY <1>0, <1>3, NotedOrderly DEF EnableUser
  <2>2. sched'.user = sched.user /\ sched.pc = "enable"
    BY <1>0, <1>3 DEF EnableUser, TypeOK
  <2>3. SchedFits(u)' BY <1>w, <2>1, <2>2 DEF TimeInv, Timed, SchedFits, Over
  <2> QED BY <1>w, <2>1, <2>3, SchedulerMoves DEF TimeInv
<1>4. ASSUME NEW o \in Outcomes, ResaveRecord(o) PROVE Timed(u)'
  <2>1. Orderly(u) /\ sched.pc = "save" BY <1>0, <1>4, NotedOrderly DEF ResaveRecord
  <2>2. sched'.user = u => sched'.pc = "queue"
    BY <1>0, <1>4, <1>n DEF ResaveRecord, TypeOK
  <2>3. SchedFits(u)' BY <2>2 DEF SchedFits
  <2>4. CASE sched.user = u
    <3>1. Over(u) \/ sched.until >= promised[u] BY <2>1, <2>4 DEF TimeInv, Timed, SchedFits
    <3>2. record'[u] \in {record[u], sched.until}
      BY <1>0, <1>4, <2>4 DEF ResaveRecord, Write, TypeOK
    <3> QED BY <1>w, <2>1, <2>3, <3>1, <3>2, SchedulerMoves DEF TimeInv
  <2>5. CASE sched.user # u
    <3>1. record'[u] = record[u] BY <1>0, <1>4, <2>5 DEF ResaveRecord, Write, TypeOK
    <3> QED BY <1>w, <2>1, <2>3, <3>1, SchedulerMoves DEF TimeInv
  <2> QED BY <2>4, <2>5
<1>5. ASSUME NEW o \in Outcomes, RequeueReenable(o) PROVE Timed(u)'
  <2>1. Orderly(u) /\ UNCHANGED record BY <1>0, <1>5, NotedOrderly DEF RequeueReenable
  <2>2. SchedFits(u)' BY <1>5, <1>n DEF RequeueReenable, SchedFits
  <2> QED BY <1>w, <2>1, <2>2, SchedulerMoves DEF TimeInv
<1>6. ASSUME NEW o \in Outcomes, ClearRecord(o) PROVE Timed(u)'
  <2>1. Orderly(u) BY <1>6 DEF ClearRecord, history, Orderly, Clean
  <2>2. SchedFits(u)' BY <1>6, <1>n DEF ClearRecord, SchedFits
  <2>3. CASE sched.user = u
    <3>1. Over(u) BY <1>6, <2>1, <2>3 DEF TimeInv, Timed, SchedFits, ClearRecord
    <3> QED BY <1>w, <2>1, <2>2, <3>1, SchedulerMoves DEF TimeInv
  <2>4. CASE sched.user # u
    <3>1. record'[u] = record[u] BY <1>0, <1>6, <2>4 DEF ClearRecord, Write, TypeOK
    <3> QED BY <1>w, <2>1, <2>2, <3>1, SchedulerMoves DEF TimeInv
  <2> QED BY <2>3, <2>4
<1> QED BY <1>1, <1>2, <1>3, <1>4, <1>5, <1>6 DEF SchedulerStep
-----------------------------------------------------------------------------
\* Blocks start, time passes, records expire and the service restarts.
LEMMA EnvironmentKeepsTimed ==
    ASSUME IInv, TimeInv, NEW u \in Users, Orderly(u)',
           \/ \E w \in Workers, v \in Users : StartDisable(w, v)
           \/ Tick
           \/ \E v \in Users : ExpireRecord(v)
           \/ Restart
           \/ UNCHANGED vars
    PROVE  Timed(u)'
<1>0. TypeOK /\ NoUser # u BY EnforcementAssumption DEF IInv
<1>t. clock \in Nat /\ record[u] \in Nat /\ promised[u] \in Nat BY <1>0, TimeTypes
<1>1. ASSUME NEW w \in Workers, NEW v \in Users, StartDisable(w, v) PROVE Timed(u)'
  <2>1. Timed(u) BY <1>1 DEF TimeInv, StartDisable, history, Orderly, Clean
  <2>2. \A x \in Workers : x # w => worker'[x] = worker[x]
    BY <1>0, <1>1, OthersAt DEF StartDisable
  <2>3. worker[w].pc = "idle" /\ worker'[w].pc = "check"
    BY <1>0, <1>1 DEF StartDisable, TypeOK
  <2>4. UNCHANGED <<record, promised, clock, sched>> BY <1>1 DEF StartDisable, stores, history
  <2>5. Covered(u)' /\ SchedFits(u)'
    BY <2>1, <2>2, <2>3, <2>4 DEF Timed, Covered, SchedFits, Over, WorkerAt
  <2>6. OneWorker(u)'
    <3>1. \A x \in Workers : Busy(x, u)' => Busy(x, u) BY <2>2, <2>3 DEF Busy
    <3> QED BY <2>1, <3>1 DEF Timed, OneWorker
  <2>7. ASSUME NEW x \in Workers PROVE Ahead(x, u)'
    BY <2>1, <2>2, <2>3, <2>4 DEF Timed, Ahead, Over
  <2> QED BY <2>5, <2>6, <2>7 DEF Timed
<1>2. CASE Tick
  <2>1. Timed(u) BY <1>2 DEF TimeInv, Tick, history, Orderly, Clean
  <2>2. Over(u) => Over(u)' BY <1>t, <1>2 DEF Over, Tick, history
  <2>3. UNCHANGED <<record, promised, worker, sched>> BY <1>2 DEF Tick, stores, history
  <2> QED BY <2>1, <2>2, <2>3 DEF Timed, Covered, OneWorker, Ahead, SchedFits, Busy, WorkerAt
<1>3. ASSUME NEW v \in Users, ExpireRecord(v) PROVE Timed(u)'
  <2>1. Timed(u) BY <1>0, <1>3, NotedOrderly DEF TimeInv, ExpireRecord
  <2>2. UNCHANGED <<promised, worker, clock, sched>> BY <1>3 DEF ExpireRecord
  <2>3. record'[u] = record[u] \/ clock >= record[u] + Retention
    BY <1>0, <1>3 DEF ExpireRecord, TypeOK
  <2>4. Over(u) \/ record[u] >= promised[u] \/ WorkerAt(u, {"save"})
    BY <2>1 DEF Timed, Covered
  <2>5. Over(u) \/ record'[u] >= promised[u] \/ WorkerAt(u, {"save"})
    BY <1>t, <2>3, <2>4, EnforcementAssumption DEF Over
  <2>6. Covered(u)' BY <2>2, <2>5 DEF Covered, Over, WorkerAt
  <2> QED BY <2>1, <2>2, <2>6 DEF Timed, OneWorker, Ahead, SchedFits, Over, Busy
<1>4. CASE Restart
  <2>1. Orderly(u) /\ ~ Scheduling(u) BY <1>0, <1>4, NotedOrderly DEF Restart
  <2>2. Over(u) \/ record[u] >= promised[u]
    BY <2>1 DEF TimeInv, Timed, Covered, Scheduling, WorkerAt
  <2>3. UNCHANGED <<record, promised, clock>> BY <1>4 DEF Restart, stores
  <2>4. Covered(u)' BY <2>2, <2>3 DEF Covered, Over
  <2>5. \A w \in Workers : worker'[w].user = NoUser BY <1>4 DEF Restart, IdleWorker
  <2>6. sched'.user = NoUser BY <1>4 DEF Restart, IdleSched
  <2> QED BY <1>0, <2>4, <2>5, <2>6 DEF Timed, OneWorker, Ahead, SchedFits, Busy
<1>5. CASE UNCHANGED vars
  <2>1. Timed(u) BY <1>5 DEF TimeInv, vars, Orderly, Clean
  <2> QED BY <1>5, <2>1 DEF vars, Timed, Covered, OneWorker, Ahead, SchedFits, Over, Busy,
            WorkerAt
<1> QED BY <1>1, <1>2, <1>3, <1>4, <1>5

\* The scheduler's reading of the clock stays in the past.
LEMMA NowPast ==
    ASSUME TypeOK, sched.now <= clock, [Next]_vars
    PROVE  sched'.now <= clock'
<1>0. clock \in Nat /\ sched.now \in Nat /\ sched.now <= clock BY DEF TypeOK
<1>n. \A todo : NextOf(todo).now \in {sched.now, 0} BY DEF NextOf, IdleSched, NoTime
<1>1. CASE SchedulerStep
  <2>1. clock' = clock
    BY <1>1 DEF SchedulerStep, PopDue, ReadRecord, EnableUser, ResaveRecord, RequeueReenable,
       ClearRecord
  <2>2. sched'.now \in {sched.now, clock, 0}
    <3>1. ASSUME NEW o \in Outcomes, PopDue(o) PROVE sched'.now \in {sched.now, clock, 0}
      BY <3>1 DEF PopDue
    <3>2. ASSUME NEW v \in Users, NEW o \in Outcomes, ReadRecord(v, o)
          PROVE  sched'.now \in {sched.now, clock, 0}
      BY <1>n, <3>2 DEF ReadRecord, TypeOK
    <3>3. ASSUME NEW o \in Outcomes, EnableUser(o) PROVE sched'.now \in {sched.now, clock, 0}
      BY <3>3 DEF EnableUser, TypeOK
    <3>4. ASSUME NEW o \in Outcomes, ResaveRecord(o) \/ RequeueReenable(o) \/ ClearRecord(o)
          PROVE  sched'.now \in {sched.now, clock, 0}
      BY <1>n, <3>4 DEF ResaveRecord, RequeueReenable, ClearRecord, TypeOK
    <3> QED BY <1>1, <3>1, <3>2, <3>3, <3>4 DEF SchedulerStep
  <2> QED BY <1>0, <2>1, <2>2
<1>2. CASE Restart BY <1>0, <1>2 DEF Restart, IdleSched, NoTime
<1>3. CASE Tick BY <1>0, <1>3 DEF Tick
<1>4. CASE UNCHANGED <<clock, sched>> BY <1>0, <1>4
<1>5. ASSUME NEW w \in Workers, WorkerStep(w) \/ \E v \in Users : StartDisable(w, v)
      PROVE  UNCHANGED <<clock, sched>>
  BY <1>5 DEF WorkerStep, CheckRecord, DisableUser, SaveRecord, QueueReenable, StartDisable
<1>6. (\E v \in Users : ExpireRecord(v)) \/ Rest \/ UNCHANGED vars => UNCHANGED <<clock, sched>>
  BY DEF ExpireRecord, Rest, vars
<1> QED BY <1>1, <1>2, <1>3, <1>4, <1>5, <1>6 DEF Next

LEMMA TimeInvStep == IInv /\ TimeInv /\ [Next]_vars => TimeInv'
<1> SUFFICES ASSUME IInv, TimeInv, [Next]_vars PROVE TimeInv'
  OBVIOUS
<1>1. sched'.now <= clock' BY NowPast DEF IInv, TimeInv
<1>2. ASSUME NEW u \in Users, Orderly(u)' PROVE Timed(u)'
  <2>1. ASSUME NEW w \in Workers, WorkerStep(w) PROVE Timed(u)'
    BY <1>2, <2>1, WorkerKeepsTimed DEF WorkerStep
  <2>2. CASE SchedulerStep BY <1>2, <2>2, SchedulerKeepsTimed
  <2> QED BY <1>2, <2>1, <2>2, EnvironmentKeepsTimed DEF Next, Rest
<1> QED BY <1>1, <1>2 DEF TimeInv

\* A user is enabled by the scheduler, past the end of its longest block.
LEMMA EnabledWhenOver ==
    ASSUME TypeOK, TimeInv, Next, NEW u \in Users, Disabled(u), ~ Disabled(u)', Orderly(u)
    PROVE  clock >= promised[u]
<1>1. PICK o \in Outcomes : EnableUser(o)
  BY DEF Next, WorkerStep, CheckRecord, DisableUser, SaveRecord, QueueReenable, StartDisable,
     SchedulerStep, PopDue, ReadRecord, ResaveRecord, RequeueReenable, ClearRecord, Tick,
     ExpireRecord, Restart, Rest, vars, stores, Disabled, Write, TypeOK
<1>2. sched.user = u /\ sched.pc = "enable" BY <1>1 DEF EnableUser, Disabled, Write, TypeOK
<1>3. Over(u) BY <1>2 DEF TimeInv, Timed, SchedFits
<1> QED BY <1>3, TimeTypes DEF Over

\* The scheduler enables no user before the longest block a worker put on it
\* has ended (processDueDisables acts on a record no older than the panel),
\* unless writes for that user overlapped or were lost.
THEOREM EnabledInTime == Spec => NoEarlyEnable
<1>1. Init => IInv /\ TimeInv
  BY IInvInit DEF Init, TimeInv, IdleSched, IdleWorker, NoTime, Timed, Covered, OneWorker,
     Ahead, SchedFits, Over, Busy
<1>2. IInv /\ TimeInv /\ [Next]_vars => (IInv /\ TimeInv)' BY IInvStep, TimeInvStep
<1>3. IInv /\ TimeInv /\ [Next]_vars =>
        [\A u \in Users :
            Disabled(u) /\ ~ Disabled(u)' /\ Clean(u, {"lost", "overlap", "double", "blind"})
                => clock >= promised[u]]_vars
  BY EnabledWhenOver DEF IInv, Orderly
<1> QED BY <1>1, <1>2, <1>3, PTL DEF Spec, NoEarlyEnable
-----------------------------------------------------------------------------
(***************************************************************************)
(* Why panel, record and ZSET agree, and why the idempotency check is      *)
(* right to skip a user: a queued id, a record that is not over and a      *)
(* worker about to schedule each belong to a user that is disabled         *)
(* (Witnessed).  The scheduler enables a user only when none of the three  *)
(* is there: AtHand says so of the one at hand, InBatch of the popped      *)
(* ones, which a worker may schedule again meanwhile, with the record it   *)
(* saved before (JustSaved).  A call that outlives the block it belongs to *)
(* breaks this: a worker could queue a user whose new record is over.      *)
(***************************************************************************)
BlockOutlastsCalls == Timeout < Duration

Certain(u) == Clean(u, {"lost", "overlap", "double", "unsure"})

Witnessed(u) == zset[u] # NoTime \/ record[u] > clock \/ Scheduling(u) => Disabled(u)

InBatch(u) ==
    u \in sched.todo =>
        /\ Disabled(u)
        /\ sched.user # u
        /\ zset[u] = NoTime \/ record[u] = NoTime \/ record[u] > sched.now

AtHand(u) ==
    sched.user = u =>
        /\ sched.pc \in {"enable", "save", "queue"} => Disabled(u)
        /\ sched.pc \in {"enable", "clear"} =>
              zset[u] = NoTime /\ record[u] <= clock /\ ~ Scheduling(u)
        /\ ~ WorkerAt(u, {"save"})

JustSaved(w, u) ==
    worker[w].user = u /\ worker[w].pc = "queue" =>
        \/ TimedOut(w)
        \/ /\ record[u] = worker[w].until
           /\ sched.user = u /\ sched.pc = "save" => sched.until = worker[w].until

Agrees(u) ==
    /\ OneWorker(u)
    /\ Witnessed(u)
    /\ InBatch(u)
    /\ AtHand(u)
    /\ \A w \in Workers : JustSaved(w, u)

AgreeInv == sched.now <= clock /\ \A u \in Users : Certain(u) => Agrees(u)
-----------------------------------------------------------------------------
\* A user that is certain after a step was so before it, and the step noted
\* nothing against it.
LEMMA NotedCertain ==
    ASSUME TypeOK, NEW S, NEW kinds, NEW u \in Users,
           mishap' = Noted(S, kinds), Certain(u)'
    PROVE  /\ Certain(u)
           /\ u \in S => kinds \cap {"lost", "overlap", "double", "unsure"} = {}
BY DEF TypeOK, Noted, Certain, Clean

\* A call that takes effect before its deadline belongs to a block that is not over.
LEMMA StillBlocking ==
    ASSUME TypeOK, BlockOutlastsCalls, NEW w \in Workers, ~ TimedOut(w)
    PROVE  worker[w].until > clock
<1>1. worker[w].until \in Nat /\ clock \in Nat BY DEF TypeOK
<1>2. ~ (clock + Duration > worker[w].until + Timeout) BY DEF TimedOut
<1> QED BY <1>1, <1>2, EnforcementAssumption DEF BlockOutlastsCalls

LEMMA CallInTime ==
    ASSUME NEW w \in Workers, NEW o, WorkerCall(w, o), TakesEffect(o)
    PROVE  ~ TimedOut(w)
BY DEF WorkerCall, TakesEffect

\* A step of workers that have nothing to do with the user.
LEMMA WorkersElsewhere ==
    ASSUME NEW u \in Users, Agrees(u),
           panel'[u] = panel[u], record'[u] = record[u], zset'[u] = zset[u],
           UNCHANGED <<clock, sched>>,
           \A x \in Workers : Busy(x, u)' => worker'[x] = worker[x]
    PROVE  Agrees(u)'
<1>0. \A x \in Workers : Busy(x, u)' => Busy(x, u) BY DEF Busy
<1>1. OneWorker(u)' BY <1>0 DEF Agrees, OneWorker
<1>2. Scheduling(u)' => Scheduling(u) BY DEF Scheduling, WorkerAt, Busy
<1>3. WorkerAt(u, {"save"})' => WorkerAt(u, {"save"}) BY DEF WorkerAt, Busy
<1>4. Witnessed(u)' BY <1>2 DEF Agrees, Witnessed, Disabled
<1>5. InBatch(u)' BY DEF Agrees, InBatch, Disabled
<1>6. AtHand(u)' BY <1>2, <1>3 DEF Agrees, AtHand, Disabled
<1>7. ASSUME NEW x \in Workers PROVE JustSaved(x, u)'
  BY DEF Agrees, JustSaved, TimedOut, Busy
<1> QED BY <1>1, <1>4, <1>5, <1>6, <1>7 DEF Agrees

\* A step of the scheduler that has nothing to do with the user.
LEMMA SchedulerElsewhere ==
    ASSUME NEW u \in Users, Agrees(u),
           panel'[u] = panel[u], record'[u] = record[u], zset'[u] = zset[u],
           UNCHANGED <<clock, worker>>,
           sched'.user # u,
           u \in sched'.todo => u \in sched.todo /\ sched'.now = sched.now
    PROVE  Agrees(u)'
<1>1. OneWorker(u)' BY DEF Agrees, OneWorker, Busy
<1>2. Scheduling(u)' <=> Scheduling(u) BY DEF Scheduling, WorkerAt
<1>3. Witnessed(u)' BY <1>2 DEF Agrees, Witnessed, Disabled
<1>4. InBatch(u)' BY DEF Agrees, InBatch, Disabled
<1>5. AtHand(u)' BY DEF AtHand
<1>6. ASSUME NEW x \in Workers PROVE JustSaved(x, u)'
  BY DEF Agrees, JustSaved, TimedOut
<1> QED BY <1>1, <1>3, <1>4, <1>5, <1>6 DEF Agrees
-----------------------------------------------------------------------------
LEMMA WorkerKeepsAgrees ==
    ASSUME IInv, AgreeInv, BlockOutlastsCalls,
           NEW w \in Workers, NEW o \in Outcomes, NEW u \in Users,
           \/ CheckRecord(w, o)
           \/ DisableUser(w, o)
           \/ SaveRecord(w, o)
           \/ QueueReenable(w, o),
           Certain(u)'
    PROVE  Agrees(u)'
<1> DEFINE v == worker[w].user
<1>0. TypeOK /\ v \in Users /\ u # NoUser
  BY EnforcementAssumption DEF IInv, WorkerLocals, CheckRecord, DisableUser, SaveRecord,
     QueueReenable
<1>1. CASE CheckRecord(w, o)
  <2>1. CASE worker' = [worker EXCEPT ![w] = IdleWorker] /\ UNCHANGED mishap
    <3>1. Agrees(u) BY <2>1 DEF AgreeInv, Certain, Clean
    <3>2. \A x \in Workers : Busy(x, u)' => worker'[x] = worker[x]
      BY <1>0, <2>1, OthersAt DEF Busy, IdleWorker
    <3>3. UNCHANGED <<panel, record, zset, clock, sched>> BY <1>1 DEF CheckRecord, stores
    <3> QED BY <3>1, <3>2, <3>3, WorkersElsewhere
  <2>2. CASE /\ worker' = [worker EXCEPT ![w].pc = "disable"]
             /\ mishap' = Noted({v}, When(WorkerAt(v, {"disable", "save", "queue"}), "double")
                                      \cup When(record[v] >= worker[w].until, "blind"))
    <3>1. Certain(u) /\ (u = v => ~ WorkerAt(u, {"disable", "save", "queue"}))
      BY <1>0, <2>2, NotedCertain DEF When
    <3>2. Agrees(u) BY <3>1 DEF AgreeInv
    <3>3. \A x \in Workers : x # w => worker'[x] = worker[x] BY <1>0, <2>2, OthersAt
    <3>4. worker'[w].pc = "disable" /\ worker'[w].user = v BY <1>0, <2>2 DEF TypeOK
    <3>5. UNCHANGED <<panel, record, zset, clock, sched>> BY <1>1 DEF CheckRecord, stores
    <3>6. CASE u # v
      BY <3>2, <3>3, <3>4, <3>5, <3>6, WorkersElsewhere DEF Busy
    <3>7. CASE u = v
      <4>1. \A x \in Workers : Busy(x, u)' => x = w
        BY <3>1, <3>3, <3>7 DEF Busy, WorkerAt
      <4>2. ~ Scheduling(u)' /\ ~ WorkerAt(u, {"save"})'
        BY <3>4, <4>1 DEF Scheduling, WorkerAt, Busy
      <4>3. OneWorker(u)' BY <4>1 DEF OneWorker
      <4>4. Witnessed(u)' /\ InBatch(u)'
        BY <3>2, <3>5, <4>2 DEF Agrees, Witnessed, InBatch, Disabled
      <4>5. AtHand(u)' BY <3>2, <3>5, <4>2 DEF Agrees, AtHand, Disabled
      <4>6. \A x \in Workers : JustSaved(x, u)' BY <3>4, <4>1 DEF JustSaved, Busy
      <4> QED BY <4>3, <4>4, <4>5, <4>6 DEF Agrees
    <3> QED BY <3>6, <3>7
  <2> QED BY <1>1, <2>1, <2>2 DEF CheckRecord
<1>2. CASE DisableUser(w, o)
  <2>1. Certain(u) /\ (u = v => o # "lost" /\ (TakesEffect(o) => sched.user # u))
    BY <1>0, <1>2, NotedCertain DEF DisableUser, Promise, When
  <2>2. Agrees(u) BY <2>1 DEF AgreeInv
  <2>3. \A x \in Workers : x # w => worker'[x] = worker[x]
    BY <1>0, <1>2, OthersAt DEF DisableUser
  <2>4. worker[w].pc = "disable" /\ UNCHANGED <<record, zset, clock, sched>>
    BY <1>2 DEF DisableUser
  <2>5. /\ Succeeds(o) => worker'[w].pc = "save" /\ worker'[w].user = v
        /\ ~ Succeeds(o) => worker'[w].pc = "idle" /\ worker'[w].user = NoUser
    BY <1>0, <1>2 DEF DisableUser, TypeOK, IdleWorker
  <2>6. CASE u # v
    <3>1. panel'[u] = panel[u] BY <1>0, <1>2, <2>6 DEF DisableUser, Write, TypeOK
    <3>2. \A x \in Workers : Busy(x, u)' => worker'[x] = worker[x]
      BY <1>0, <2>3, <2>5, <2>6 DEF Busy
    <3> QED BY <2>2, <2>4, <3>1, <3>2, WorkersElsewhere
  <2>7. CASE u = v /\ o = "ok"
    <3>1. Disabled(u)' BY <1>0, <1>2, <2>7 DEF DisableUser, Write, TakesEffect, TypeOK, Disabled
    <3>2. worker'[w].pc = "save" /\ worker'[w].user = u BY <2>5, <2>7 DEF Succeeds
    <3>3. sched.user # u BY <2>1, <2>7 DEF TakesEffect
    <3>4. Busy(w, u) BY <2>4, <2>7 DEF Busy
    <3>5. \A x \in Workers : Busy(x, u)' => x = w
      BY <2>2, <2>3, <3>4 DEF Agrees, OneWorker, Busy
    <3>6. OneWorker(u)' BY <3>5 DEF OneWorker
    <3>7. Witnessed(u)' /\ InBatch(u)'
      BY <2>2, <2>4, <3>1 DEF Agrees, Witnessed, InBatch
    <3>8. AtHand(u)' BY <2>4, <3>3 DEF AtHand
    <3>9. \A x \in Workers : JustSaved(x, u)' BY <3>2, <3>5 DEF JustSaved, Busy
    <3> QED BY <3>6, <3>7, <3>8, <3>9 DEF Agrees
  <2>8. CASE u = v /\ o = "failed"
    <3>1. panel' = panel BY <1>2, <2>8 DEF DisableUser, Write, TakesEffect
    <3>2. worker'[w].pc = "idle" BY <2>5, <2>8 DEF Succeeds
    <3>3. \A x \in Workers : Busy(x, u)' => worker'[x] = worker[x]
      BY <2>3, <3>2 DEF Busy
    <3> QED BY <2>2, <2>4, <3>1, <3>3, WorkersElsewhere
  <2> QED BY <2>1, <2>6, <2>7, <2>8 DEF Outcomes
<1>3. CASE SaveRecord(w, o)
  <2>1. Certain(u) /\ (u = v => o = "ok")
    BY <1>0, <1>3, NotedCertain DEF SaveRecord, When, Succeeds
  <2>2. Agrees(u) BY <2>1 DEF AgreeInv
  <2>3. \A x \in Workers : x # w => worker'[x] = worker[x]
    BY <1>0, <1>3, OthersAt DEF SaveRecord
  <2>4. worker[w].pc = "save" /\ UNCHANGED <<panel, zset, clock, sched>>
    BY <1>3 DEF SaveRecord
  <2>5. /\ Succeeds(o) => /\ worker'[w].pc = "queue" /\ worker'[w].user = v
                          /\ worker'[w].until = worker[w].until
        /\ ~ Succeeds(o) => worker'[w].pc = "idle" /\ worker'[w].user = NoUser
    BY <1>0, <1>3 DEF SaveRecord, TypeOK, IdleWorker
  <2>6. CASE u # v
    <3>1. record'[u] = record[u] BY <1>0, <1>3, <2>6 DEF SaveRecord, Write, TypeOK
    <3>2. \A x \in Workers : Busy(x, u)' => worker'[x] = worker[x]
      BY <1>0, <2>3, <2>5, <2>6 DEF Busy
    <3> QED BY <2>2, <2>4, <3>1, <3>2, WorkersElsewhere
  <2>7. CASE u = v
    <3>1. record'[u] = worker[w].until
      BY <1>0, <1>3, <2>1, <2>7 DEF SaveRecord, Write, TakesEffect, TypeOK
    <3>2. /\ worker'[w].pc = "queue" /\ worker'[w].user = u
          /\ worker'[w].until = worker[w].until
      BY <2>1, <2>5, <2>7 DEF Succeeds
    <3>3. record'[u] > clock
      <4>1. ~ TimedOut(w) BY <1>3, <2>1, <2>7, CallInTime DEF SaveRecord, TakesEffect
      <4> QED BY <1>0, <3>1, <4>1, StillBlocking
    <3>4. record'[u] > sched.now
      <4>1. record'[u] \in Nat /\ clock \in Nat /\ sched.now \in Nat /\ sched.now <= clock
        BY <1>0, <3>1 DEF TypeOK, AgreeInv
      <4> QED BY <3>3, <4>1
    <3>5. Busy(w, u) /\ WorkerAt(u, {"save"}) /\ Scheduling(u)
      BY <2>4, <2>7 DEF Busy, WorkerAt, Scheduling
    <3>6. Disabled(u) /\ sched.user # u BY <2>2, <3>5 DEF Agrees, Witnessed, AtHand
    <3>7. \A x \in Workers : Busy(x, u)' => x = w
      BY <2>2, <2>3, <3>5 DEF Agrees, OneWorker, Busy
    <3>8. OneWorker(u)' BY <3>7 DEF OneWorker
    <3>9. Witnessed(u)' BY <2>4, <3>6 DEF Witnessed, Disabled
    <3>10. InBatch(u)' BY <2>4, <3>4, <3>6 DEF InBatch, Disabled
    <3>11. AtHand(u)' BY <2>4, <3>6 DEF AtHand
    <3>12. \A x \in Workers : JustSaved(x, u)'
      BY <2>4, <3>1, <3>2, <3>6, <3>7 DEF JustSaved, Busy
    <3> QED BY <3>8, <3>9, <3>10, <3>11, <3>12 DEF Agrees
  <2> QED BY <2>6, <2>7
<1>4. CASE QueueReenable(w, o)
  <2>1. Certain(u) /\ (u = v => TakesEffect(o))
    BY <1>0, <1>4, NotedCertain DEF QueueReenable, When
  <2>2. Agrees(u) BY <2>1 DEF AgreeInv
  <2>3. \A x \in Workers : x # w => worker'[x] = worker[x]
    BY <1>0, <1>4, OthersAt DEF QueueReenable
  <2>4. worker[w].pc = "queue" /\ UNCHANGED <<panel, record, clock, sched>>
    BY <1>4 DEF QueueReenable
  <2>5. worker'[w].pc = "idle" BY <1>0, <1>4 DEF QueueReenable, TypeOK, IdleWorker
  <2>6. \A x \in Workers : Busy(x, u)' => worker'[x] = worker[x] BY <2>3, <2>5 DEF Busy
  <2>7. CASE u # v
    <3>1. zset'[u] = zset[u] BY <1>0, <1>4, <2>7 DEF QueueReenable, Write, TypeOK
    <3> QED BY <2>2, <2>4, <2>6, <3>1, WorkersElsewhere
  <2>8. CASE u = v
    <3>1. ~ TimedOut(w) BY <1>4, <2>1, <2>8, CallInTime DEF QueueReenable
    <3>2. Busy(w, u) /\ Scheduling(u) BY <2>4, <2>8 DEF Busy, WorkerAt, Scheduling
    <3>3. ~ (sched.user = u /\ sched.pc \in {"enable", "clear"}) /\ Disabled(u)
      BY <2>2, <3>2 DEF Agrees, AtHand, Witnessed
    <3>4. record[u] > sched.now
      <4>1. record[u] = worker[w].until
        BY <2>2, <2>4, <2>8, <3>1 DEF Agrees, JustSaved
      <4>2. record[u] \in Nat /\ clock \in Nat /\ sched.now \in Nat /\ sched.now <= clock
        BY <1>0 DEF TypeOK, AgreeInv
      <4>3. record[u] > clock BY <1>0, <3>1, <4>1, StillBlocking
      <4> QED BY <4>2, <4>3
    <3>5. \A x \in Workers : ~ Busy(x, u)'
      BY <2>2, <2>3, <2>5, <3>2 DEF Agrees, OneWorker, Busy
    <3>6. ~ WorkerAt(u, {"save"})' BY <3>5 DEF WorkerAt, Busy
    <3>7. OneWorker(u)' /\ \A x \in Workers : JustSaved(x, u)'
      BY <3>5 DEF OneWorker, JustSaved, Busy
    <3>8. Witnessed(u)' BY <2>4, <3>3 DEF Witnessed, Disabled
    <3>9. InBatch(u)' BY <2>2, <2>4, <3>3, <3>4 DEF Agrees, InBatch, Disabled
    <3>10. AtHand(u)' BY <2>4, <3>3, <3>6 DEF AtHand, Disabled
    <3> QED BY <3>7, <3>8, <3>9, <3>10 DEF Agrees
  <2> QED BY <2>7, <2>8
<1> QED BY <1>1, <1>2, <1>3, <1>4
-----------------------------------------------------------------------------
LEMMA SchedulerKeepsAgrees ==
    ASSUME IInv, AgreeInv, BlockOutlastsCalls, SchedulerStep, NEW u \in Users, Certain(u)'
    PROVE  Agrees(u)'
<1>0. TypeOK /\ u # NoUser /\ SchedLocals /\ sched.now <= clock
  BY EnforcementAssumption DEF IInv, AgreeInv
<1>t. clock \in Nat /\ record[u] \in Nat /\ sched.now \in Nat BY <1>0, TimeTypes
<1>n. \A todo : /\ NextOf(todo).user # u /\ NextOf(todo).todo = todo
                /\ todo # {} => NextOf(todo).now = sched.now
  BY <1>0, NextOfFacts, EnforcementAssumption DEF NextOf
<1>w. UNCHANGED <<worker, clock>>
  BY Zenon DEF SchedulerStep, PopDue, ReadRecord, EnableUser, ResaveRecord,
     RequeueReenable, ClearRecord
<1>1. ASSUME NEW o \in Outcomes, PopDue(o) PROVE Agrees(u)'
  <2>1. PICK ids \in Batches :
          /\ zset' = IF TakesEffect(o)
                     THEN [x \in Users |-> IF x \in ids THEN NoTime ELSE zset[x]]
                     ELSE zset
          /\ sched' = IF Succeeds(o)
                      THEN [pc |-> "next", now |-> clock, todo |-> ids,
                            user |-> NoUser, until |-> NoTime]
                      ELSE sched
          /\ mishap' = Noted(ids, When(o = "lost", "lost"))
    BY <1>1 DEF PopDue
  <2>2. Certain(u) /\ (u \in ids => o # "lost")
    BY <1>0, <2>1, NotedCertain DEF When
  <2>3. Agrees(u) BY <2>2 DEF AgreeInv
  <2>4. UNCHANGED <<panel, record>> /\ sched.user = NoUser
    BY <1>0, <1>1 DEF PopDue, SchedLocals
  <2>5. sched'.user = NoUser BY <2>1, <2>4
  <2>6. CASE u \in ids /\ Succeeds(o)
    <3>1. zset[u] # NoTime BY <2>6 DEF Batches, Due
    <3>2. Disabled(u) BY <2>3, <3>1 DEF Agrees, Witnessed
    <3>3. zset'[u] = NoTime BY <2>1, <2>6 DEF Succeeds, TakesEffect
    <3>4. OneWorker(u)' BY <1>w, <2>3 DEF Agrees, OneWorker, Busy
    <3>5. Witnessed(u)' BY <2>4, <3>2 DEF Witnessed, Disabled
    <3>6. InBatch(u)' BY <1>0, <2>4, <2>5, <3>2, <3>3 DEF InBatch, Disabled
    <3>7. AtHand(u)' BY <1>0, <2>5 DEF AtHand
    <3>8. \A x \in Workers : JustSaved(x, u)'
      BY <1>0, <1>w, <2>3, <2>4, <2>5 DEF Agrees, JustSaved, TimedOut
    <3> QED BY <3>4, <3>5, <3>6, <3>7, <3>8 DEF Agrees
  <2>7. CASE ~ (u \in ids /\ Succeeds(o))
    <3>1. zset'[u] = zset[u]
      BY <1>0, <2>1, <2>2, <2>7 DEF TypeOK, TakesEffect, Succeeds, Outcomes
    <3>2. u \in sched'.todo => u \in sched.todo /\ sched'.now = sched.now
      BY <2>1, <2>7
    <3> QED BY <1>0, <1>w, <2>3, <2>4, <2>5, <3>1, <3>2, SchedulerElsewhere
  <2> QED BY <2>6, <2>7
<1>2. ASSUME NEW v \in Users, NEW o \in Outcomes, ReadRecord(v, o) PROVE Agrees(u)'
  <2> DEFINE busy == [sched EXCEPT !.todo = sched.todo \ {v}, !.user = v, !.until = record[v]]
  <2>0. UNCHANGED <<panel, record, zset>> /\ v \in sched.todo /\ sched.pc = "next"
    BY <1>2 DEF ReadRecord, stores
  <2>1. CASE /\ sched' = NextOf(sched.todo \ {v})
             /\ mishap' = Noted({v}, When(~ Succeeds(o), "lost"))
    <3>1. Agrees(u) BY <1>0, <2>1, NotedCertain DEF AgreeInv
    <3>2. u \in sched'.todo => u \in sched.todo /\ sched'.now = sched.now
      BY <1>n, <2>1
    <3>3. sched'.user # u BY <1>n, <2>1
    <3> QED BY <1>w, <2>0, <3>1, <3>2, <3>3, SchedulerElsewhere
  <2>2. CASE /\ record[v] > sched.now
             /\ sched' = [busy EXCEPT !.pc = "save"]
             /\ mishap' = Noted({v}, When(WorkerAt(v, {"save"}), "overlap"))
    <3>1. Certain(u) /\ (u = v => ~ WorkerAt(u, {"save"}))
      BY <1>0, <2>2, NotedCertain DEF When
    <3>2. Agrees(u) BY <3>1 DEF AgreeInv
    <3>3. /\ sched'.pc = "save" /\ sched'.user = v /\ sched'.until = record[v]
          /\ sched'.todo = sched.todo \ {v} /\ sched'.now = sched.now
      BY <1>0, <2>2 DEF TypeOK
    <3>4. CASE u # v BY <1>w, <2>0, <3>2, <3>3, <3>4, SchedulerElsewhere
    <3>5. CASE u = v
      <4>1. Disabled(u) BY <2>0, <3>2, <3>5 DEF Agrees, InBatch
      <4>2. OneWorker(u)' BY <1>w, <3>2 DEF Agrees, OneWorker, Busy
      <4>3. Witnessed(u)' /\ InBatch(u)'
        BY <2>0, <3>3, <3>5, <4>1 DEF Witnessed, InBatch, Disabled
      <4>4. AtHand(u)' BY <1>w, <2>0, <3>1, <3>3, <3>5, <4>1 DEF AtHand, Disabled, WorkerAt
      <4>5. \A x \in Workers : JustSaved(x, u)'
        BY <1>w, <2>0, <3>2, <3>3, <3>5 DEF Agrees, JustSaved, TimedOut
      <4> QED BY <4>2, <4>3, <4>4, <4>5 DEF Agrees
    <3> QED BY <3>4, <3>5
  <2>3. CASE /\ record[v] # NoTime /\ record[v] <= sched.now
             /\ sched' = [busy EXCEPT !.pc = "enable"]
             /\ mishap' = Noted({v}, When(Scheduling(v), "overlap"))
    <3>1. Certain(u) /\ (u = v => ~ Scheduling(u))
      BY <1>0, <2>3, NotedCertain DEF When
    <3>2. Agrees(u) BY <3>1 DEF AgreeInv
    <3>3. /\ sched'.pc = "enable" /\ sched'.user = v
          /\ sched'.todo = sched.todo \ {v} /\ sched'.now = sched.now
      BY <1>0, <2>3 DEF TypeOK
    <3>4. CASE u # v BY <1>w, <2>0, <3>2, <3>3, <3>4, SchedulerElsewhere
    <3>5. CASE u = v
      <4>1. Disabled(u) /\ (zset[u] = NoTime \/ record[u] = NoTime \/ record[u] > sched.now)
        BY <2>0, <3>2, <3>5 DEF Agrees, InBatch
      <4>2. zset[u] = NoTime BY <1>t, <2>3, <3>5, <4>1
      <4>3. record[u] <= clock BY <1>0, <1>t, <2>3, <3>5
      <4>4. OneWorker(u)' BY <1>w, <3>2 DEF Agrees, OneWorker, Busy
      <4>5. Witnessed(u)' /\ InBatch(u)'
        BY <2>0, <3>3, <3>5, <4>1 DEF Witnessed, InBatch, Disabled
      <4>6. ~ Scheduling(u)' /\ ~ WorkerAt(u, {"save"})'
        BY <1>w, <3>1, <3>5 DEF Scheduling, WorkerAt
      <4>7. AtHand(u)' BY <1>w, <2>0, <3>3, <4>1, <4>2, <4>3, <4>6 DEF AtHand, Disabled
      <4>8. \A x \in Workers : JustSaved(x, u)'
        BY <1>w, <2>0, <3>2, <3>3 DEF Agrees, JustSaved, TimedOut
      <4> QED BY <4>4, <4>5, <4>7, <4>8 DEF Agrees
    <3> QED BY <3>4, <3>5
  <2> QED BY <1>2, <2>1, <2>2, <2>3 DEF ReadRecord
<1>3. ASSUME NEW o \in Outcomes, EnableUser(o) PROVE Agrees(u)'
  <2> DEFINE v == sched.user
  <2>0. /\ sched.pc = "enable" /\ UNCHANGED <<record, zset>>
        /\ mishap' = Noted({v}, When(o = "lost", "unsure"))
        /\ panel' = Write(panel, v, "enabled", o)
    BY <1>3, Zenon DEF EnableUser
  <2>1. Certain(u) /\ (u = v => o # "lost") BY <1>0, <2>0, NotedCertain DEF When
  <2>2. Agrees(u) BY <2>1 DEF AgreeInv
  <2>3. /\ sched'.user = v /\ sched'.todo = sched.todo /\ sched'.now = sched.now
        /\ sched'.pc = IF Succeeds(o) THEN "clear" ELSE "save"
    <3>1. CASE Succeeds(o) /\ sched' = [sched EXCEPT !.pc = "clear"] BY <1>0, <3>1 DEF TypeOK
    <3>2. ASSUME ~ Succeeds(o),
                 NEW b \in Backoffs, sched' = [sched EXCEPT !.pc = "save", !.until = clock + b]
          PROVE  sched'.user = v /\ sched'.todo = sched.todo /\ sched'.now = sched.now
                 /\ sched'.pc = "save"
      BY <1>0, <3>2 DEF TypeOK
    <3> QED BY <1>3, <3>1, <3>2, Zenon DEF EnableUser
  <2>4. CASE u # v
    <3>1. panel'[u] = panel[u] BY <1>0, <2>0, <2>4 DEF Write, TypeOK
    <3> QED BY <1>w, <2>0, <2>2, <2>3, <2>4, <3>1, SchedulerElsewhere
  <2>5. CASE u = v
    <3>1. /\ zset[u] = NoTime /\ record[u] <= clock /\ ~ Scheduling(u)
          /\ Disabled(u) /\ u \notin sched.todo
      BY <2>0, <2>2, <2>5 DEF Agrees, AtHand, InBatch
    <3>2. ~ Scheduling(u)' BY <1>w, <3>1 DEF Scheduling, WorkerAt
    <3>3. ~ Succeeds(o) => Disabled(u)'
      BY <2>0, <2>1, <2>5, <3>1 DEF Write, TakesEffect, Succeeds, Outcomes, Disabled
    <3>4. ~ (record'[u] > clock') BY <1>t, <1>w, <2>0, <3>1
    <3>5. OneWorker(u)' BY <1>w, <2>2 DEF Agrees, OneWorker, Busy
    <3>6. Witnessed(u)' BY <2>0, <3>1, <3>2, <3>4 DEF Witnessed
    <3>7. InBatch(u)' BY <2>3, <3>1 DEF InBatch
    <3>8. AtHand(u)'
      <4>1. ~ WorkerAt(u, {"save"})' BY <3>2 DEF Scheduling, WorkerAt
      <4> QED BY <1>w, <2>0, <2>3, <3>1, <3>2, <3>3, <4>1 DEF AtHand
    <3>9. \A x \in Workers : JustSaved(x, u)' BY <3>2 DEF JustSaved, Scheduling, WorkerAt
    <3> QED BY <3>5, <3>6, <3>7, <3>8, <3>9 DEF Agrees
  <2> QED BY <2>4, <2>5
<1>4. ASSUME NEW o \in Outcomes, ResaveRecord(o) PROVE Agrees(u)'
  <2> DEFINE v == sched.user
  <2>0. sched.pc = "save" /\ UNCHANGED <<panel, zset>>
        /\ mishap' = Noted({v}, When(~ Succeeds(o), "lost"))
    BY <1>4 DEF ResaveRecord
  <2>1. Certain(u) /\ (u = v => o = "ok") BY <1>0, <2>0, NotedCertain DEF When, Succeeds
  <2>2. Agrees(u) BY <2>1 DEF AgreeInv
  <2>3. CASE u # v
    <3>1. record'[u] = record[u] BY <1>0, <1>4, <2>3 DEF ResaveRecord, Write, TypeOK
    <3>2. sched' = [sched EXCEPT !.pc = "queue"] \/ sched' = NextOf(sched.todo)
      BY <1>4 DEF ResaveRecord
    <3>3. sched'.user # u /\ (u \in sched'.todo => u \in sched.todo /\ sched'.now = sched.now)
      BY <1>0, <1>n, <2>3, <3>2 DEF TypeOK
    <3> QED BY <1>w, <2>0, <2>2, <3>1, <3>3, SchedulerElsewhere
  <2>4. CASE u = v
    <3>1. record'[u] = sched.until
      BY <1>0, <1>4, <2>1, <2>4 DEF ResaveRecord, Write, TakesEffect, TypeOK
    <3>2. /\ sched'.pc = "queue" /\ sched'.user = u /\ sched'.todo = sched.todo
          /\ sched'.now = sched.now
      BY <1>0, <1>4, <2>1, <2>4 DEF ResaveRecord, Succeeds, TypeOK
    <3>3. Disabled(u) /\ ~ WorkerAt(u, {"save"}) /\ u \notin sched.todo
      BY <2>0, <2>2, <2>4 DEF Agrees, AtHand, InBatch
    <3>4. OneWorker(u)' BY <1>w, <2>2 DEF Agrees, OneWorker, Busy
    <3>5. Witnessed(u)' /\ InBatch(u)'
      BY <2>0, <3>2, <3>3 DEF Witnessed, InBatch, Disabled
    <3>6. AtHand(u)' BY <1>w, <2>0, <3>2, <3>3 DEF AtHand, Disabled, WorkerAt
    <3>7. \A x \in Workers : JustSaved(x, u)'
      BY <1>w, <2>0, <2>2, <2>4, <3>1, <3>2 DEF Agrees, JustSaved, TimedOut
    <3> QED BY <3>4, <3>5, <3>6, <3>7 DEF Agrees
  <2> QED BY <2>3, <2>4
<1>5. ASSUME NEW o \in Outcomes, RequeueReenable(o) PROVE Agrees(u)'
  <2> DEFINE v == sched.user
  <2>0. /\ sched.pc = "queue" /\ UNCHANGED <<panel, record>> /\ sched' = NextOf(sched.todo)
        /\ mishap' = Noted({v}, When(~ TakesEffect(o), "lost"))
    BY <1>5 DEF RequeueReenable
  <2>1. Agrees(u) BY <1>0, <2>0, NotedCertain DEF AgreeInv
  <2>2. sched'.user # u /\ (u \in sched'.todo => u \in sched.todo /\ sched'.now = sched.now)
    BY <1>n, <2>0
  <2>3. CASE u # v
    <3>1. zset'[u] = zset[u] BY <1>0, <1>5, <2>3 DEF RequeueReenable, Write, TypeOK
    <3> QED BY <1>w, <2>0, <2>1, <2>2, <3>1, SchedulerElsewhere
  <2>4. CASE u = v
    <3>1. Disabled(u) /\ u \notin sched.todo BY <2>0, <2>1, <2>4 DEF Agrees, AtHand, InBatch
    <3>2. OneWorker(u)' BY <1>w, <2>1 DEF Agrees, OneWorker, Busy
    <3>3. Witnessed(u)' /\ InBatch(u)' BY <2>0, <2>2, <3>1 DEF Witnessed, InBatch, Disabled
    <3>4. AtHand(u)' BY <2>2 DEF AtHand
    <3>5. \A x \in Workers : JustSaved(x, u)'
      BY <1>w, <2>0, <2>1, <2>2 DEF Agrees, JustSaved, TimedOut
    <3> QED BY <3>2, <3>3, <3>4, <3>5 DEF Agrees
  <2> QED BY <2>3, <2>4
<1>6. ASSUME NEW o \in Outcomes, ClearRecord(o) PROVE Agrees(u)'
  <2> DEFINE v == sched.user
  <2>0. sched.pc = "clear" /\ UNCHANGED <<panel, zset, mishap>> /\ sched' = NextOf(sched.todo)
    BY <1>6 DEF ClearRecord, history
  <2>1. Agrees(u) BY <2>0 DEF AgreeInv, Certain, Clean
  <2>2. sched'.user # u /\ (u \in sched'.todo => u \in sched.todo /\ sched'.now = sched.now)
    BY <1>n, <2>0
  <2>3. CASE u # v
    <3>1. record'[u] = record[u] BY <1>0, <1>6, <2>3 DEF ClearRecord, Write, TypeOK
    <3> QED BY <1>w, <2>0, <2>1, <2>2, <3>1, SchedulerElsewhere
  <2>4. CASE u = v
    <3>1. /\ zset[u] = NoTime /\ record[u] <= clock /\ ~ Scheduling(u) /\ u \notin sched.todo
      BY <2>0, <2>1, <2>4 DEF Agrees, AtHand, InBatch
    <3>2. record'[u] \in {record[u], NoTime} BY <1>0, <1>6, <2>4 DEF ClearRecord, Write, TypeOK
    <3>3. ~ (record'[u] > clock') BY <1>t, <1>w, <3>1, <3>2 DEF NoTime
    <3>4. ~ Scheduling(u)' BY <1>w, <3>1 DEF Scheduling, WorkerAt
    <3>5. OneWorker(u)' BY <1>w, <2>1 DEF Agrees, OneWorker, Busy
    <3>6. Witnessed(u)' BY <2>0, <3>1, <3>3, <3>4 DEF Witnessed
    <3>7. InBatch(u)' /\ AtHand(u)' BY <2>2, <3>1 DEF InBatch, AtHand
    <3>8. \A x \in Workers : JustSaved(x, u)' BY <3>4 DEF JustSaved, Scheduling, WorkerAt
    <3> QED BY <3>5, <3>6, <3>7, <3>8 DEF Agrees
  <2> QED BY <2>3, <2>4
<1> QED BY <1>1, <1>2, <1>3, <1>4, <1>5, <1>6 DEF SchedulerStep
-----------------------------------------------------------------------------
LEMMA EnvironmentKeepsAgrees ==
    ASSUME IInv, AgreeInv, BlockOutlastsCalls, NEW u \in Users, Certain(u)',
           \/ \E w \in Workers, v \in Users : StartDisable(w, v)
           \/ Tick
           \/ \E v \in Users : ExpireRecord(v)
           \/ Restart
           \/ UNCHANGED vars
    PROVE  Agrees(u)'
<1>0. TypeOK /\ u # NoUser BY EnforcementAssumption DEF IInv
<1>t. /\ clock \in Nat /\ record[u] \in Nat
      /\ \A x \in Workers : worker[x].until \in Nat
  BY <1>0, TimeTypes
<1>1. ASSUME NEW w \in Workers, NEW v \in Users, StartDisable(w, v) PROVE Agrees(u)'
  <2>1. Agrees(u) BY <1>1 DEF AgreeInv, StartDisable, history, Certain, Clean
  <2>2. \A x \in Workers : x # w => worker'[x] = worker[x]
    BY <1>0, <1>1, OthersAt DEF StartDisable
  <2>3. worker'[w].pc = "check" BY <1>0, <1>1 DEF StartDisable, TypeOK
  <2>4. \A x \in Workers : Busy(x, u)' => worker'[x] = worker[x] BY <2>2, <2>3 DEF Busy
  <2>5. UNCHANGED <<panel, record, zset, clock, sched>> BY <1>1 DEF StartDisable, stores
  <2> QED BY <2>1, <2>4, <2>5, WorkersElsewhere
<1>2. CASE Tick
  <2>1. Agrees(u) BY <1>2 DEF AgreeInv, Tick, history, Certain, Clean
  <2>2. UNCHANGED <<panel, record, zset, worker, sched>> /\ clock' = clock + 1
    BY <1>2 DEF Tick, stores
  <2>3. /\ record'[u] > clock' => record[u] > clock
        /\ record[u] <= clock => record'[u] <= clock'
    BY <1>t, <2>2
  <2>4. ASSUME NEW x \in Workers, TimedOut(x) PROVE TimedOut(x)'
    BY <1>t, <2>2, <2>4, EnforcementAssumption DEF TimedOut
  <2>5. OneWorker(u)' /\ InBatch(u)'
    BY <2>1, <2>2 DEF Agrees, OneWorker, Busy, InBatch, Disabled
  <2>6. Scheduling(u)' <=> Scheduling(u) BY <2>2 DEF Scheduling, WorkerAt
  <2>7. Witnessed(u)' BY <2>1, <2>2, <2>3, <2>6 DEF Agrees, Witnessed, Disabled
  <2>8. AtHand(u)' BY <2>1, <2>2, <2>3, <2>6 DEF Agrees, AtHand, Disabled, WorkerAt
  <2>9. \A x \in Workers : JustSaved(x, u)' BY <2>1, <2>2, <2>4 DEF Agrees, JustSaved
  <2> QED BY <2>5, <2>7, <2>8, <2>9 DEF Agrees
<1>3. ASSUME NEW v \in Users, ExpireRecord(v) PROVE Agrees(u)'
  <2>1. Agrees(u) BY <1>0, <1>3, NotedCertain DEF AgreeInv, ExpireRecord
  <2>2. UNCHANGED <<panel, zset, worker, sched, clock>> BY <1>3 DEF ExpireRecord
  <2>3. CASE u # v
    <3>1. record'[u] = record[u] BY <1>0, <1>3, <2>3 DEF ExpireRecord, TypeOK
    <3> QED BY <2>1, <2>2, <3>1, WorkersElsewhere
  <2>4. CASE u = v
    <3>1. record'[u] = NoTime /\ clock >= record[u] + Retention
      BY <1>0, <1>3, <2>4 DEF ExpireRecord, TypeOK
    <3>2. ~ (record'[u] > clock') /\ record'[u] <= clock' BY <1>t, <2>2, <3>1 DEF NoTime
    <3>3. OneWorker(u)' BY <2>1, <2>2 DEF Agrees, OneWorker, Busy
    <3>4. InBatch(u)' BY <2>1, <2>2, <3>1 DEF Agrees, InBatch, Disabled
    <3>5. Scheduling(u)' <=> Scheduling(u) BY <2>2 DEF Scheduling, WorkerAt
    <3>6. Witnessed(u)' BY <2>1, <2>2, <3>2, <3>5 DEF Agrees, Witnessed, Disabled
    <3>7. AtHand(u)' BY <2>1, <2>2, <3>2, <3>5 DEF Agrees, AtHand, Disabled, WorkerAt
    <3>8. ASSUME NEW x \in Workers PROVE JustSaved(x, u)'
      <4>1. record[u] = worker[x].until => TimedOut(x)
        <5> SUFFICES ASSUME record[u] = worker[x].until, ~ TimedOut(x) PROVE FALSE
          OBVIOUS
        <5>1. worker[x].until > clock BY <1>0, StillBlocking
        <5> QED BY <1>t, <3>1, <5>1, EnforcementAssumption
      <4>2. worker[x].user = u /\ worker[x].pc = "queue" => TimedOut(x)
        BY <2>1, <4>1 DEF Agrees, JustSaved
      <4> QED BY <2>2, <4>2 DEF JustSaved, TimedOut
    <3> QED BY <3>3, <3>4, <3>6, <3>7, <3>8 DEF Agrees
  <2> QED BY <2>3, <2>4
<1>4. CASE Restart
  <2>1. Certain(u) BY <1>0, <1>4, NotedCertain DEF Restart
  <2>2. Agrees(u) BY <2>1 DEF AgreeInv
  <2>3. UNCHANGED <<panel, record, zset, clock>> BY <1>4 DEF Restart, stores
  <2>4. /\ \A w \in Workers : worker'[w].user = NoUser
        /\ sched'.user = NoUser /\ sched'.todo = {}
    BY <1>4 DEF Restart, IdleWorker, IdleSched
  <2>5. Witnessed(u)'
    BY <1>0, <2>2, <2>3, <2>4 DEF Agrees, Witnessed, Disabled, Scheduling, WorkerAt
  <2> QED BY <1>0, <2>4, <2>5 DEF Agrees, OneWorker, Busy, InBatch, AtHand, JustSaved
<1>5. CASE UNCHANGED vars
  <2>1. Agrees(u) BY <1>5 DEF AgreeInv, vars, Certain, Clean
  <2> QED BY <1>5, <2>1, WorkersElsewhere DEF vars
<1> QED BY <1>1, <1>2, <1>3, <1>4, <1>5
-----------------------------------------------------------------------------
LEMMA AgreeInvStep == BlockOutlastsCalls /\ IInv /\ AgreeInv /\ [Next]_vars => AgreeInv'
<1> SUFFICES ASSUME BlockOutlastsCalls, IInv, AgreeInv, [Next]_vars PROVE AgreeInv'
  OBVIOUS
<1>1. sched'.now <= clock' BY NowPast DEF IInv, AgreeInv
<1>2. ASSUME NEW u \in Users, Certain(u)' PROVE Agrees(u)'
  <2>1. ASSUME NEW w \in Workers, WorkerStep(w) PROVE Agrees(u)'
    BY <1>2, <2>1, WorkerKeepsAgrees DEF WorkerStep
  <2>2. CASE SchedulerStep BY <1>2, <2>2, SchedulerKeepsAgrees
  <2> QED BY <1>2, <2>1, <2>2, EnvironmentKeepsAgrees DEF Next, Rest
<1> QED BY <1>1, <1>2 DEF AgreeInv

LEMMA AgreeInvInit == Init => AgreeInv
BY DEF Init, AgreeInv, IdleSched, IdleWorker, NoTime, Agrees, OneWorker, Busy, Witnessed,
   InBatch, AtHand, JustSaved, Scheduling, WorkerAt

\* When a block outlasts the calls that put it in place (10 s against minutes,
\* processor.go:66), panel, record and ZSET agree on every user nobody is at
\* work on, unless a call for it failed, was repeated or overlapped.
THEOREM StoresAgree == ASSUME BlockOutlastsCalls PROVE Spec => []QuietAgreement
<1>1. IInv /\ AgreeInv => QuietAgreement
  <2> SUFFICES ASSUME IInv, AgreeInv, NEW u \in Users, Quiet(u), Clean(u, Mishaps)
               PROVE  /\ Disabled(u) <=> zset[u] # NoTime
                      /\ Disabled(u) => record[u] # NoTime
    BY DEF QuietAgreement
  <2>1. Harmless(u) /\ Certain(u) BY DEF Clean, Mishaps, Harmless, Certain
  <2>2. Scheduled(u) /\ Witnessed(u) BY <2>1 DEF IInv, UserInv, AgreeInv, Agrees
  <2>3. ~ Popped(u) /\ ~ Scheduling(u) BY DEF Quiet, Scheduling, WorkerAt
  <2> QED BY <2>2, <2>3 DEF Scheduled, Witnessed
<1> QED BY IInvInit, IInvStep, AgreeInvInit, AgreeInvStep, <1>1, PTL DEF Spec

\* Under the same condition the idempotency check of DisableTempByInternalID
\* never skips a user that the panel lets in, unless a call for it was lost or
\* overlapped: a record that lasts as long as the new block is believed rightly.
THEOREM SkipIsRight == ASSUME BlockOutlastsCalls PROVE Spec => []SkipOnlyIfDisabled
<1>1. IInv /\ AgreeInv => SkipOnlyIfDisabled
  <2> SUFFICES ASSUME IInv, AgreeInv, NEW w \in Workers, NEW u, u = worker[w].user,
                      worker[w].pc = "check", ~ TimedOut(w), record[u] >= worker[w].until,
                      Certain(u)
               PROVE  Disabled(u)
    BY DEF SkipOnlyIfDisabled, Certain
  <2>1. TypeOK /\ u \in Users BY DEF IInv, WorkerLocals
  <2>2. worker[w].until > clock BY <2>1, StillBlocking
  <2>3. clock \in Nat /\ worker[w].until \in Nat /\ record[u] \in Nat BY <2>1 DEF TypeOK
  <2>4. record[u] > clock BY <2>2, <2>3
  <2> QED BY <2>1, <2>4 DEF AgreeInv, Agrees, Witnessed
<1> QED BY IInvInit, IInvStep, AgreeInvInit, AgreeInvStep, <1>1, PTL DEF Spec
=============================================================================
