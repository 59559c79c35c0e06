----------------------------- MODULE PanelIngest -----------------------------
(***************************************************************************)
(* Panel ingest: rounds that fetch, for every node, the addresses its      *)
(* users were seen on, and hand what is newer than a Redis watermark to    *)
(* the log queue.                                                          *)
(*                                                                         *)
(* A round starts a goroutine per node; a semaphore lets a few of them     *)
(* work at a time; each has a deadline, after which every call it makes    *)
(* fails.  The round ends when all of them have returned, so one tuple     *)
(* (node, user, address) is never handled by two goroutines at once.       *)
(***************************************************************************)
EXTENDS Naturals, FiniteSets

CONSTANTS
    Nodes,
    Tuples,        \* a user seen with an address on a node
    NodeOf,        \* the node of a tuple
    Excluded,      \* tuples whose user is in an excluded internal squad
    NoTuple,       \* the tuple of a goroutine that handles none
    MaxInflight,   \* PANEL_FETCH_MAX_INFLIGHT
    MaxSeen,       \* bound: sightings per tuple
    MaxToggles,    \* bound: nodes enabled or disabled on the panel
    MaxFaults,     \* bound: calls that do not return success in time
    MaxRestarts    \* bound: restarts of the service

ASSUME PanelIngestAssumption ==
    /\ IsFiniteSet(Nodes)
    /\ NodeOf \in [Tuples -> Nodes] /\ NoTuple \notin Tuples
    /\ Excluded \subseteq Tuples
    /\ MaxInflight \in Nat \ {0} /\ MaxSeen \in Nat /\ MaxToggles \in Nat
    /\ MaxFaults \in Nat /\ MaxRestarts \in Nat

VARIABLES
    seen,        \* panel: lastSeen of each tuple, 0 before its first sighting
    active,      \* panel: the nodes that are not disabled
    mark,        \* Redis: rw:obs:lastseen:{node}:{user}:{ip}, 0 if there is no key
    nodes,       \* the service's copy of the active nodes
    run,         \* Run: its position
    cancelled,   \* the context was cancelled
    job,         \* pollNode per node: position, deadline and local variables
    toggles, faults, restarts,
    sent,        \* history: the latest lastSeen of a tuple the log queue accepted
    again,       \* history: tuples accepted once more with an old lastSeen
    mishap       \* history: what has ever gone wrong for a tuple

vars == <<seen, active, mark, nodes, run, cancelled, job, toggles, faults,
          restarts, sent, again, mishap>>
panel == <<seen, active, toggles>>
history == <<sent, again, mishap>>
-----------------------------------------------------------------------------
\* "rejected": EnqueueEntries refused the batch; "stopped": the service stopped
\* with the entry in memory; "open": a watermark call failed and the entry went
\* ahead; "expired": Redis dropped the watermark at the end of its TTL.
Mishaps == {"rejected", "stopped", "open", "expired"}

Off == [pc |-> "off", late |-> FALSE, got |-> {}, tuple |-> NoTuple, at |-> 0, held |-> {}]

JobPc == {"off", "wait", "submit", "result", "sleep", "each", "read", "save"}
Sightings == Tuples \X (1..MaxSeen)

\* The goroutines that hold the semaphore.
Working == {n \in Nodes : job[n].pc \notin {"off", "wait"}}

\* Types; and no more goroutines fetch at once than the semaphore lets through.
TypeOK ==
    /\ seen \in [Tuples -> 0..MaxSeen] /\ mark \in [Tuples -> 0..MaxSeen]
    /\ active \subseteq Nodes /\ nodes \subseteq Nodes
    /\ run \in {"boot", "poll", "idle", "round", "stopped"}
    /\ cancelled \in BOOLEAN
    /\ job \in [Nodes -> [pc : JobPc, late : BOOLEAN, got : SUBSET Sightings,
                          tuple : Tuples \cup {NoTuple}, at : 0..MaxSeen,
                          held : SUBSET Sightings]]
    /\ Cardinality(Working) <= MaxInflight
    /\ toggles \in 0..MaxToggles /\ faults \in 0..MaxFaults /\ restarts \in 0..MaxRestarts
    /\ sent \in [Tuples -> 0..MaxSeen] /\ again \subseteq Tuples
    /\ mishap \in [Tuples -> SUBSET Mishaps]

Init ==
    /\ seen = [t \in Tuples |-> 0] /\ mark = [t \in Tuples |-> 0]
    /\ active = Nodes /\ nodes = {}
    /\ run = "boot" /\ cancelled = FALSE
    /\ job = [n \in Nodes |-> Off]
    /\ toggles = 0 /\ faults = 0 /\ restarts = 0
    /\ sent = [t \in Tuples |-> 0] /\ again = {}
    /\ mishap = [t \in Tuples |-> {}]

Noted(S, kind) == [t \in Tuples |-> IF t \in S THEN mishap[t] \cup {kind} ELSE mishap[t]]

\* As in Enforcement: done, done but the answer lost, or not done.
Outcomes == {"ok", "lost", "failed"}

Call(o) ==
    /\ o # "ok" => faults < MaxFaults
    /\ faults' = IF o = "ok" THEN faults ELSE faults + 1

\* A call of Run, made with the service's context.
RunCall(o) == IF cancelled THEN o = "failed" /\ UNCHANGED faults ELSE Call(o)

\* A call of pollNode, made with fetchCtx.
NodeCall(n, o) ==
    IF cancelled \/ job[n].late THEN o = "failed" /\ UNCHANGED faults ELSE Call(o)
-----------------------------------------------------------------------------
(* Run and pollOnce *)

\* Mutant of Refresh: a list that is not empty is taken to be up to date.
RefreshIfEmpty(o) ==
    /\ RunCall(o)
    /\ nodes' = IF o = "ok" /\ nodes = {} THEN active ELSE nodes

\* refreshNodes: on an error the old list stays.
Refresh(o) ==
    /\ RunCall(o)
    /\ nodes' = IF o = "ok" THEN active ELSE nodes

\* Run starts with a refresh and a poll that waits for no ticker.
Boot(o) ==
    /\ run = "boot"
    /\ Refresh(o)
    /\ run' = "poll"
    /\ UNCHANGED <<panel, mark, cancelled, job, restarts, history>>

RefreshTick(o) ==
    /\ run = "idle"
    /\ Refresh(o)
    /\ UNCHANGED <<panel, mark, run, cancelled, job, restarts, history>>

StartRound(list) ==
    /\ run' = IF list = {} THEN "idle" ELSE "round"
    /\ job' = [n \in Nodes |-> IF n \in list THEN [Off EXCEPT !.pc = "wait"] ELSE Off]

\* pollOnce: an empty list of nodes is refreshed first.
PollOnce(o) ==
    /\ run \in {"poll", "idle"}
    /\ IF nodes = {} THEN Refresh(o) ELSE o = "ok" /\ UNCHANGED <<nodes, faults>>
    /\ StartRound(nodes')
    /\ UNCHANGED <<panel, mark, cancelled, restarts, history>>

\* wg.Wait()
EndRound ==
    /\ run = "round"
    /\ \A n \in Nodes : job[n].pc = "off"
    /\ run' = "idle"
    /\ UNCHANGED <<panel, mark, nodes, cancelled, job, faults, restarts, history>>

StopRun ==
    /\ run = "idle"
    /\ cancelled
    /\ run' = "stopped"
    /\ UNCHANGED <<panel, mark, nodes, cancelled, job, faults, restarts, history>>
-----------------------------------------------------------------------------
(* pollNode *)

Goes(n, pc) == job' = [job EXCEPT ![n].pc = pc]
Returns(n) == job' = [job EXCEPT ![n] = Off]

\* Mutant of Acquire: the semaphore has room for one more.
AcquireOneMore(n) ==
    /\ job[n].pc = "wait"
    /\ \/ Cardinality(Working) <= MaxInflight /\ Goes(n, "submit")
       \/ cancelled /\ Returns(n)
    /\ UNCHANGED <<panel, mark, nodes, run, cancelled, faults, restarts, history>>

Acquire(n) ==
    /\ job[n].pc = "wait"
    /\ \/ Cardinality(Working) < MaxInflight /\ Goes(n, "submit")
       \/ cancelled /\ Returns(n)
    /\ UNCHANGED <<panel, mark, nodes, run, cancelled, faults, restarts, history>>

Submit(n, o) ==
    /\ job[n].pc = "submit"
    /\ NodeCall(n, o)
    /\ IF o = "ok" THEN Goes(n, "result") ELSE Returns(n)
    /\ UNCHANGED <<panel, mark, nodes, run, cancelled, restarts, history>>

SightingsOn(n) == {<<t, seen[t]>> : t \in {x \in Tuples : NodeOf[x] = n /\ seen[x] > 0}}

\* The job is done, has failed or is still running on the panel; past the
\* deadline the loop ends.
Result(n, o) ==
    /\ job[n].pc = "result"
    /\ NodeCall(n, o)
    /\ \/ o = "ok" /\ job' = [job EXCEPT ![n].pc = "each", ![n].got = SightingsOn(n)]
       \/ o = "ok" /\ Goes(n, "sleep")
       \/ Returns(n)
    /\ UNCHANGED <<panel, mark, nodes, run, cancelled, restarts, history>>

Wake(n) ==
    /\ job[n].pc = "sleep"
    /\ \/ Goes(n, "result")
       \/ cancelled /\ Returns(n)
    /\ UNCHANGED <<panel, mark, nodes, run, cancelled, faults, restarts, history>>

\* PanelFetchTimeout runs out.
Deadline(n) ==
    /\ n \in Working
    /\ ~ job[n].late
    /\ job' = [job EXCEPT ![n].late = TRUE]
    /\ UNCHANGED <<panel, mark, nodes, run, cancelled, faults, restarts, history>>
-----------------------------------------------------------------------------
(* enqueueObservations *)

\* The user is resolved and looked up in its squads.  A user that cannot be
\* resolved is skipped; one whose squads cannot be read is not.
CheckUser(n, t, o) ==
    LET at == CHOOSE v \in 1..MaxSeen : <<t, v>> \in job[n].got
        rest == [job[n] EXCEPT !.got = @ \ {<<t, at>>}] IN
    /\ job[n].pc = "each"
    /\ \E v \in 1..MaxSeen : <<t, v>> \in job[n].got
    /\ NodeCall(n, o)
    /\ \/ /\ o # "ok" \/ t \in Excluded
          /\ job' = [job EXCEPT ![n] = rest]
       \/ /\ o # "ok" \/ t \notin Excluded
          /\ job' = [job EXCEPT ![n] = [rest EXCEPT !.pc = "read", !.tuple = t, !.at = at]]
    /\ UNCHANGED <<panel, mark, nodes, run, cancelled, restarts, history>>

Skip(n) == job' = [job EXCEPT ![n] = [@ EXCEPT !.pc = "each", !.tuple = NoTuple, !.at = 0]]

Keep(n) ==
    job' = [job EXCEPT ![n] =
              [job[n] EXCEPT !.pc = "each", !.tuple = NoTuple, !.at = 0,
                             !.held = job[n].held \cup {<<job[n].tuple, job[n].at>>}]]

\* Mutant of Known: only the very same sighting is not known yet.
KnownLater(n) == mark[job[n].tuple] > job[n].at

Known(n) == mark[job[n].tuple] >= job[n].at

\* ShouldEnqueue, GET: on an error the entry goes ahead without a watermark.
ReadMark(n, o) ==
    /\ job[n].pc = "read"
    /\ NodeCall(n, o)
    /\ \/ o = "ok" /\ Known(n) /\ Skip(n)
       \/ o = "ok" /\ ~ Known(n) /\ Goes(n, "save")
       \/ o # "ok" /\ Keep(n)
    /\ mishap' = IF o = "ok" THEN mishap ELSE Noted({job[n].tuple}, "open")
    /\ UNCHANGED <<panel, mark, nodes, run, cancelled, restarts, sent, again>>

\* Mutant of SaveMark: an error skips the entry.
SaveMarkStrict(n, o) ==
    /\ job[n].pc = "save"
    /\ NodeCall(n, o)
    /\ mark' = IF o = "failed" THEN mark ELSE [mark EXCEPT ![job[n].tuple] = job[n].at]
    /\ IF o = "ok" THEN Keep(n) ELSE Skip(n)
    /\ UNCHANGED <<panel, nodes, run, cancelled, restarts, history>>

\* ShouldEnqueue, SET: with an error as without one the entry goes ahead.
SaveMark(n, o) ==
    /\ job[n].pc = "save"
    /\ NodeCall(n, o)
    /\ mark' = IF o = "failed" THEN mark ELSE [mark EXCEPT ![job[n].tuple] = job[n].at]
    /\ Keep(n)
    /\ mishap' = IF o = "failed" THEN Noted({job[n].tuple}, "open") ELSE mishap
    /\ UNCHANGED <<panel, nodes, run, cancelled, restarts, sent, again>>

Bigger(v, w) == IF v > w THEN v ELSE w

\* The log queue takes all entries or none; nobody looks at the watermarks again.
Enqueue(n) ==
    LET held == job[n].held
        batch == {e[1] : e \in held}
        At(t) == CHOOSE v \in 1..MaxSeen : <<t, v>> \in held IN
    /\ job[n].pc = "each"
    /\ job[n].got = {}
    /\ Returns(n)
    /\ \/ /\ sent' = [t \in Tuples |-> IF t \in batch THEN Bigger(sent[t], At(t)) ELSE sent[t]]
          /\ again' = again \cup {t \in batch : At(t) <= sent[t]}
          /\ UNCHANGED mishap
       \/ /\ held # {}
          /\ mishap' = Noted(batch, "rejected")
          /\ UNCHANGED <<sent, again>>
    /\ UNCHANGED <<panel, mark, nodes, run, cancelled, faults, restarts>>
-----------------------------------------------------------------------------
(* The environment *)

\* The panel sees a user on an address.
See(t) ==
    /\ seen[t] < MaxSeen
    /\ seen' = [seen EXCEPT ![t] = @ + 1]
    /\ UNCHANGED <<active, toggles, mark, nodes, run, cancelled, job, faults, restarts, history>>

\* Somebody enables or disables a node.
Toggle(n) ==
    /\ toggles < MaxToggles
    /\ toggles' = toggles + 1
    /\ active' = IF n \in active THEN active \ {n} ELSE active \cup {n}
    /\ UNCHANGED <<seen, mark, nodes, run, cancelled, job, faults, restarts, history>>

\* The TTL of a watermark runs out.
ExpireMark(t) ==
    /\ mark[t] # 0
    /\ mark' = [mark EXCEPT ![t] = 0]
    /\ mishap' = Noted({t}, "expired")
    /\ UNCHANGED <<panel, nodes, run, cancelled, job, faults, restarts, sent, again>>

Cancel ==
    /\ ~ cancelled
    /\ restarts < MaxRestarts
    /\ cancelled' = TRUE
    /\ UNCHANGED <<panel, mark, nodes, run, job, faults, restarts, history>>

\* The process ends, in order or not, and starts again.
Restart ==
    /\ restarts < MaxRestarts
    /\ restarts' = restarts + 1
    /\ run' = "boot" /\ cancelled' = FALSE /\ nodes' = {}
    /\ job' = [n \in Nodes |-> Off]
    /\ mishap' = Noted({t \in Tuples : \E n \in Nodes :
                          t = job[n].tuple \/ (\E v \in 1..MaxSeen : <<t, v>> \in job[n].held)},
                       "stopped")
    /\ UNCHANGED <<panel, mark, faults, sent, again>>
-----------------------------------------------------------------------------
RunStep ==
    \/ \E o \in Outcomes : Boot(o) \/ PollOnce(o)
    \/ EndRound
    \/ StopRun

NodeStep(n) ==
    \/ Acquire(n) \/ Wake(n) \/ Enqueue(n)
    \/ \E o \in Outcomes : Submit(n, o) \/ Result(n, o) \/ ReadMark(n, o) \/ SaveMark(n, o)
    \/ \E t \in Tuples, o \in Outcomes : CheckUser(n, t, o)

Next ==
    \/ RunStep
    \/ \E o \in Outcomes : RefreshTick(o)
    \/ \E n \in Nodes : NodeStep(n) \/ Deadline(n) \/ Toggle(n)
    \/ \E t \in Tuples : See(t) \/ ExpireMark(t)
    \/ Cancel
    \/ Restart

Spec == Init /\ [][Next]_vars

\* Goroutines are scheduled, calls return, the poll ticker and deadlines fire, and
\* a select that finds the refresh ticker ready again and again takes it some time.
Fairness ==
    /\ WF_vars(RunStep)
    /\ SF_vars(\E o \in Outcomes : RefreshTick(o))
    /\ \A n \in Nodes : WF_vars(NodeStep(n)) /\ WF_vars(Deadline(n))

FairSpec == Spec /\ Fairness
-----------------------------------------------------------------------------
(* Properties *)

Clean(t, kinds) == mishap[t] \cap kinds = {}

InMemory(t) ==
    \E n \in Nodes : job[n].tuple = t \/ \E v \in 1..MaxSeen : <<t, v>> \in job[n].held

\* A watermark hides only what was handed over: whatever call failed or came too
\* late, a tuple marked as seen was accepted by the log queue, or is about to be
\* offered to it, or was lost with a rejected batch or a stopped process.
MarkedWasSent ==
    \A t \in Tuples :
        mark[t] > sent[t] => InMemory(t) \/ ~ Clean(t, {"rejected", "stopped"})

\* The log queue gets a sighting once, unless its watermark could not be used or
\* had expired.
SentOnce == \A t \in again : ~ Clean(t, {"open", "expired"})

\* A node that somebody enables is polled and one that is disabled is not, although
\* rounds follow each other, refreshes fail and the list is not empty.
ListFollowsPanel ==
    \A n \in Nodes :
        /\ n \in active ~> n \in nodes \/ n \notin active \/ cancelled
        /\ n \notin active ~> n \notin nodes \/ n \in active \/ cancelled

\* The panel answers for the node in time, now and then.
Responsive(n) == []<>(job[n].pc = "each" /\ job[n].got = {} /\ ~ job[n].late)

\* What a responsive node reports of a user who is not excluded reaches the log
\* queue, after failed calls and late rounds too.
SightingsArrive ==
    \A t \in Tuples \ Excluded, v \in 1..MaxSeen :
        Responsive(NodeOf[t]) =>
            (seen[t] = v ~> sent[t] >= v \/ ~ Clean(t, {"rejected", "stopped"}))
=============================================================================
