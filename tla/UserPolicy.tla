------------------------------ MODULE UserPolicy ------------------------------
(***************************************************************************)
(* What the observer does about a sighting of a user: the internal-squad   *)
(* exclusion, read through the cached user record, the node observation,   *)
(* the alert behind its cooldown permit and the bounded side-effect queue, *)
(* the disable, and the IP block on the nodes the panel knows.             *)
(*                                                                         *)
(* One poller per node enqueues sightings; log workers process them.  Both *)
(* ask the same excluder.  Every Redis or panel call is a step of its own. *)
(* Scores are not computed here: the decision is any of none, warn, block. *)
(* The window of recent addresses has no inner structure: it is the set of *)
(* a user's addresses, whatever their ASN.                                 *)
(***************************************************************************)
EXTENDS Naturals, Sequences, FiniteSets

CONSTANTS
    Users,         \* internal ids
    IPs,           \* source addresses
    Nodes,         \* nodes, each polled by a goroutine of that name
    Workers,       \* log workers
    ExcludedIPs,   \* addresses of EXCLUDED_IPS
    Reports,       \* what the panel may report: a user at an address on a node
    None,          \* user, address and node of an idle goroutine
    ChannelCap,    \* capacity of logChannel
    SideCap,       \* capacity of sideEffectChannel
    MaxSightings,  \* bound: sightings reported by the panel
    MaxMoves,      \* bound: users moved into or out of the excluded squad
    MaxFaults      \* bound: failed calls and keys that expire

ASSUME UserPolicyAssumption ==
    /\ None \notin Users \cup IPs \cup Nodes
    /\ ExcludedIPs \subseteq IPs
    /\ Reports \subseteq [user : Users, ip : IPs, node : Nodes]
    /\ Nodes \cap Workers = {}
    /\ ChannelCap \in Nat \ {0}
    /\ SideCap \in Nat \ {0}
    /\ MaxSightings \in Nat
    /\ MaxMoves \in Nat
    /\ MaxFaults \in Nat

VARIABLES
    member,     \* users the panel has in an excluded squad
    userinfo,   \* rw:userinfo:{id}: whether the cached squads exclude the user
    channel,    \* logChannel
    caller,     \* position of a poller or worker
    nodes,      \* rw:obs:nodes:{user}:{ip}
    window,     \* addresses of the user's hot ASN window
    permit,     \* alert_sent:{user}
    side,       \* sideEffectChannel: alerts waiting
    clears,     \* pending time.AfterFunc of scheduleASNClear
    blocked,    \* node plugin: addresses blocked on a node
    disabled,   \* users DisableTempByInternalID succeeded for
    up,         \* the service context is not cancelled
    sightings, moves, faults,
    history     \* what happened, see History

vars == <<member, userinfo, channel, caller, nodes, window, permit, side, clears,
          blocked, disabled, up, sightings, moves, faults, history>>

redis == <<userinfo, nodes, window, permit>>
panel == <<member, blocked, disabled>>
queues == <<channel, side, clears>>
bounds == <<sightings, moves, faults>>
-----------------------------------------------------------------------------
Callers == Nodes \cup Workers
Sightings == [user : Users, ip : IPs, node : Nodes]

\* resolved: users ResolveUser stored a record of; failed: users whose exclusion
\* check met a failed call; moved: users whose squads changed; seen: what the
\* panel reported; alerts: alerts queued since the permit was set; unpermitted:
\* users alerted after a failed SetNX; lost: alerts of this permit nobody will see.
History ==
    [resolved : SUBSET Users, failed : SUBSET Users, moved : SUBSET Users,
     seen : SUBSET Sightings, alerts : [Users -> Nat],
     unpermitted : SUBSET Users, lost : SUBSET Users]

Pcs == {"idle", "resolve", "check", "fetch", "store", "enqueue", "record", "window",
        "permit", "alert", "disable", "collect", "nodes", "block"}

Idle == [pc |-> "idle", user |-> None, ip |-> None, node |-> None,
         excluded |-> FALSE, block |-> FALSE, todo |-> {}, ips |-> {}, on |-> {}]

Positions ==
    [pc : Pcs, user : Users \cup {None}, ip : IPs \cup {None}, node : Nodes \cup {None},
     excluded : BOOLEAN, block : BOOLEAN,
     todo : SUBSET IPs, ips : SUBSET IPs, on : SUBSET Nodes]

TypeOK ==
    /\ member \subseteq Users
    /\ userinfo \in [Users -> {"none", "excluded", "plain"}]
    /\ channel \in Seq(Sightings) /\ Len(channel) <= ChannelCap
    /\ caller \in [Callers -> Positions]
    /\ nodes \in [Users \X IPs -> SUBSET Nodes]
    /\ window \in [Users -> SUBSET IPs]
    /\ permit \subseteq Users
    /\ side \in Seq(Users) /\ Len(side) <= SideCap
    /\ clears \in [Users -> Nat]
    /\ blocked \subseteq Users \X IPs \X Nodes
    /\ disabled \subseteq Users
    /\ up \in BOOLEAN
    /\ sightings \in 0..MaxSightings
    /\ moves \in 0..MaxMoves
    /\ faults \in 0..MaxFaults
    /\ history \in History

\* The squads of the users are any; Redis is empty.
Init ==
    /\ member \in SUBSET Users
    /\ userinfo = [u \in Users |-> "none"]
    /\ channel = <<>>
    /\ caller = [c \in Callers |-> Idle]
    /\ nodes = [p \in Users \X IPs |-> {}]
    /\ window = [u \in Users |-> {}]
    /\ permit = {}
    /\ side = <<>>
    /\ clears = [u \in Users |-> 0]
    /\ blocked = {}
    /\ disabled = {}
    /\ up = TRUE
    /\ sightings = 0 /\ moves = 0 /\ faults = 0
    /\ history = [resolved |-> {}, failed |-> {}, moved |-> {}, seen |-> {},
                  alerts |-> [u \in Users |-> 0], unpermitted |-> {}, lost |-> {}]
-----------------------------------------------------------------------------
Fault ==
    /\ faults < MaxFaults
    /\ faults' = faults + 1
    /\ UNCHANGED <<sightings, moves>>

NoFault == UNCHANGED bounds

Goto(c, pc) == caller' = [caller EXCEPT ![c].pc = pc]
Leave(c) == caller' = [caller EXCEPT ![c] = Idle]

\* Mutant of Room: one element too many.
RoomLate(queue, cap) == Len(queue) <= cap

\* A send to a bounded channel with a default case.
Room(queue, cap) == Len(queue) < cap

\* history.f gains u.
Note(f, u) == history' = [history EXCEPT ![f] = @ \cup {u}]
-----------------------------------------------------------------------------
(* Panel ingest: enqueueObservations of one sighting *)

\* The panel names the user by internal id or by another identifier, which
\* resolveInternalID asks the panel about.
Sight(n, u, i) ==
    /\ up
    /\ caller[n].pc = "idle"
    /\ sightings < MaxSightings
    /\ [user |-> u, ip |-> i, node |-> n] \in Reports
    /\ sightings' = sightings + 1
    /\ \E pc \in {"check", "resolve"} :
           caller' = [caller EXCEPT ![n] = [Idle EXCEPT !.pc = pc, !.user = u,
                                                        !.ip = i, !.node = n]]
    /\ history' = [history EXCEPT !.seen = @ \cup {[user |-> u, ip |-> i, node |-> n]}]
    /\ UNCHANGED <<redis, panel, queues, up, moves, faults>>

\* ResolveUser: the answer of the resolve route carries no squads, and
\* setCachedUserInfo stores it over the record of the user.
ResolveUser(n) ==
    LET u == caller[n].user IN
    /\ caller[n].pc = "resolve"
    /\ \/ /\ userinfo' = [userinfo EXCEPT ![u] = "plain"]
          /\ Note("resolved", u)
          /\ Goto(n, "check")
          /\ NoFault
       \/ /\ Fault                     \* the record is not stored
          /\ Goto(n, "check")
          /\ UNCHANGED <<userinfo, history>>
       \/ /\ Fault                     \* the panel does not answer
          /\ Leave(n)
          /\ UNCHANGED <<userinfo, history>>
    /\ UNCHANGED <<nodes, window, permit, panel, queues, up>>

\* EnqueueEntries: a full or closed channel drops the entry.
EnqueueEntry(n) ==
    /\ caller[n].pc = "enqueue"
    /\ Leave(n)
    /\ channel' = IF up /\ Room(channel, ChannelCap)
                  THEN Append(channel, [user |-> caller[n].user, ip |-> caller[n].ip,
                                        node |-> n])
                  ELSE channel
    /\ UNCHANGED <<redis, panel, side, clears, up, bounds, history>>
-----------------------------------------------------------------------------
(* Excluder.IsExcludedByInternalID, the same for pollers and workers *)

After(c) == IF c \in Nodes THEN "enqueue" ELSE "record"

Decide(c, excluded) == IF excluded THEN Leave(c) ELSE Goto(c, After(c))

\* GetUserByInternalID: a cached record is the answer.
CheckCache(c) ==
    LET found == userinfo[caller[c].user] IN
    /\ caller[c].pc = "check"
    /\ \/ /\ found # "none"
          /\ Decide(c, found = "excluded")
          /\ NoFault
       \/ /\ found = "none"
          /\ Goto(c, "fetch")
          /\ NoFault
       \/ /\ found # "none"
          /\ Fault
          /\ Goto(c, "fetch")
    /\ UNCHANGED <<redis, panel, queues, up, history>>

\* The panel is asked; an error counts as not excluded.
FetchUser(c) ==
    LET u == caller[c].user IN
    /\ caller[c].pc = "fetch"
    /\ \/ /\ caller' = [caller EXCEPT ![c].pc = "store", ![c].excluded = u \in member]
          /\ NoFault
          /\ UNCHANGED history
       \/ /\ Fault
          /\ Decide(c, FALSE)
          /\ Note("failed", u)
    /\ UNCHANGED <<redis, panel, queues, up>>

\* Mutant of Record: the squads are not part of the stored record.
RecordPlain(excluded) == "plain"

Record(excluded) == IF excluded THEN "excluded" ELSE "plain"

\* setCachedUserInfo ignores its error.
StoreUser(c) ==
    LET u == caller[c].user IN
    /\ caller[c].pc = "store"
    /\ Decide(c, caller[c].excluded)
    /\ \/ /\ userinfo' = [userinfo EXCEPT ![u] = Record(caller[c].excluded)]
          /\ NoFault
       \/ /\ Fault
          /\ UNCHANGED userinfo
    /\ UNCHANGED <<nodes, window, permit, panel, queues, up, history>>
-----------------------------------------------------------------------------
(* LogProcessor.processSingleEntry *)

TakeEntry(w) ==
    /\ caller[w].pc = "idle"
    /\ channel # <<>>
    /\ channel' = Tail(channel)
    /\ LET e == Head(channel) IN
       caller' = [caller EXCEPT ![w] = [Idle EXCEPT !.pc = "check", !.user = e.user,
                                                    !.ip = e.ip, !.node = e.node]]
    /\ UNCHANGED <<redis, panel, side, clears, up, bounds, history>>

\* RecordNodeObservation; its error is logged.
RecordNode(w) ==
    LET e == caller[w] IN
    /\ e.pc = "record"
    /\ Goto(w, "window")
    /\ \/ /\ nodes' = [nodes EXCEPT ![<<e.user, e.ip>>] = @ \cup {e.node}]
          /\ NoFault
       \/ /\ Fault
          /\ UNCHANGED nodes
    /\ UNCHANGED <<userinfo, window, permit, panel, queues, up, history>>

\* AddIPToASNMapping, CheckAndAddASN and the score.  An error ends the entry; so
\* does a known ASN or a harmless score.
Score(w) ==
    LET e == caller[w] IN
    /\ e.pc = "window"
    /\ \/ /\ window' = [window EXCEPT ![e.user] = @ \cup {e.ip}]
          /\ NoFault
          /\ \/ Leave(w)
             \/ \E block \in BOOLEAN :
                    caller' = [caller EXCEPT ![w].pc = "permit", ![w].block = block]
       \/ /\ Fault
          /\ Leave(w)
          /\ UNCHANGED window
    /\ UNCHANGED <<userinfo, nodes, permit, panel, queues, up, history>>
-----------------------------------------------------------------------------
(* maybeQueueScoringAlert and the side-effect pool *)

\* What follows the alert: enforcement, if the action asks for it.
AfterAlert(w) == IF caller[w].block THEN Goto(w, "disable") ELSE Leave(w)

\* Mutant of AcquirePermit: SET, which an existing key does not refuse.
AcquirePermitSet(w) ==
    LET u == caller[w].user IN
    /\ caller[w].pc = "permit"
    /\ permit' = permit \cup {u}
    /\ Goto(w, "alert")
    /\ UNCHANGED <<userinfo, nodes, window, panel, queues, up, bounds, history>>

\* Mutant of AcquirePermit: a user about to be disabled takes the permit and
\* is not alerted about.
AcquirePermitOnly(w) ==
    LET u == caller[w].user IN
    /\ caller[w].pc = "permit"
    /\ permit' = permit \cup {u}
    /\ IF caller[w].block \/ u \in permit THEN AfterAlert(w) ELSE Goto(w, "alert")
    /\ UNCHANGED <<userinfo, nodes, window, panel, queues, up, bounds, history>>

\* AcquireAlertPermit: SetNX; an error, which may be a lost answer, does not keep
\* the alert back.
AcquirePermit(w) ==
    LET u == caller[w].user IN
    /\ caller[w].pc = "permit"
    /\ \/ /\ u \notin permit
          /\ permit' = permit \cup {u}
          /\ Goto(w, "alert")
          /\ NoFault
          /\ UNCHANGED history
       \/ /\ u \in permit
          /\ AfterAlert(w)
          /\ NoFault
          /\ UNCHANGED <<permit, history>>
       \/ /\ Fault
          /\ Goto(w, "alert")
          /\ Note("unpermitted", u)
          /\ permit' \in {permit, permit \cup {u}}
    /\ UNCHANGED <<userinfo, nodes, window, panel, queues, up>>

\* enqueueSideEffectTask: a full queue, or one the shutdown closed, drops it.
QueueAlert(w) ==
    LET u == caller[w].user IN
    /\ caller[w].pc = "alert"
    /\ AfterAlert(w)
    /\ \/ /\ up /\ Room(side, SideCap)
          /\ side' = Append(side, u)
          /\ history' = [history EXCEPT !.alerts[u] = @ + 1]
       \/ /\ ~ up \/ ~ Room(side, SideCap)
          /\ Note("lost", u)
          /\ UNCHANGED side
    /\ UNCHANGED <<redis, panel, channel, clears, up, bounds>>

\* SendAlert; after the shutdown the pool drains its queue without sending.
SendAlert ==
    /\ side # <<>>
    /\ side' = Tail(side)
    /\ \/ up /\ NoFault /\ UNCHANGED history
       \/ up /\ Fault /\ Note("lost", Head(side))
       \/ ~ up /\ NoFault /\ Note("lost", Head(side))
    /\ UNCHANGED <<redis, panel, channel, clears, caller, up>>
-----------------------------------------------------------------------------
(* applyBlockingEnforcement *)

Disable(w) ==
    /\ caller[w].pc = "disable"
    /\ \/ /\ disabled' = disabled \cup {caller[w].user}
          /\ Goto(w, "collect")
          /\ NoFault
       \/ /\ Fault
          /\ Leave(w)
          /\ UNCHANGED disabled
    /\ UNCHANGED <<redis, member, blocked, queues, up, history>>

\* scheduleASNClear, the last step of an enforcement.
ScheduleClear(w) ==
    /\ clears' = [clears EXCEPT ![caller[w].user] = @ + 1]
    /\ Leave(w)

\* filterExcludedIPs
Filtered(ips) == ips \ ExcludedIPs

\* collectIPsForASNBlock: the current address and those of the window that
\* could be read.
CollectIPs(w) ==
    LET e == caller[w]
        Go(ips) == IF Filtered(ips) = {} THEN ScheduleClear(w) ELSE
                      /\ caller' = [caller EXCEPT ![w].pc = "nodes", ![w].todo = Filtered(ips)]
                      /\ UNCHANGED clears IN
    /\ e.pc = "collect"
    /\ \/ Go({e.ip} \cup window[e.user]) /\ NoFault
       \/ Go({e.ip}) /\ Fault
    /\ UNCHANGED <<redis, panel, channel, side, up, history>>

\* Mutant of NodesOf: the nodes of the address, whoever was seen there.
NodesOfAnyone(w, i) ==
    LET e == caller[w]
        on == UNION {nodes[<<u, i>>] : u \in Users} IN
    /\ e.pc = "nodes"
    /\ i \in e.todo
    /\ caller' = [caller EXCEPT ![w].todo = @ \ {i},
                              ![w].ips = IF on = {} THEN @ ELSE @ \cup {i},
                              ![w].on = @ \cup on]
    /\ UNCHANGED <<redis, panel, queues, up, bounds, history>>

\* BlockUserIPs asks for the nodes of one address after the other; an error
\* gives up on all of them.
NodesOf(w, i) ==
    LET e == caller[w]
        on == nodes[<<e.user, i>>] IN
    /\ e.pc = "nodes"
    /\ i \in e.todo
    /\ \/ /\ caller' = [caller EXCEPT ![w].todo = @ \ {i},
                              ![w].ips = IF on = {} THEN @ ELSE @ \cup {i},
                              ![w].on = @ \cup on]
          /\ NoFault
          /\ UNCHANGED clears
       \/ /\ Fault
          /\ ScheduleClear(w)
    /\ UNCHANGED <<redis, panel, channel, side, up, history>>

\* ExecuteTemporaryIPBlock: one command for all addresses and all nodes.
BlockIPs(w) ==
    LET e == caller[w] IN
    /\ e.pc = "nodes" /\ e.todo = {}
    /\ ScheduleClear(w)
    /\ \/ /\ blocked' = blocked \cup ({e.user} \X e.ips \X e.on)
          /\ NoFault
       \/ /\ Fault
          /\ UNCHANGED blocked
    /\ UNCHANGED <<redis, member, disabled, channel, side, up, history>>

\* ... and its timer; a shutdown cancels it.
ClearWindow(u) ==
    /\ clears[u] > 0
    /\ clears' = [clears EXCEPT ![u] = @ - 1]
    /\ window' = IF up THEN [window EXCEPT ![u] = {}] ELSE window
    /\ UNCHANGED <<userinfo, nodes, permit, panel, channel, side, caller, up, bounds, history>>
-----------------------------------------------------------------------------
(* The panel's administrator, Redis and the process *)

MoveUser(u) ==
    /\ moves < MaxMoves
    /\ moves' = moves + 1
    /\ member' = IF u \in member THEN member \ {u} ELSE member \cup {u}
    /\ Note("moved", u)
    /\ UNCHANGED <<redis, blocked, disabled, queues, caller, up, sightings, faults>>

ExpireUser(u) ==
    /\ userinfo[u] # "none"
    /\ Fault
    /\ userinfo' = [userinfo EXCEPT ![u] = "none"]
    /\ UNCHANGED <<nodes, window, permit, panel, queues, caller, up, history>>

\* The cooldown is over: the next alert is a new one.  It lasts longer than the
\* local steps between SetNX and the queue.
ExpirePermit(u) ==
    /\ u \in permit
    /\ \A w \in Workers : caller[w].user = u => caller[w].pc # "alert"
    /\ Fault
    /\ permit' = permit \ {u}
    /\ history' = [history EXCEPT !.alerts[u] = 0, !.lost = @ \ {u},
                                  !.unpermitted = @ \ {u}]
    /\ UNCHANGED <<userinfo, nodes, window, panel, queues, caller, up>>

Cancel ==
    /\ up
    /\ up' = FALSE
    /\ UNCHANGED <<redis, panel, queues, caller, bounds, history>>

Next ==
    \/ \E n \in Nodes : \/ \E u \in Users, i \in IPs : Sight(n, u, i)
                        \/ ResolveUser(n)
                        \/ EnqueueEntry(n)
    \/ \E c \in Callers : CheckCache(c) \/ FetchUser(c) \/ StoreUser(c)
    \/ \E w \in Workers : \/ TakeEntry(w)
                          \/ RecordNode(w)
                          \/ Score(w)
                          \/ AcquirePermit(w)
                          \/ QueueAlert(w)
                          \/ Disable(w)
                          \/ CollectIPs(w)
                          \/ \E i \in IPs : NodesOf(w, i)
                          \/ BlockIPs(w)
    \/ SendAlert
    \/ \E u \in Users : ClearWindow(u) \/ MoveUser(u) \/ ExpireUser(u) \/ ExpirePermit(u)
    \/ Cancel

Spec == Init /\ [][Next]_vars
-----------------------------------------------------------------------------
(* Properties *)

\* Positions past the exclusion check of processSingleEntry.
Enforcing(w) == caller[w].pc \in Pcs \ {"idle", "check", "fetch", "store"}

\* README.md:311: users from excluded internal squads are bypassed before
\* scoring, persistence, alerts and enforcement.
ExcludedBypassed == \A w \in Workers : Enforcing(w) => caller[w].user \notin member

\* A worker handles a user of an excluded squad only if a call of the check
\* failed, the squads changed under the cached record, or ResolveUser stored a
\* record without squads (excluder.go:35, client.go:192).
BypassHasCause ==
    \A w \in Workers :
        Enforcing(w) /\ caller[w].user \in member =>
            caller[w].user \in history.resolved \cup history.failed \cup history.moved

\* Workers that race for the permit of one user queue a single alert per
\* cooldown, as long as Redis answers (redis.go:281).
AlertOncePerCooldown ==
    \A u \in Users : u \in permit /\ u \notin history.unpermitted => history.alerts[u] <= 1

\* A cooldown nobody was alerted about has a cause: the alert is on its way, or
\* it was dropped by the queue, the shutdown or the webhook (processor.go:1107).
SilenceHasCause ==
    \A u \in permit :
        \/ history.alerts[u] > 0
        \/ u \in history.lost
        \/ \E w \in Workers : caller[w].user = u /\ caller[w].pc = "alert"

\* A block names an address and a node of the same user, never an excluded
\* address, and only after the user was disabled; the one command for all of
\* them never mixes two users (local_ip_blocker.go:75).
BlockedIsSighted ==
    \A b \in blocked :
        /\ b[1] \in disabled
        /\ b[2] \notin ExcludedIPs
        /\ \E s \in history.seen : s.user = b[1] /\ s.ip = b[2]
        /\ \E s \in history.seen : s.user = b[1] /\ s.node = b[3]

\* local_ip_blocker.go:31: BlockUserIPs blocks IPs on nodes where they were
\* observed.
BlockedWhereSeen ==
    \A b \in blocked : [user |-> b[1], ip |-> b[2], node |-> b[3]] \in history.seen
=============================================================================
