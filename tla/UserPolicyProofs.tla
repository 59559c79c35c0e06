--------------------------- MODULE UserPolicyProofs ---------------------------
(***************************************************************************)
(* Proofs about UserPolicy for every set of users, addresses, nodes and    *)
(* workers, every capacity and every bound.                                *)
(*                                                                         *)
(* None of the invariants is inductive alone.  What a goroutine works on   *)
(* was reported (Reported); a cached record and an answer of the panel     *)
(* that are wrong about a user are excused (CacheFits, AnswerFits); of the *)
(* workers that ask for a user's permit one is alerting at most (Alone);   *)
(* and what is collected for a block was seen of that user (Traced).       *)
(***************************************************************************)
EXTENDS UserPolicy, TLAPS

\* The sighting a busy goroutine works on was reported; a poller works on those
\* of its node.
Reported ==
    /\ \A c \in Callers : caller[c].pc # "idle" =>
           [user |-> caller[c].user, ip |-> caller[c].ip, node |-> caller[c].node]
               \in history.seen
    /\ \A n \in Nodes : caller[n].pc # "idle" => caller[n].node = n
    /\ \A k \in DOMAIN channel : channel[k] \in history.seen

Excused(u) == u \in history.resolved \cup history.failed \cup history.moved

CacheFits == \A u \in member : userinfo[u] = "plain" => Excused(u)

AnswerFits ==
    \A c \in Callers :
        caller[c].pc = "store" /\ ~ caller[c].excluded /\ caller[c].user \in member
            => Excused(caller[c].user)

Alerting(w, u) == caller[w].user = u /\ caller[w].pc = "alert"

\* Of a user whose permit was never taken blindly: one alert is queued, or one
\* worker is about to queue it, while the permit lasts.
Alone ==
    \A u \in Users \ history.unpermitted :
        /\ history.alerts[u] <= 1
        /\ u \notin permit => history.alerts[u] = 0
        /\ \A w \in Workers : Alerting(w, u) =>
               /\ u \in permit
               /\ history.alerts[u] = 0
               /\ \A v \in Workers : Alerting(v, u) => v = w

SeenAt(u, i) == \E s \in history.seen : s.user = u /\ s.ip = i
SeenOn(u, n) == \E s \in history.seen : s.user = u /\ s.node = n

\* What Redis keeps of a user and what a worker collects was seen of the user.
Traced ==
    /\ \A u \in Users : \A i \in window[u] : SeenAt(u, i)
    /\ \A u \in Users, i \in IPs : \A n \in nodes[<<u, i>>] : SeenOn(u, n)
    /\ \A c \in Callers :
           /\ \A i \in caller[c].todo \cup caller[c].ips :
                  i \notin ExcludedIPs /\ SeenAt(caller[c].user, i)
           /\ \A n \in caller[c].on : SeenOn(caller[c].user, n)
           /\ caller[c].pc \in {"collect", "nodes"} => caller[c].user \in disabled

IInv ==
    /\ TypeOK
    /\ Reported
    /\ CacheFits
    /\ AnswerFits
    /\ BypassHasCause
    /\ Alone
    /\ SilenceHasCause
    /\ Traced
    /\ BlockedIsSighted
-----------------------------------------------------------------------------
(* The operators *)

\* The steps of one goroutine, and those that leave all of them alone.
ActorStep(c) ==
    \/ CheckCache(c)
    \/ FetchUser(c)
    \/ StoreUser(c)
    \/ /\ c \in Nodes
       /\ \/ \E u \in Users, i \in IPs : Sight(c, u, i)
          \/ ResolveUser(c)
          \/ EnqueueEntry(c)
    \/ /\ c \in Workers
       /\ \/ TakeEntry(c)
          \/ RecordNode(c)
          \/ Score(c)
          \/ AcquirePermit(c)
          \/ QueueAlert(c)
          \/ Disable(c)
          \/ CollectIPs(c)
          \/ \E i \in IPs : NodesOf(c, i)
          \/ BlockIPs(c)

Environment ==
    \/ SendAlert
    \/ \E u \in Users : ClearWindow(u) \/ MoveUser(u) \/ ExpireUser(u) \/ ExpirePermit(u)
    \/ Cancel

LEMMA NextCases == Next => Environment \/ \E c \in Callers : ActorStep(c)
BY DEF Next, Environment, ActorStep, Callers

LEMMA IdlePosition == Idle \in Positions
BY DEF Idle, Positions, Pcs

\* Goto changes a position and nothing else.
LEMMA GotoOnly ==
    ASSUME TypeOK, NEW c \in Callers, NEW pc \in Pcs, Goto(c, pc)
    PROVE  /\ caller' \in [Callers -> Positions]
           /\ \A d \in Callers \ {c} : caller'[d] = caller[d]
           /\ caller'[c] = [caller[c] EXCEPT !.pc = pc]
<1>1. [caller[c] EXCEPT !.pc = pc] \in Positions BY ZenonT(30) DEF TypeOK, Positions
<1>2. caller' = [caller EXCEPT ![c] = [caller[c] EXCEPT !.pc = pc]] BY DEF Goto
<1> QED BY <1>1, <1>2 DEF TypeOK

\* So does a step that changes one more field.
LEMMA TwoFields ==
    ASSUME TypeOK, NEW c \in Callers, NEW pc \in Pcs, NEW b \in BOOLEAN
    PROVE  /\ [caller EXCEPT ![c].pc = pc, ![c].excluded = b] \in [Callers -> Positions]
           /\ [caller EXCEPT ![c].pc = pc, ![c].block = b] \in [Callers -> Positions]
<1>1. caller \in [Callers -> Positions] /\ caller[c] \in Positions BY DEF TypeOK
<1>2. /\ [caller[c] EXCEPT !.pc = pc, !.excluded = b] \in Positions
      /\ [caller[c] EXCEPT !.pc = pc, !.block = b] \in Positions
  BY <1>1 DEF Positions
<1>3. /\ [caller EXCEPT ![c].pc = pc, ![c].excluded = b]
           = [caller EXCEPT ![c] = [caller[c] EXCEPT !.pc = pc, !.excluded = b]]
      /\ [caller EXCEPT ![c].pc = pc, ![c].block = b]
           = [caller EXCEPT ![c] = [caller[c] EXCEPT !.pc = pc, !.block = b]]
  BY <1>1
<1> QED BY <1>1, <1>2, <1>3

LEMMA LeaveOnly ==
    ASSUME TypeOK, NEW c \in Callers, Leave(c)
    PROVE  /\ caller' \in [Callers -> Positions]
           /\ \A d \in Callers \ {c} : caller'[d] = caller[d]
           /\ caller'[c] = Idle
BY IdlePosition DEF Leave, TypeOK

LEMMA DecideOnly ==
    ASSUME TypeOK, NEW c \in Callers, NEW excluded \in BOOLEAN, Decide(c, excluded)
    PROVE  /\ caller' \in [Callers -> Positions]
           /\ \A d \in Callers \ {c} : caller'[d] = caller[d]
           /\ IF excluded THEN caller'[c] = Idle
              ELSE caller'[c] = [caller[c] EXCEPT !.pc = After(c)]
<1>1. After(c) \in Pcs BY DEF After, Pcs
<1>2. CASE excluded BY <1>2, LeaveOnly DEF Decide
<1>3. CASE ~ excluded BY <1>1, <1>3, GotoOnly DEF Decide
<1> QED BY <1>2, <1>3

\* The goroutine of a step is the only one that moves.
LEMMA OthersStay ==
    ASSUME TypeOK, NEW c \in Callers, ActorStep(c)
    PROVE  \A d \in Callers \ {c} : caller'[d] = caller[d]
<1> USE DEF TypeOK
<1>1. CASE CheckCache(c) BY <1>1 DEF CheckCache, Decide, Goto, Leave
<1>2. CASE FetchUser(c) BY <1>2 DEF FetchUser, Decide, Goto, Leave
<1>3. CASE StoreUser(c) BY <1>3 DEF StoreUser, Decide, Goto, Leave
<1>4. CASE \E u \in Users, i \in IPs : Sight(c, u, i) BY <1>4 DEF Sight
<1>5. CASE ResolveUser(c) BY <1>5 DEF ResolveUser, Goto, Leave
<1>6. CASE EnqueueEntry(c) BY <1>6 DEF EnqueueEntry, Leave
<1>7. CASE TakeEntry(c) BY <1>7 DEF TakeEntry
<1>8. CASE RecordNode(c) BY <1>8 DEF RecordNode, Goto
<1>9. CASE Score(c) BY <1>9 DEF Score, Leave
<1>10. CASE AcquirePermit(c) BY <1>10 DEF AcquirePermit, AfterAlert, Goto, Leave
<1>11. CASE QueueAlert(c) BY <1>11 DEF QueueAlert, AfterAlert, Goto, Leave
<1>12. CASE Disable(c) BY <1>12 DEF Disable, Goto, Leave
<1>13. CASE CollectIPs(c) BY <1>13 DEF CollectIPs, ScheduleClear, Leave
<1>14. CASE \E i \in IPs : NodesOf(c, i) BY <1>14 DEF NodesOf, ScheduleClear, Leave
<1>15. CASE BlockIPs(c) BY <1>15 DEF BlockIPs, ScheduleClear, Leave
<1> QED
  BY <1>1, <1>2, <1>3, <1>4, <1>5, <1>6, <1>7, <1>8, <1>9, <1>10, <1>11, <1>12, <1>13,
     <1>14, <1>15 DEF ActorStep

LEMMA NoteType ==
    ASSUME TypeOK, NEW u \in Users, NEW f \in {"resolved", "failed", "moved", "unpermitted", "lost"},
           Note(f, u)
    PROVE  history' \in History
BY DEF Note, TypeOK, History

\* A busy goroutine works on a sighting.
LEMMA Busy ==
    ASSUME TypeOK, Reported, NEW c \in Callers, caller[c].pc # "idle"
    PROVE  caller[c].user \in Users /\ caller[c].ip \in IPs /\ caller[c].node \in Nodes
<1>1. [user |-> caller[c].user, ip |-> caller[c].ip, node |-> caller[c].node] \in Sightings
  BY DEF Reported, TypeOK, History
<1> QED BY <1>1 DEF Sightings

LEMMA FaultType ==
    ASSUME TypeOK, Fault \/ NoFault
    PROVE  sightings' \in 0..MaxSightings /\ moves' \in 0..MaxMoves /\ faults' \in 0..MaxFaults
BY UserPolicyAssumption DEF TypeOK, Fault, NoFault, bounds
-----------------------------------------------------------------------------
(* Types *)

LEMMA TypeInit == Init => TypeOK
<1> SUFFICES ASSUME Init PROVE TypeOK
  OBVIOUS
<1>1. caller \in [Callers -> Positions] BY IdlePosition DEF Init
<1>2. /\ channel \in Seq(Sightings) /\ Len(channel) <= ChannelCap
      /\ side \in Seq(Users) /\ Len(side) <= SideCap
  BY UserPolicyAssumption DEF Init
<1>3. history \in History BY DEF Init, History
<1>4. /\ userinfo \in [Users -> {"none", "excluded", "plain"}]
      /\ nodes \in [Users \X IPs -> SUBSET Nodes]
      /\ window \in [Users -> SUBSET IPs] /\ clears \in [Users -> Nat]
  BY DEF Init
<1>5. /\ sightings \in 0..MaxSightings /\ moves \in 0..MaxMoves /\ faults \in 0..MaxFaults
  BY UserPolicyAssumption DEF Init
<1>6. /\ member \subseteq Users /\ permit \subseteq Users /\ disabled \subseteq Users
      /\ blocked \subseteq Users \X IPs \X Nodes /\ up \in BOOLEAN
  BY DEF Init
<1> QED BY <1>1, <1>2, <1>3, <1>4, <1>5, <1>6 DEF TypeOK

LEMMA IngestType ==
    ASSUME TypeOK, Reported, NEW c \in Callers,
           \/ CheckCache(c) \/ FetchUser(c) \/ StoreUser(c)
           \/ c \in Nodes /\ (\/ \E u \in Users, i \in IPs : Sight(c, u, i)
                              \/ ResolveUser(c) \/ EnqueueEntry(c))
    PROVE  TypeOK'
<1> DEFINE u == caller[c].user
<1>1. CASE CheckCache(c)
  <2>1. caller' \in [Callers -> Positions]
    BY <1>1, GotoOnly, DecideOnly DEF CheckCache, Pcs
  <2> QED BY <1>1, <2>1, FaultType DEF CheckCache, TypeOK, redis, panel, queues
<1>2. CASE FetchUser(c)
  <2>1. u \in Users BY <1>2, Busy DEF FetchUser
  <2>2. caller' \in [Callers -> Positions]
    <3>1. CASE caller' = [caller EXCEPT ![c].pc = "store", ![c].excluded = u \in member]
      <4>1. (u \in member) \in BOOLEAN OBVIOUS
      <4>2. "store" \in Pcs BY DEF Pcs
      <4>3. \A b \in BOOLEAN :
              [caller EXCEPT ![c].pc = "store", ![c].excluded = b] \in [Callers -> Positions]
        BY <4>2, TwoFields
      <4> QED BY <3>1, <4>1, <4>3
    <3> QED BY <1>2, <3>1, DecideOnly DEF FetchUser
  <2>3. history' \in History BY <1>2, <2>1, NoteType DEF FetchUser, TypeOK
  <2> QED BY <1>2, <2>2, <2>3, FaultType DEF FetchUser, TypeOK, redis, panel, queues
<1>3. CASE StoreUser(c)
  <2>1. u \in Users BY <1>3, Busy DEF StoreUser
  <2>2. caller[c].excluded \in BOOLEAN BY DEF TypeOK, Positions
  <2>3. caller' \in [Callers -> Positions] BY <1>3, <2>2, DecideOnly DEF StoreUser
  <2>4. userinfo' \in [Users -> {"none", "excluded", "plain"}]
    BY <1>3, <2>1 DEF StoreUser, Record, TypeOK
  <2> QED BY <1>3, <2>3, <2>4, FaultType DEF StoreUser, TypeOK, panel, queues
<1>4. ASSUME c \in Nodes, NEW v \in Users, NEW i \in IPs, Sight(c, v, i) PROVE TypeOK'
  <2>1. \A pc \in {"check", "resolve"} :
          [Idle EXCEPT !.pc = pc, !.user = v, !.ip = i, !.node = c] \in Positions
    BY <1>4 DEF Idle, Positions, Pcs
  <2>2. caller' \in [Callers -> Positions] BY <1>4, <2>1 DEF Sight, TypeOK
  <2>3. [user |-> v, ip |-> i, node |-> c] \in Sightings BY <1>4 DEF Sightings
  <2>4. history' \in History BY <1>4, <2>3 DEF Sight, TypeOK, History
  <2>5. sightings' \in 0..MaxSightings
    <3>1. sightings < MaxSightings /\ sightings' = sightings + 1 BY <1>4 DEF Sight
    <3> QED BY <3>1, UserPolicyAssumption DEF TypeOK
  <2> QED BY <1>4, <2>2, <2>4, <2>5 DEF Sight, TypeOK, redis, panel, queues
<1>5. CASE c \in Nodes /\ ResolveUser(c)
  <2>1. u \in Users BY <1>5, Busy DEF ResolveUser
  <2>2. caller' \in [Callers -> Positions]
    BY <1>5, GotoOnly, LeaveOnly DEF ResolveUser, Pcs
  <2>3. history' \in History /\ userinfo' \in [Users -> {"none", "excluded", "plain"}]
    BY <1>5, <2>1, NoteType DEF ResolveUser, TypeOK
  <2> QED BY <1>5, <2>2, <2>3, FaultType DEF ResolveUser, TypeOK, panel, queues
<1>6. CASE c \in Nodes /\ EnqueueEntry(c)
  <2>1. [user |-> u, ip |-> caller[c].ip, node |-> c] \in Sightings
    BY <1>6, Busy DEF EnqueueEntry, Sightings
  <2>2. channel \in Seq(Sightings) /\ Len(channel) <= ChannelCap /\ ChannelCap \in Nat
    BY UserPolicyAssumption DEF TypeOK
  <2>3. channel' \in Seq(Sightings) /\ Len(channel') <= ChannelCap
    BY <1>6, <2>1, <2>2 DEF EnqueueEntry, Room
  <2>4. caller' \in [Callers -> Positions] BY <1>6, LeaveOnly DEF EnqueueEntry
  <2> QED BY <1>6, <2>3, <2>4 DEF EnqueueEntry, TypeOK, redis, panel, bounds
<1> QED BY <1>1, <1>2, <1>3, <1>4, <1>5, <1>6

LEMMA EntryType ==
    ASSUME TypeOK, Reported, NEW w \in Workers,
           \/ TakeEntry(w) \/ RecordNode(w) \/ Score(w) \/ AcquirePermit(w) \/ QueueAlert(w)
    PROVE  TypeOK'
<1> DEFINE e == caller[w]
<1>0. w \in Callers BY DEF Callers
<1>1. CASE TakeEntry(w)
  <2>1. Head(channel) \in Sightings /\ Tail(channel) \in Seq(Sightings)
        /\ Len(Tail(channel)) <= ChannelCap
    <3>1. channel \in Seq(Sightings) /\ channel # <<>> /\ Len(channel) <= ChannelCap
          /\ ChannelCap \in Nat
      BY <1>1, UserPolicyAssumption DEF TakeEntry, TypeOK
    <3>2. Len(Tail(channel)) = Len(channel) - 1 BY <3>1
    <3> QED BY <3>1, <3>2
  <2>2. [Idle EXCEPT !.pc = "check", !.user = Head(channel).user, !.ip = Head(channel).ip,
                     !.node = Head(channel).node] \in Positions
    BY <2>1 DEF Idle, Positions, Pcs, Sightings
  <2>3. caller' \in [Callers -> Positions] BY <1>0, <1>1, <2>2 DEF TakeEntry, TypeOK
  <2> QED BY <1>1, <2>1, <2>3 DEF TakeEntry, TypeOK, redis, panel, bounds
<1>2. CASE RecordNode(w)
  <2>1. e.user \in Users /\ e.ip \in IPs /\ e.node \in Nodes
    BY <1>0, <1>2, Busy DEF RecordNode
  <2>2. nodes' \in [Users \X IPs -> SUBSET Nodes]
    <3>1. nodes[<<e.user, e.ip>>] \cup {e.node} \in SUBSET Nodes BY <2>1 DEF TypeOK
    <3> QED BY <1>2, <3>1 DEF RecordNode, TypeOK
  <2>3. caller' \in [Callers -> Positions] BY <1>0, <1>2, GotoOnly DEF RecordNode, Pcs
  <2> QED BY <1>2, <2>2, <2>3, FaultType DEF RecordNode, TypeOK, panel, queues
<1>3. CASE Score(w)
  <2>1. e.user \in Users /\ e.ip \in IPs BY <1>0, <1>3, Busy DEF Score
  <2>2. window' \in [Users -> SUBSET IPs]
    <3>1. window[e.user] \cup {e.ip} \in SUBSET IPs BY <2>1 DEF TypeOK
    <3>2. CASE window' = [window EXCEPT ![e.user] = @ \cup {e.ip}]
      BY <3>1, <3>2 DEF TypeOK
    <3> QED BY <1>3, <3>2 DEF Score, TypeOK
  <2>3. caller' \in [Callers -> Positions]
    <3>1. ASSUME NEW block \in BOOLEAN,
                 caller' = [caller EXCEPT ![w].pc = "permit", ![w].block = block]
          PROVE  caller' \in [Callers -> Positions]
      BY <1>0, <3>1, TwoFields DEF Pcs
    <3> QED BY <1>0, <1>3, <3>1, LeaveOnly DEF Score
  <2> QED BY <1>3, <2>2, <2>3, FaultType DEF Score, TypeOK, panel, queues
<1>4. CASE AcquirePermit(w)
  <2>1. e.user \in Users BY <1>0, <1>4, Busy DEF AcquirePermit
  <2>2. caller' \in [Callers -> Positions]
    BY <1>0, <1>4, GotoOnly, LeaveOnly DEF AcquirePermit, AfterAlert, Pcs
  <2>3. history' \in History BY <1>4, <2>1, NoteType DEF AcquirePermit, TypeOK
  <2>4. permit' \subseteq Users BY <1>4, <2>1 DEF AcquirePermit, TypeOK
  <2> QED BY <1>4, <2>2, <2>3, <2>4, FaultType DEF AcquirePermit, TypeOK, panel, queues
<1>5. CASE QueueAlert(w)
  <2>1. e.user \in Users BY <1>0, <1>5, Busy DEF QueueAlert
  <2>2. caller' \in [Callers -> Positions]
    BY <1>0, <1>5, GotoOnly, LeaveOnly DEF QueueAlert, AfterAlert, Pcs
  <2>3. side \in Seq(Users) /\ Len(side) <= SideCap /\ SideCap \in Nat
    BY UserPolicyAssumption DEF TypeOK
  <2>4. side' \in Seq(Users) /\ Len(side') <= SideCap
    BY <1>5, <2>1, <2>3 DEF QueueAlert, Room
  <2>5. history' \in History
    <3>1. CASE history' = [history EXCEPT !.alerts[e.user] = @ + 1]
      <4>1. [history.alerts EXCEPT ![e.user] = @ + 1] \in [Users -> Nat]
        BY <2>1 DEF TypeOK, History
      <4> QED BY <3>1, <4>1 DEF TypeOK, History
    <3> QED BY <1>5, <2>1, <3>1, NoteType DEF QueueAlert
  <2> QED BY <1>5, <2>2, <2>4, <2>5 DEF QueueAlert, TypeOK, redis, panel, bounds
<1> QED BY <1>1, <1>2, <1>3, <1>4, <1>5

\* What a worker collects, as records.
SameSighting(w) ==
    /\ caller'[w].user = caller[w].user
    /\ caller'[w].ip = caller[w].ip
    /\ caller'[w].node = caller[w].node

LEMMA CollectOnly ==
    ASSUME TypeOK, NEW w \in Workers, NEW ips \in SUBSET IPs,
           caller' = [caller EXCEPT ![w].pc = "nodes", ![w].todo = ips]
    PROVE  /\ caller' \in [Callers -> Positions]
           /\ caller'[w].todo = ips /\ caller'[w].ips = caller[w].ips
           /\ caller'[w].on = caller[w].on /\ caller'[w].pc = "nodes" /\ SameSighting(w)
<1>1. caller \in [Callers -> Positions] /\ w \in Callers /\ caller[w] \in Positions
  BY DEF TypeOK, Callers
<1>2. [caller[w] EXCEPT !.pc = "nodes", !.todo = ips] \in Positions
  BY <1>1 DEF Positions, Pcs
<1>3. caller' = [caller EXCEPT ![w] = [caller[w] EXCEPT !.pc = "nodes", !.todo = ips]]
  BY <1>1
<1>4. caller'[w] = [caller[w] EXCEPT !.pc = "nodes", !.todo = ips] BY <1>1, <1>3
<1> QED BY <1>1, <1>2, <1>3, <1>4 DEF SameSighting, Positions

LEMMA NodesOnly ==
    ASSUME TypeOK, NEW w \in Workers, NEW todo \in SUBSET IPs, NEW ips \in SUBSET IPs,
           NEW on \in SUBSET Nodes,
           caller' = [caller EXCEPT ![w].todo = todo, ![w].ips = ips, ![w].on = on]
    PROVE  /\ caller' \in [Callers -> Positions]
           /\ caller'[w].todo = todo /\ caller'[w].ips = ips
           /\ caller'[w].on = on /\ caller'[w].pc = caller[w].pc /\ SameSighting(w)
<1>1. caller \in [Callers -> Positions] /\ w \in Callers /\ caller[w] \in Positions
  BY DEF TypeOK, Callers
<1>2. [caller[w] EXCEPT !.todo = todo, !.ips = ips, !.on = on] \in Positions
  BY <1>1 DEF Positions
<1>3. caller' = [caller EXCEPT ![w] =
                    [caller[w] EXCEPT !.todo = todo, !.ips = ips, !.on = on]]
  BY <1>1
<1>4. caller'[w] = [caller[w] EXCEPT !.todo = todo, !.ips = ips, !.on = on] BY <1>1, <1>3
<1> QED BY <1>1, <1>2, <1>3, <1>4 DEF SameSighting, Positions

\* An enforcement ends with one more pending clear.
LEMMA ClearsType ==
    ASSUME TypeOK, NEW w \in Workers, caller[w].user \in Users, ScheduleClear(w)
    PROVE  clears' \in [Users -> Nat]
BY DEF ScheduleClear, TypeOK

\* CollectIPs takes the current address or those of the window too, or ends the
\* enforcement if there is none.
LEMMA Collected ==
    ASSUME TypeOK, Reported, NEW w \in Workers, CollectIPs(w)
    PROVE  \/ ScheduleClear(w)
           \/ \E ips \in SUBSET IPs :
                 /\ ips \subseteq ({caller[w].ip} \cup window[caller[w].user]) \ ExcludedIPs
                 /\ caller' = [caller EXCEPT ![w].pc = "nodes", ![w].todo = ips]
                 /\ UNCHANGED clears
<1>1. caller[w].user \in Users /\ caller[w].ip \in IPs
  BY Busy DEF CollectIPs, Callers
<1>2. /\ Filtered({caller[w].ip} \cup window[caller[w].user]) \in SUBSET IPs
      /\ Filtered({caller[w].ip}) \in SUBSET IPs
  BY <1>1 DEF Filtered, TypeOK
<1> QED BY <1>2 DEF CollectIPs, Filtered

\* NodesOf gives up or moves an address from todo to ips, with its nodes.
LEMMA NodesRead ==
    ASSUME TypeOK, Reported, NEW w \in Workers, NEW i \in IPs, NodesOf(w, i)
    PROVE  /\ caller' \in [Callers -> Positions]
           /\ \/ ScheduleClear(w)
              \/ /\ UNCHANGED clears
                 /\ caller'[w].todo = caller[w].todo \ {i}
                 /\ caller'[w].ips \subseteq caller[w].ips \cup {i}
                 /\ caller'[w].on = caller[w].on \cup nodes[<<caller[w].user, i>>]
                 /\ caller'[w].pc = caller[w].pc
                 /\ SameSighting(w)
<1> DEFINE e == caller[w]
           on == nodes[<<e.user, i>>]
<1>0. w \in Callers /\ e \in Positions BY DEF Callers, TypeOK
<1>1. e.user \in Users BY <1>0, Busy DEF NodesOf
<1>2. on \in SUBSET Nodes BY <1>1 DEF TypeOK
<1>3. /\ e.todo \ {i} \in SUBSET IPs /\ e.on \cup on \in SUBSET Nodes
      /\ e.ips \in SUBSET IPs /\ e.ips \cup {i} \in SUBSET IPs
  BY <1>0, <1>2 DEF Positions
<1>4. CASE ScheduleClear(w) BY <1>0, <1>4, LeaveOnly DEF ScheduleClear
<1>5. CASE /\ caller' = [caller EXCEPT ![w].todo = @ \ {i},
                    ![w].ips = IF on = {} THEN @ ELSE @ \cup {i}, ![w].on = @ \cup on]
           /\ UNCHANGED clears
  <2> DEFINE ips == IF on = {} THEN e.ips ELSE e.ips \cup {i}
  <2>1. ips \in SUBSET IPs /\ ips \in {e.ips, e.ips \cup {i}} BY <1>3
  <2>2. caller' = [caller EXCEPT ![w].todo = e.todo \ {i}, ![w].ips = ips,
                                 ![w].on = e.on \cup on]
    BY <1>0, <1>5 DEF Positions, TypeOK
  <2> HIDE DEF ips
  <2>3. /\ caller' \in [Callers -> Positions]
        /\ caller'[w].todo = e.todo \ {i} /\ caller'[w].ips = ips
        /\ caller'[w].on = e.on \cup on /\ caller'[w].pc = e.pc /\ SameSighting(w)
    BY <1>3, <2>1, <2>2, NodesOnly
  <2> QED BY <1>5, <2>1, <2>3
<1> QED BY <1>4, <1>5 DEF NodesOf

LEMMA EnforceType ==
    ASSUME TypeOK, Reported, NEW w \in Workers,
           \/ Disable(w) \/ CollectIPs(w) \/ (\E i \in IPs : NodesOf(w, i))
           \/ BlockIPs(w)
    PROVE  TypeOK'
<1> DEFINE e == caller[w]
<1>0. w \in Callers /\ e \in Positions BY DEF Callers, TypeOK
<1>1. CASE Disable(w)
  <2>1. e.user \in Users BY <1>0, <1>1, Busy DEF Disable
  <2>2. caller' \in [Callers -> Positions]
    BY <1>0, <1>1, GotoOnly, LeaveOnly DEF Disable, Pcs
  <2>3. disabled' \subseteq Users BY <1>1, <2>1 DEF Disable, TypeOK
  <2> QED BY <1>1, <2>2, <2>3, FaultType DEF Disable, TypeOK, redis, queues
<1>2. CASE CollectIPs(w)
  <2>1. e.user \in Users BY <1>0, <1>2, Busy DEF CollectIPs
  <2>2. CASE ScheduleClear(w)
    <3>1. caller' \in [Callers -> Positions] BY <1>0, <2>2, LeaveOnly DEF ScheduleClear
    <3>2. clears' \in [Users -> Nat] BY <2>1, <2>2, ClearsType
    <3> QED BY <1>2, <3>1, <3>2, FaultType DEF CollectIPs, TypeOK, redis, panel
  <2>3. CASE \E ips \in SUBSET IPs :
                /\ caller' = [caller EXCEPT ![w].pc = "nodes", ![w].todo = ips]
                /\ UNCHANGED clears
    <3>1. caller' \in [Callers -> Positions] BY <2>3, CollectOnly
    <3> QED BY <1>2, <2>3, <3>1, FaultType DEF CollectIPs, TypeOK, redis, panel
  <2> QED BY <1>2, <2>2, <2>3, Collected
<1>3. ASSUME NEW i \in IPs, NodesOf(w, i) PROVE TypeOK'
  <2>1. e.user \in Users BY <1>0, <1>3, Busy DEF NodesOf
  <2>2. caller' \in [Callers -> Positions] BY <1>3, NodesRead
  <2>3. clears' \in [Users -> Nat]
    BY <1>3, <2>1, NodesRead, ClearsType DEF TypeOK
  <2> QED BY <1>3, <2>2, <2>3, FaultType DEF NodesOf, TypeOK, redis, panel
<1>4. CASE BlockIPs(w)
  <2>1. e.user \in Users BY <1>0, <1>4, Busy DEF BlockIPs
  <2>2. {e.user} \X e.ips \X e.on \subseteq Users \X IPs \X Nodes
    BY <1>0, <2>1 DEF Positions
  <2>3. blocked' \subseteq Users \X IPs \X Nodes
    <3>1. blocked' = blocked \/ blocked' = blocked \cup ({e.user} \X e.ips \X e.on)
      BY <1>4 DEF BlockIPs
    <3>2. blocked \subseteq Users \X IPs \X Nodes BY DEF TypeOK
    <3> QED BY <2>2, <3>1, <3>2
  <2>4. caller' \in [Callers -> Positions]
    BY <1>0, <1>4, LeaveOnly DEF BlockIPs, ScheduleClear
  <2>5. clears' \in [Users -> Nat] BY <1>4, <2>1, ClearsType DEF BlockIPs
  <2> QED BY <1>4, <2>3, <2>4, <2>5, FaultType DEF BlockIPs, TypeOK, redis
<1> QED BY <1>1, <1>2, <1>3, <1>4

LEMMA EnvironmentType ==
    ASSUME TypeOK, Environment
    PROVE  TypeOK'
<1>1. CASE SendAlert
  <2>1. Head(side) \in Users /\ Tail(side) \in Seq(Users) /\ Len(Tail(side)) <= SideCap
    <3>1. side \in Seq(Users) /\ side # <<>> /\ Len(side) <= SideCap /\ SideCap \in Nat
      BY <1>1, UserPolicyAssumption DEF SendAlert, TypeOK
    <3>2. Len(Tail(side)) = Len(side) - 1 BY <3>1
    <3> QED BY <3>1, <3>2
  <2>2. history' \in History BY <1>1, <2>1, NoteType DEF SendAlert, TypeOK
  <2> QED BY <1>1, <2>1, <2>2, FaultType DEF SendAlert, TypeOK, redis, panel
<1>2. ASSUME NEW u \in Users, ClearWindow(u) PROVE TypeOK'
  <2>1. clears' \in [Users -> Nat] /\ window' \in [Users -> SUBSET IPs]
    BY <1>2 DEF ClearWindow, TypeOK
  <2> QED BY <1>2, <2>1 DEF ClearWindow, TypeOK, panel, bounds
<1>3. ASSUME NEW u \in Users, MoveUser(u) PROVE TypeOK'
  <2>1. member' \subseteq Users BY <1>3 DEF MoveUser, TypeOK
  <2>2. history' \in History BY <1>3, NoteType DEF MoveUser
  <2>3. moves' \in 0..MaxMoves
    <3>1. moves < MaxMoves /\ moves' = moves + 1 BY <1>3 DEF MoveUser
    <3> QED BY <3>1, UserPolicyAssumption DEF TypeOK
  <2> QED BY <1>3, <2>1, <2>2, <2>3 DEF MoveUser, TypeOK, redis, queues
<1>4. ASSUME NEW u \in Users, ExpireUser(u) PROVE TypeOK'
  <2>1. userinfo' \in [Users -> {"none", "excluded", "plain"}] BY <1>4 DEF ExpireUser, TypeOK
  <2> QED BY <1>4, <2>1, FaultType DEF ExpireUser, TypeOK, panel, queues
<1>5. ASSUME NEW u \in Users, ExpirePermit(u) PROVE TypeOK'
  <2>1. [history.alerts EXCEPT ![u] = 0] \in [Users -> Nat] BY DEF TypeOK, History
  <2>2. history' \in History BY <1>5, <2>1 DEF ExpirePermit, TypeOK, History
  <2>3. permit' \subseteq Users BY <1>5 DEF ExpirePermit, TypeOK
  <2> QED BY <1>5, <2>2, <2>3, FaultType DEF ExpirePermit, TypeOK, panel, queues
<1>6. CASE Cancel BY <1>6 DEF Cancel, TypeOK, redis, panel, queues, bounds
<1> QED BY <1>1, <1>2, <1>3, <1>4, <1>5, <1>6 DEF Environment

LEMMA TypeStep == TypeOK /\ Reported /\ [Next]_vars => TypeOK'
<1> SUFFICES ASSUME TypeOK, Reported, [Next]_vars PROVE TypeOK'
  OBVIOUS
<1>1. ASSUME NEW c \in Callers, ActorStep(c) PROVE TypeOK'
  BY <1>1, IngestType, EntryType, EnforceType DEF ActorStep
<1>2. CASE UNCHANGED vars
  BY <1>2 DEF vars, TypeOK
<1> QED BY <1>1, <1>2, NextCases, EnvironmentType
-----------------------------------------------------------------------------
(* What goroutines work on *)

\* What happened stays on record.
LEMMA HistoryGrows ==
    ASSUME TypeOK, [Next]_vars
    PROVE  /\ history.seen \subseteq history'.seen
           /\ history.resolved \subseteq history'.resolved
           /\ history.failed \subseteq history'.failed
           /\ history.moved \subseteq history'.moved
<1> USE DEF TypeOK, History
<1>1. ASSUME NEW f, NEW u, Note(f, u)
      PROVE  /\ history.seen \subseteq history'.seen
             /\ history.resolved \subseteq history'.resolved
             /\ history.failed \subseteq history'.failed
             /\ history.moved \subseteq history'.moved
  BY <1>1 DEF Note
<1>2. CASE UNCHANGED history BY <1>2
<1>3. ASSUME NEW n, NEW u, NEW i, Sight(n, u, i)
      PROVE  /\ history.seen \subseteq history'.seen
             /\ UNCHANGED <<history.resolved, history.failed, history.moved>>
  BY <1>3 DEF Sight
<1>4. ASSUME NEW w, QueueAlert(w)
      PROVE  UNCHANGED <<history.seen, history.resolved, history.failed, history.moved>>
  BY <1>4 DEF QueueAlert, Note
<1>5. ASSUME NEW u, ExpirePermit(u)
      PROVE  UNCHANGED <<history.seen, history.resolved, history.failed, history.moved>>
  BY <1>5 DEF ExpirePermit
<1>6. ASSUME NEW c \in Callers, ActorStep(c), ~ QueueAlert(c),
             ~ \E u \in Users, i \in IPs : Sight(c, u, i)
      PROVE  UNCHANGED history \/ \E f, u : Note(f, u)
  BY <1>6 DEF ActorStep, CheckCache, FetchUser, StoreUser, ResolveUser, EnqueueEntry,
     TakeEntry, RecordNode, Score, AcquirePermit, Disable, CollectIPs, NodesOf, BlockIPs
<1>7. ASSUME Environment, ~ \E u \in Users : ExpirePermit(u)
      PROVE  UNCHANGED history \/ \E f, u : Note(f, u)
  BY <1>7 DEF Environment, SendAlert, ClearWindow, MoveUser, ExpireUser, Cancel
<1>8. CASE UNCHANGED vars BY <1>2, <1>8 DEF vars
<1> QED
  BY <1>1, <1>2, <1>3, <1>4, <1>5, <1>6, <1>7, <1>8, NextCases

\* Only a sighting or an entry of the channel gives a goroutine something to do.
Starts(c) ==
    \/ c \in Workers /\ TakeEntry(c)
    \/ c \in Nodes /\ \E u \in Users, i \in IPs : Sight(c, u, i)

LEMMA SameWork ==
    ASSUME TypeOK, Reported, NEW c \in Callers, ActorStep(c), ~ Starts(c)
    PROVE  \/ caller'[c] = Idle
           \/ /\ caller[c].pc # "idle"
              /\ caller'[c].user = caller[c].user
              /\ caller'[c].ip = caller[c].ip
              /\ caller'[c].node = caller[c].node
<1> DEFINE Same == /\ caller[c].pc # "idle"
                   /\ caller'[c].user = caller[c].user
                   /\ caller'[c].ip = caller[c].ip
                   /\ caller'[c].node = caller[c].node
<1>0. caller \in [Callers -> Positions] /\ caller[c] \in Positions BY DEF TypeOK
<1>1. ASSUME NEW pc \in Pcs, Goto(c, pc), caller[c].pc # "idle" PROVE Same
  BY <1>0, <1>1 DEF Goto, Positions
<1>2. CASE Leave(c) BY <1>2, LeaveOnly
<1>3. ASSUME NEW b, Decide(c, b), caller[c].pc # "idle" PROVE Same \/ caller'[c] = Idle
  BY <1>1, <1>2, <1>3, LeaveOnly DEF Decide, After, Pcs
<1>4. CASE CheckCache(c)
  BY <1>1, <1>3, <1>4 DEF CheckCache, Pcs
<1>5. CASE FetchUser(c)
  <2>1. CASE caller' = [caller EXCEPT ![c].pc = "store",
                                      ![c].excluded = caller[c].user \in member]
    BY <1>0, <1>5, <2>1 DEF FetchUser, Positions
  <2> QED BY <1>3, <1>5, <2>1 DEF FetchUser
<1>6. CASE StoreUser(c) BY <1>3, <1>6 DEF StoreUser
<1>7. CASE ResolveUser(c) BY <1>1, <1>2, <1>7 DEF ResolveUser, Pcs
<1>8. CASE EnqueueEntry(c) BY <1>2, <1>8 DEF EnqueueEntry
<1>9. CASE RecordNode(c) BY <1>1, <1>9 DEF RecordNode, Pcs
<1>10. CASE Score(c)
  <2>1. ASSUME NEW block \in BOOLEAN,
               caller' = [caller EXCEPT ![c].pc = "permit", ![c].block = block]
        PROVE  Same
    BY <1>0, <1>10, <2>1 DEF Score, Positions
  <2> QED BY <1>2, <1>10, <2>1 DEF Score
<1>11. CASE AcquirePermit(c) BY <1>1, <1>2, <1>11 DEF AcquirePermit, AfterAlert, Pcs
<1>12. CASE QueueAlert(c) BY <1>1, <1>2, <1>12 DEF QueueAlert, AfterAlert, Pcs
<1>13. CASE Disable(c) BY <1>1, <1>2, <1>13 DEF Disable, Pcs
<1>14. CASE c \in Workers /\ CollectIPs(c)
  <2>1. CASE ScheduleClear(c) BY <1>2, <2>1 DEF ScheduleClear
  <2>2. CASE \E ips \in SUBSET IPs :
                caller' = [caller EXCEPT ![c].pc = "nodes", ![c].todo = ips]
    BY <1>0, <1>14, <2>2 DEF CollectIPs, Positions
  <2> QED BY <1>14, <2>1, <2>2, Collected
<1>15. ASSUME c \in Workers, NEW i \in IPs, NodesOf(c, i) PROVE Same \/ caller'[c] = Idle
  <2>1. CASE ScheduleClear(c) BY <1>2, <2>1 DEF ScheduleClear
  <2>2. CASE ~ ScheduleClear(c)
    BY <1>15, <2>2, NodesRead DEF NodesOf, SameSighting
  <2> QED BY <2>1, <2>2
<1>16. CASE BlockIPs(c) BY <1>2, <1>16 DEF BlockIPs, ScheduleClear
<1> QED
  BY <1>2, <1>4, <1>5, <1>6, <1>7, <1>8, <1>9, <1>10, <1>11, <1>12, <1>13, <1>14, <1>15,
     <1>16 DEF ActorStep, Starts

\* The environment moves no goroutine.
LEMMA EnvironmentStays ==
    ASSUME Environment \/ UNCHANGED vars
    PROVE  UNCHANGED <<caller, channel>>
BY DEF Environment, SendAlert, ClearWindow, MoveUser, ExpireUser, ExpirePermit, Cancel,
   vars, queues

LEMMA ChannelKeeps ==
    ASSUME TypeOK, NEW c \in Callers, ActorStep(c)
    PROVE  \/ UNCHANGED channel
           \/ channel # <<>> /\ channel' = Tail(channel)
           \/ /\ EnqueueEntry(c) /\ c \in Nodes
              /\ channel' = Append(channel, [user |-> caller[c].user, ip |-> caller[c].ip,
                                             node |-> c])
BY DEF ActorStep, CheckCache, FetchUser, StoreUser, Sight, ResolveUser, EnqueueEntry,
   TakeEntry, RecordNode, Score, AcquirePermit, QueueAlert, Disable, CollectIPs, NodesOf,
   BlockIPs, queues

LEMMA ReportedStep == TypeOK /\ Reported /\ [Next]_vars => Reported'
<1> SUFFICES ASSUME TypeOK, Reported, [Next]_vars PROVE Reported'
  OBVIOUS
<1>0. history.seen \subseteq history'.seen BY HistoryGrows
<1>1. CASE UNCHANGED <<caller, channel>> BY <1>0, <1>1 DEF Reported
<1>2. ASSUME NEW c \in Callers, ActorStep(c) PROVE Reported'
  <2>0. \A d \in Callers \ {c} : caller'[d] = caller[d] BY <1>2, OthersStay
  <2>1. ASSUME NEW k \in DOMAIN channel' PROVE channel'[k] \in history'.seen
    <3>0. channel \in Seq(Sightings) BY DEF TypeOK
    <3>1. CASE UNCHANGED channel BY <1>0, <2>1, <3>1 DEF Reported
    <3>2. CASE channel # <<>> /\ channel' = Tail(channel)
      <4>1. k + 1 \in DOMAIN channel /\ channel'[k] = channel[k + 1]
        BY <2>1, <3>0, <3>2
      <4> QED BY <1>0, <4>1 DEF Reported
    <3>3. CASE /\ EnqueueEntry(c) /\ c \in Nodes
               /\ channel' = Append(channel, [user |-> caller[c].user, ip |-> caller[c].ip,
                                              node |-> c])
      <4>1. [user |-> caller[c].user, ip |-> caller[c].ip, node |-> c] \in history.seen
        BY <3>3 DEF Reported, EnqueueEntry
      <4>2. \/ k \in DOMAIN channel /\ channel'[k] = channel[k]
            \/ channel'[k] = [user |-> caller[c].user, ip |-> caller[c].ip, node |-> c]
        BY <2>1, <3>0, <3>3
      <4> QED BY <1>0, <4>1, <4>2 DEF Reported
    <3> QED BY <1>2, <3>1, <3>2, <3>3, ChannelKeeps
  <2>2. /\ caller'[c].pc # "idle" =>
              [user |-> caller'[c].user, ip |-> caller'[c].ip, node |-> caller'[c].node]
                  \in history'.seen
        /\ c \in Nodes /\ caller'[c].pc # "idle" => caller'[c].node = c
    <3>1. CASE ~ Starts(c)
      BY <1>0, <1>2, <3>1, SameWork DEF Reported, Idle
    <3>2. CASE c \in Workers /\ TakeEntry(c)
      <4>1. caller'[c].user = Head(channel).user /\ caller'[c].ip = Head(channel).ip
            /\ caller'[c].node = Head(channel).node
        BY <3>2 DEF TakeEntry, TypeOK, Idle
      <4>2. Head(channel) \in Sightings /\ Head(channel) \in history.seen
        <5>1. channel \in Seq(Sightings) /\ channel # <<>> BY <3>2 DEF TypeOK, TakeEntry
        <5>2. 1 \in DOMAIN channel /\ Head(channel) = channel[1] BY <5>1
        <5> QED BY <5>1, <5>2 DEF Reported
      <4>3. [user |-> Head(channel).user, ip |-> Head(channel).ip, node |-> Head(channel).node]
              = Head(channel)
        BY <4>2 DEF Sightings
      <4> QED BY <1>0, <3>2, <4>1, <4>2, <4>3, UserPolicyAssumption
    <3>3. ASSUME NEW u \in Users, NEW i \in IPs, Sight(c, u, i), c \in Nodes
          PROVE  /\ caller'[c].user = u /\ caller'[c].ip = i /\ caller'[c].node = c
                 /\ [user |-> u, ip |-> i, node |-> c] \in history'.seen
      BY <3>3 DEF Sight, TypeOK, Idle, History
    <3> QED BY <3>1, <3>2, <3>3 DEF Starts
  <2> QED BY <1>0, <2>0, <2>1, <2>2 DEF Reported, Callers
<1> QED BY <1>1, <1>2, NextCases, EnvironmentStays
-----------------------------------------------------------------------------
(* Which step moves a goroutine where, and changes what *)

\* The steps that lead to the positions the invariants are about.
LEMMA PcAfter ==
    ASSUME TypeOK, Reported, NEW c \in Callers, ActorStep(c)
    PROVE  /\ caller'[c].pc = "store" => FetchUser(c)
           /\ caller'[c].pc = "alert" => AcquirePermit(c) /\ c \in Workers
           /\ caller'[c].pc = "collect" => Disable(c) /\ c \in Workers
           /\ caller'[c].pc = "nodes" =>
                 c \in Workers /\ (CollectIPs(c) \/ \E i \in IPs : NodesOf(c, i))
           /\ c \in Workers /\ Enforcing(c)' =>
                 Enforcing(c) \/ CheckCache(c) \/ FetchUser(c) \/ StoreUser(c)
<1> USE DEF Enforcing
<1>0. caller \in [Callers -> Positions] /\ caller[c] \in Positions /\ caller[c].pc \in Pcs
  BY DEF TypeOK, Positions
<1>1. ASSUME NEW pc \in Pcs, Goto(c, pc) PROVE caller'[c].pc = pc
  BY <1>0, <1>1 DEF Goto, Positions
<1>2. ASSUME Leave(c) PROVE caller'[c].pc = "idle"
  BY <1>0, <1>2 DEF Leave, Idle
<1>3. ASSUME NEW b, Decide(c, b) PROVE caller'[c].pc \in {"idle", "enqueue", "record"}
  BY <1>1, <1>2, <1>3 DEF Decide, After, Pcs
<1>4. CASE CheckCache(c) BY <1>1, <1>3, <1>4 DEF CheckCache, Pcs
<1>5. CASE FetchUser(c)
  <2>1. CASE caller' = [caller EXCEPT ![c].pc = "store",
                                      ![c].excluded = caller[c].user \in member]
    BY <1>0, <1>5, <2>1 DEF Positions
  <2> QED BY <1>3, <1>5, <2>1 DEF FetchUser
<1>6. CASE StoreUser(c) BY <1>3, <1>6 DEF StoreUser
<1>7. CASE c \in Nodes /\ \E u \in Users, i \in IPs : Sight(c, u, i)
  <2>1. caller'[c].pc \in {"check", "resolve"} BY <1>0, <1>7 DEF Sight, Idle
  <2> QED BY <1>7, <2>1, UserPolicyAssumption
<1>8. CASE c \in Nodes /\ ResolveUser(c)
  <2>1. caller'[c].pc \in {"check", "idle"} BY <1>1, <1>2, <1>8 DEF ResolveUser, Pcs
  <2> QED BY <1>8, <2>1
<1>9. CASE EnqueueEntry(c) BY <1>2, <1>9 DEF EnqueueEntry
<1>10. CASE TakeEntry(c) BY <1>0, <1>10 DEF TakeEntry, Idle
<1>11. CASE RecordNode(c) BY <1>0, <1>1, <1>11 DEF RecordNode, Pcs
<1>12. CASE Score(c)
  <2>1. ASSUME NEW block \in BOOLEAN,
               caller' = [caller EXCEPT ![c].pc = "permit", ![c].block = block]
        PROVE  caller'[c].pc = "permit"
    BY <1>0, <2>1 DEF Positions
  <2>2. caller'[c].pc \in {"idle", "permit"} BY <1>2, <1>12, <2>1 DEF Score
  <2> QED BY <1>0, <1>12, <2>2 DEF Score, Pcs
<1>13. CASE c \in Workers /\ AcquirePermit(c)
  <2>1. caller'[c].pc \in {"alert", "disable", "idle"}
    BY <1>1, <1>2, <1>13 DEF AcquirePermit, AfterAlert, Pcs
  <2> QED BY <1>0, <1>13, <2>1 DEF AcquirePermit
<1>14. CASE QueueAlert(c)
  <2>1. caller'[c].pc \in {"disable", "idle"}
    BY <1>1, <1>2, <1>14 DEF QueueAlert, AfterAlert, Pcs
  <2> QED BY <1>0, <1>14, <2>1 DEF QueueAlert
<1>15. CASE c \in Workers /\ Disable(c)
  <2>1. caller'[c].pc \in {"collect", "idle"} BY <1>1, <1>2, <1>15 DEF Disable, Pcs
  <2> QED BY <1>0, <1>15, <2>1 DEF Disable
<1>16. CASE c \in Workers /\ CollectIPs(c)
  <2>2. caller'[c].pc \in {"idle", "nodes"}
    <3>1. CASE \E ips \in SUBSET IPs :
                  caller' = [caller EXCEPT ![c].pc = "nodes", ![c].todo = ips]
      BY <1>0, <3>1 DEF Positions
    <3>2. CASE ScheduleClear(c) BY <1>2, <3>2 DEF ScheduleClear
    <3> QED BY <1>16, <3>1, <3>2, Collected
  <2> QED BY <1>0, <1>16, <2>2 DEF CollectIPs
<1>17. ASSUME c \in Workers, NEW i \in IPs, NodesOf(c, i)
       PROVE  caller'[c].pc \in {"idle", "nodes"} /\ Enforcing(c)
  BY <1>0, <1>2, <1>17, NodesRead DEF NodesOf, ScheduleClear, Pcs
<1>18. CASE BlockIPs(c) BY <1>2, <1>18 DEF BlockIPs, ScheduleClear
<1> QED
  BY <1>4, <1>5, <1>6, <1>7, <1>8, <1>9, <1>10, <1>11, <1>12, <1>13, <1>14, <1>15, <1>16,
     <1>17, <1>18 DEF ActorStep

\* What a step of a goroutine leaves alone.
LEMMA Untouched ==
    ASSUME TypeOK, NEW c \in Callers, ActorStep(c)
    PROVE  /\ UNCHANGED member
           /\ ResolveUser(c) \/ StoreUser(c) \/ UNCHANGED userinfo
           /\ \/ c \in Workers /\ (AcquirePermit(c) \/ QueueAlert(c))
              \/ /\ UNCHANGED <<permit, history.alerts, history.unpermitted, history.lost>>
                 /\ caller[c].pc # "alert"
           /\ (c \in Workers /\ Score(c)) \/ UNCHANGED window
           /\ (c \in Workers /\ RecordNode(c)) \/ UNCHANGED nodes
           /\ (c \in Workers /\ BlockIPs(c)) \/ UNCHANGED blocked
           /\ disabled \subseteq disabled'
<1>0. history \in History BY DEF TypeOK
<1>1. ASSUME NEW f \in {"resolved", "failed", "moved"}, NEW u, Note(f, u)
      PROVE  UNCHANGED <<history.alerts, history.unpermitted, history.lost>>
  BY <1>0, <1>1 DEF Note, History
<1>2. CASE CheckCache(c) BY <1>2 DEF CheckCache, redis, panel
<1>3. CASE FetchUser(c) BY <1>1, <1>3 DEF FetchUser, redis, panel
<1>4. CASE StoreUser(c) BY <1>4 DEF StoreUser, panel
<1>5. ASSUME NEW u \in Users, NEW i \in IPs, Sight(c, u, i)
      PROVE  /\ UNCHANGED <<redis, panel>> /\ caller[c].pc # "alert"
             /\ UNCHANGED <<history.alerts, history.unpermitted, history.lost>>
  BY <1>0, <1>5 DEF Sight, History
<1>6. CASE ResolveUser(c) BY <1>1, <1>6 DEF ResolveUser, panel
<1>7. CASE EnqueueEntry(c) BY <1>7 DEF EnqueueEntry, redis, panel
<1>8. CASE TakeEntry(c) BY <1>8 DEF TakeEntry, redis, panel
<1>9. CASE c \in Workers /\ RecordNode(c) BY <1>9 DEF RecordNode, panel
<1>10. CASE c \in Workers /\ Score(c) BY <1>10 DEF Score, panel
<1>11. CASE c \in Workers /\ AcquirePermit(c) BY <1>11 DEF AcquirePermit, panel
<1>12. CASE c \in Workers /\ QueueAlert(c) BY <1>12 DEF QueueAlert, redis, panel
<1>13. CASE Disable(c) BY <1>13 DEF Disable, redis
<1>14. CASE CollectIPs(c) BY <1>14 DEF CollectIPs, redis, panel
<1>15. CASE \E i \in IPs : NodesOf(c, i) BY <1>15 DEF NodesOf, redis, panel
<1>16. CASE c \in Workers /\ BlockIPs(c) BY <1>16 DEF BlockIPs, redis
<1> QED
  BY <1>2, <1>3, <1>4, <1>5, <1>6, <1>7, <1>8, <1>9, <1>10, <1>11, <1>12, <1>13, <1>14,
     <1>15, <1>16 DEF ActorStep, redis, panel
-----------------------------------------------------------------------------
(* The bypass of excluded users *)

BypassOK == CacheFits /\ AnswerFits /\ BypassHasCause

LEMMA BypassActor ==
    ASSUME TypeOK, Reported, BypassOK, NEW c \in Callers, ActorStep(c),
           \A u : Excused(u) => Excused(u)'
    PROVE  BypassOK'
<1> SUFFICES ASSUME NEW v, v = caller[c].user PROVE BypassOK'
  OBVIOUS
<1>0. /\ UNCHANGED member /\ \A d \in Callers \ {c} : caller'[d] = caller[d]
      /\ ResolveUser(c) \/ StoreUser(c) \/ UNCHANGED userinfo
      /\ caller[c] \in Positions
  BY Untouched, OthersStay DEF TypeOK
<1>1. CacheFits'
  <2>1. CASE ResolveUser(c)
    <3>1. \/ UNCHANGED userinfo
          \/ userinfo' = [userinfo EXCEPT ![v] = "plain"] /\ Note("resolved", v)
      BY <2>1 DEF ResolveUser
    <3>2. Note("resolved", v) => Excused(v)' BY DEF Note, TypeOK, History, Excused
    <3> QED BY <1>0, <3>1, <3>2 DEF CacheFits, BypassOK, TypeOK
  <2>2. CASE StoreUser(c)
    <3>1. \/ UNCHANGED userinfo
          \/ userinfo' = [userinfo EXCEPT ![v] = Record(caller[c].excluded)]
      BY <2>2 DEF StoreUser
    <3>2. Record(caller[c].excluded) = "plain" /\ v \in member => Excused(v)
      BY <2>2 DEF Record, StoreUser, BypassOK, AnswerFits
    <3> QED BY <1>0, <3>1, <3>2 DEF CacheFits, BypassOK, TypeOK
  <2>3. CASE UNCHANGED userinfo BY <1>0, <2>3 DEF CacheFits, BypassOK
  <2> QED BY <1>0, <2>1, <2>2, <2>3
<1>2. AnswerFits'
  <2>1. caller'[c].pc = "store" => caller'[c].excluded = (caller'[c].user \in member)
    <3>1. CASE caller' = [caller EXCEPT ![c].pc = "store", ![c].excluded = v \in member]
      <4>1. caller'[c].user = v BY <1>0, <3>1 DEF Positions, TypeOK
      <4>2. caller'[c].excluded = (v \in member) BY <1>0, <3>1 DEF Positions, TypeOK
      <4> QED BY <4>1, <4>2
    <3>2. ASSUME FetchUser(c), Decide(c, FALSE) PROVE caller'[c].pc # "store"
      BY <3>2, DecideOnly, <1>0, ZenonT(30) DEF After, Positions
    <3> QED BY <3>1, <3>2, PcAfter DEF FetchUser
  <2> QED BY <1>0, <2>1 DEF AnswerFits, BypassOK
<1>3. BypassHasCause'
  <2>1. ASSUME c \in Workers, Enforcing(c)' PROVE caller'[c].user = v
    <3>1. caller'[c].pc \notin {"idle", "check"} BY <2>1 DEF Enforcing
    <3>2. ~ Starts(c)
      <4>1. TakeEntry(c) => caller'[c].pc = "check" BY DEF TakeEntry, TypeOK, Idle
      <4>2. c \notin Nodes BY <2>1, UserPolicyAssumption
      <4> QED BY <3>1, <4>1, <4>2 DEF Starts
    <3> QED BY <3>1, <3>2, SameWork DEF Idle
  <2>2. ASSUME c \in Workers, Enforcing(c)', v \in member PROVE Excused(v)'
    <3>0. caller'[c].pc # "idle" /\ caller'[c].pc # "fetch" /\ caller'[c].pc # "store"
      BY <2>2 DEF Enforcing
    <3>1. CASE Enforcing(c)
      <4>1. Excused(v) BY <2>2, <3>1 DEF BypassOK, BypassHasCause, Excused
      <4> QED BY <4>1
    <3>2. CASE CheckCache(c)
      <4>1. caller'[c].pc # "fetch" => userinfo[v] = "plain"
        <5>1. Goto(c, "fetch") => caller'[c].pc = "fetch"
          BY <1>0 DEF Goto, Positions, TypeOK
        <5>2. Leave(c) => caller'[c].pc = "idle" BY LeaveOnly DEF Idle
        <5>3. userinfo[v] \in {"none", "plain", "excluded"}
          BY <3>2, Busy DEF CheckCache, TypeOK
        <5> QED BY <3>0, <3>2, <5>1, <5>2, <5>3 DEF CheckCache, Decide
      <4>2. Excused(v) BY <2>2, <3>0, <4>1 DEF BypassOK, CacheFits
      <4> QED BY <4>2
    <3>3. CASE FetchUser(c)
      <4>1. caller' = [caller EXCEPT ![c].pc = "store", ![c].excluded = v \in member]
              => caller'[c].pc = "store"
        BY <1>0 DEF Positions, TypeOK
      <4>2. Note("failed", v) BY <3>0, <3>3, <4>1 DEF FetchUser
      <4> QED BY <4>2 DEF Note, TypeOK, History, Excused
    <3>4. CASE StoreUser(c)
      <4>1. ~ caller[c].excluded
        <5>1. Leave(c) => caller'[c].pc = "idle" BY LeaveOnly DEF Idle
        <5> QED BY <3>0, <3>4, <5>1 DEF StoreUser, Decide
      <4>2. Excused(v) BY <2>2, <3>4, <4>1 DEF StoreUser, BypassOK, AnswerFits
      <4> QED BY <4>2
    <3> QED BY <2>2, <3>1, <3>2, <3>3, <3>4, PcAfter
  <2>3. ASSUME NEW w \in Workers, Enforcing(w)', caller'[w].user \in member,
               NEW x, x = caller'[w].user
        PROVE  Excused(x)'
    <3>1. CASE w = c BY <2>1, <2>2, <2>3, <3>1
    <3>2. CASE w # c
      <4>1. caller'[w] = caller[w] BY <1>0, <3>2 DEF Callers
      <4>2. Excused(x) BY <2>3, <4>1 DEF BypassOK, BypassHasCause, Enforcing, Excused
      <4> QED BY <4>2
    <3> QED BY <3>1, <3>2
  <2> QED BY <1>0, <2>3 DEF BypassHasCause, Enforcing, Excused
<1> QED BY <1>1, <1>2, <1>3 DEF BypassOK

LEMMA BypassStep == TypeOK /\ Reported /\ BypassOK /\ [Next]_vars => BypassOK'
<1> SUFFICES ASSUME TypeOK, Reported, BypassOK, [Next]_vars PROVE BypassOK'
  OBVIOUS
<1>0. \A u : Excused(u) => Excused(u)' BY HistoryGrows DEF Excused
<1>1. ASSUME UNCHANGED caller, \A u : u \in member' => u \in member \/ Excused(u)',
             \A u \in Users : userinfo'[u] = "plain" => userinfo[u] = "plain"
      PROVE  BypassOK'
  <2>1. CacheFits' /\ AnswerFits'
    <3>1. member' \subseteq Users BY TypeStep DEF TypeOK
    <3> QED BY <1>0, <1>1, <3>1 DEF BypassOK, CacheFits, AnswerFits
  <2>2. BypassHasCause'
    BY <1>0, <1>1 DEF BypassOK, BypassHasCause, Enforcing, Excused
  <2> QED BY <2>1, <2>2 DEF BypassOK
<1>2. CASE UNCHANGED vars BY <1>1, <1>2 DEF vars
<1>3. CASE Environment
  <2>1. UNCHANGED caller BY <1>3, EnvironmentStays
  <2>2. ASSUME NEW u \in Users, MoveUser(u) PROVE BypassOK'
    <3>1. \A v : v \in member' => v \in member \/ v = u BY <2>2 DEF MoveUser
    <3>2. Excused(u)' BY <2>2 DEF MoveUser, Note, TypeOK, History, Excused
    <3>3. UNCHANGED userinfo BY <2>2 DEF MoveUser, redis
    <3> QED BY <1>1, <2>1, <3>1, <3>2, <3>3
  <2>3. ASSUME ~ \E u \in Users : MoveUser(u) PROVE BypassOK'
    <3>1. UNCHANGED member
      BY <1>3, <2>3 DEF Environment, SendAlert, ClearWindow, ExpireUser, ExpirePermit, Cancel, panel
    <3>2. \A u \in Users : userinfo'[u] = "plain" => userinfo[u] = "plain"
      BY <1>3, <2>3 DEF Environment, SendAlert, ClearWindow, ExpireUser, ExpirePermit, Cancel,
         redis, TypeOK
    <3> QED BY <1>1, <2>1, <3>1, <3>2
  <2> QED BY <2>2, <2>3
<1> QED BY <1>0, <1>2, <1>3, BypassActor, NextCases
-----------------------------------------------------------------------------
(* Alerts *)

LEMMA AloneStep == TypeOK /\ Reported /\ Alone /\ [Next]_vars => Alone'
<1> SUFFICES ASSUME TypeOK, Reported, Alone, [Next]_vars PROVE Alone'
  OBVIOUS
<1>0. history \in History /\ permit \subseteq Users /\ Workers \subseteq Callers
  BY DEF TypeOK, Callers
<1>1. ASSUME UNCHANGED <<permit, history.alerts, history.unpermitted>>,
             \A w \in Workers, u \in Users :
                 caller'[w].user = u /\ caller'[w].pc = "alert" => Alerting(w, u)
      PROVE  Alone'
  BY <1>1 DEF Alone, Alerting
<1>2. ASSUME NEW c \in Callers, ActorStep(c),
             ~ (c \in Workers /\ (AcquirePermit(c) \/ QueueAlert(c)))
      PROVE  Alone'
  <2>1. caller'[c].pc # "alert" BY <1>2, PcAfter
  <2>2. \A d \in Callers \ {c} : caller'[d] = caller[d] BY <1>2, OthersStay
  <2>3. UNCHANGED <<permit, history.alerts, history.unpermitted>> BY <1>2, Untouched
  <2> QED BY <1>0, <1>1, <2>1, <2>2, <2>3 DEF Alerting
<1>3. ASSUME NEW w \in Workers, AcquirePermit(w) PROVE Alone'
  <2> SUFFICES ASSUME NEW x, x = caller[w].user PROVE Alone'
    OBVIOUS
  <2>0. x \in Users /\ w \in Callers /\ caller[w] \in Positions
        /\ ActorStep(w) /\ caller[w].pc # "alert"
    BY <1>0, <1>3, Busy DEF AcquirePermit, TypeOK, ActorStep
  <2>1. \A d \in Callers \ {w} : caller'[d] = caller[d]
    BY <2>0, OthersStay
  <2>2. CASE /\ x \notin permit /\ permit' = permit \cup {x} /\ Goto(w, "alert")
             /\ UNCHANGED history
    <3>1. caller'[w].pc = "alert" /\ caller'[w].user = x
      BY <2>0, <2>2 DEF Goto, Positions, TypeOK
    <3> QED BY <1>0, <2>0, <2>1, <2>2, <3>1 DEF Alone, Alerting
  <2>3. CASE AfterAlert(w) /\ UNCHANGED <<permit, history>>
    <3>1. caller'[w].pc # "alert"
      BY <2>0, <2>3 DEF AfterAlert, Goto, Leave, Idle, Positions, TypeOK
    <3> QED BY <1>0, <1>1, <2>1, <2>3, <3>1 DEF Alerting
  <2>4. CASE /\ Goto(w, "alert") /\ Note("unpermitted", x)
             /\ permit' \in {permit, permit \cup {x}}
    <3>1. caller'[w].user = x
      BY <2>0, <2>4 DEF Goto, Positions, TypeOK
    <3>2. /\ history'.unpermitted = history.unpermitted \cup {x}
          /\ UNCHANGED history.alerts
      BY <1>0, <2>4 DEF Note, History
    <3> QED BY <1>0, <2>0, <2>1, <2>4, <3>1, <3>2 DEF Alone, Alerting
  <2> QED BY <1>3, <2>2, <2>3, <2>4 DEF AcquirePermit
<1>4. ASSUME NEW w \in Workers, QueueAlert(w) PROVE Alone'
  <2> SUFFICES ASSUME NEW x, x = caller[w].user PROVE Alone'
    OBVIOUS
  <2>0. x \in Users /\ w \in Callers /\ caller[w] \in Positions /\ Alerting(w, x)
        /\ ActorStep(w) /\ UNCHANGED permit
    BY <1>0, <1>4, Busy DEF QueueAlert, TypeOK, ActorStep, Alerting, redis
  <2>1. \A d \in Callers \ {w} : caller'[d] = caller[d] BY <2>0, OthersStay
  <2>2. caller'[w].pc # "alert" BY <1>4, <2>0, PcAfter DEF AcquirePermit, QueueAlert
  <2>3. UNCHANGED history.unpermitted BY <1>0, <1>4 DEF QueueAlert, Note, History
  <2>4. CASE Note("lost", x)
    <3>1. UNCHANGED history.alerts BY <1>0, <2>4 DEF Note, History
    <3> QED BY <1>0, <1>1, <2>0, <2>1, <2>2, <2>3, <3>1 DEF Alerting
  <2>5. CASE history' = [history EXCEPT !.alerts[x] = @ + 1]
    <3>1. /\ history'.alerts[x] = history.alerts[x] + 1
          /\ \A u \in Users \ {x} : history'.alerts[u] = history.alerts[u]
          /\ history.alerts[x] \in Nat
      BY <1>0, <2>0, <2>5 DEF History
    <3>2. x \notin history.unpermitted =>
             /\ x \in permit /\ history.alerts[x] = 0
             /\ \A v \in Workers : Alerting(v, x) => v = w
      BY <2>0 DEF Alone
    <3>3. ASSUME NEW u \in Users \ history'.unpermitted
          PROVE  /\ history'.alerts[u] <= 1
                 /\ u \notin permit' => history'.alerts[u] = 0
                 /\ \A v \in Workers : caller'[v].user = u /\ caller'[v].pc = "alert" =>
                        /\ u \in permit' /\ history'.alerts[u] = 0
                        /\ \A z \in Workers :
                              caller'[z].user = u /\ caller'[z].pc = "alert" => z = v
      <4>1. CASE u = x
        BY <1>0, <2>0, <2>1, <2>2, <2>3, <3>1, <3>2, <4>1 DEF Alerting
      <4>2. CASE u # x
        BY <1>0, <2>0, <2>1, <2>2, <2>3, <3>1, <3>3, <4>2 DEF Alone, Alerting
      <4> QED BY <4>1, <4>2
    <3> QED BY <3>3 DEF Alone, Alerting
  <2> QED BY <1>4, <2>4, <2>5 DEF QueueAlert
<1>5. ASSUME NEW u \in Users, ExpirePermit(u) PROVE Alone'
  <2>1. /\ permit' = permit \ {u} /\ UNCHANGED caller
        /\ \A w \in Workers : ~ Alerting(w, u)
    BY <1>5 DEF ExpirePermit, Alerting
  <2>2. /\ history'.alerts = [history.alerts EXCEPT ![u] = 0]
        /\ history'.unpermitted = history.unpermitted \ {u}
    BY <1>0, <1>5 DEF ExpirePermit, History
  <2>3. history'.alerts[u] = 0 /\ \A v \in Users \ {u} : history'.alerts[v] = history.alerts[v]
    BY <1>0, <2>2 DEF History
  <2> QED BY <2>1, <2>2, <2>3 DEF Alone, Alerting
<1>6. ASSUME Environment \/ UNCHANGED vars, ~ \E u \in Users : ExpirePermit(u) PROVE Alone'
  <2>1. UNCHANGED caller BY <1>6, EnvironmentStays
  <2>2. UNCHANGED <<permit, history.alerts, history.unpermitted>>
    BY <1>0, <1>6 DEF Environment, SendAlert, ClearWindow, MoveUser, ExpireUser, Cancel, Note,
       History, redis, vars
  <2> QED BY <1>1, <2>1, <2>2 DEF Alerting
<1> QED BY <1>2, <1>3, <1>4, <1>5, <1>6, NextCases

LEMMA SilenceStep == TypeOK /\ Reported /\ SilenceHasCause /\ [Next]_vars => SilenceHasCause'
<1> SUFFICES ASSUME TypeOK, Reported, SilenceHasCause, [Next]_vars PROVE SilenceHasCause'
  OBVIOUS
<1>0. history \in History /\ permit \subseteq Users /\ Workers \subseteq Callers
  BY DEF TypeOK, Callers
<1>1. ASSUME UNCHANGED <<permit, history.alerts>>, history.lost \subseteq history'.lost,
             \A w \in Workers : caller[w].pc = "alert" => caller'[w] = caller[w]
      PROVE  SilenceHasCause'
  BY <1>1 DEF SilenceHasCause
<1>2. ASSUME NEW c \in Callers, ActorStep(c),
             ~ (c \in Workers /\ (AcquirePermit(c) \/ QueueAlert(c)))
      PROVE  SilenceHasCause'
  <2>1. \A d \in Callers \ {c} : caller'[d] = caller[d] BY <1>2, OthersStay
  <2>2. UNCHANGED <<permit, history.alerts, history.lost>> /\ caller[c].pc # "alert"
    BY <1>2, Untouched
  <2> QED BY <1>0, <1>1, <2>1, <2>2
<1>3. ASSUME NEW w \in Workers, AcquirePermit(w) PROVE SilenceHasCause'
  <2> SUFFICES ASSUME NEW x, x = caller[w].user PROVE SilenceHasCause'
    OBVIOUS
  <2>0. x \in Users /\ w \in Callers /\ caller[w] \in Positions
        /\ ActorStep(w) /\ caller[w].pc # "alert"
    BY <1>0, <1>3, Busy DEF AcquirePermit, TypeOK, ActorStep
  <2>1. \A d \in Callers \ {w} : caller'[d] = caller[d] BY <2>0, OthersStay
  <2>2. UNCHANGED <<history.alerts, history.lost>>
    BY <1>0, <1>3 DEF AcquirePermit, Note, History
  <2>3. CASE UNCHANGED permit BY <1>0, <1>1, <2>0, <2>1, <2>2, <2>3
  <2>4. CASE permit' = permit \cup {x} /\ Goto(w, "alert")
    <3>1. caller'[w].pc = "alert" /\ caller'[w].user = x
      BY <2>0, <2>4 DEF Goto, Positions, TypeOK
    <3> QED BY <1>0, <2>0, <2>1, <2>2, <2>4, <3>1 DEF SilenceHasCause
  <2> QED BY <1>3, <2>3, <2>4 DEF AcquirePermit
<1>4. ASSUME NEW w \in Workers, QueueAlert(w) PROVE SilenceHasCause'
  <2> SUFFICES ASSUME NEW x, x = caller[w].user PROVE SilenceHasCause'
    OBVIOUS
  <2>0. x \in Users /\ w \in Callers /\ ActorStep(w) /\ UNCHANGED permit
    BY <1>0, <1>4, Busy DEF QueueAlert, ActorStep, redis
  <2>1. \A d \in Callers \ {w} : caller'[d] = caller[d] BY <2>0, OthersStay
  <2>2. /\ history'.alerts[x] > 0 \/ x \in history'.lost
        /\ \A u \in Users \ {x} : history'.alerts[u] = history.alerts[u]
        /\ history.lost \subseteq history'.lost
    <3>1. CASE Note("lost", x) BY <1>0, <3>1 DEF Note, History
    <3>2. CASE history' = [history EXCEPT !.alerts[x] = @ + 1]
      BY <1>0, <2>0, <3>2 DEF History
    <3> QED BY <1>4, <3>1, <3>2 DEF QueueAlert
  <2>3. ASSUME NEW u \in permit'
        PROVE  \/ history'.alerts[u] > 0
               \/ u \in history'.lost
               \/ \E v \in Workers : caller'[v].user = u /\ caller'[v].pc = "alert"
    <3>1. u \in permit /\ u \in Users BY <1>0, <2>0, <2>3
    <3>2. CASE u = x BY <2>2, <3>2
    <3>3. CASE u # x
      <4>1. \/ history.alerts[u] > 0 \/ u \in history.lost
            \/ \E v \in Workers : caller[v].user = u /\ caller[v].pc = "alert"
        BY <3>1 DEF SilenceHasCause
      <4> QED BY <1>0, <2>1, <2>2, <3>1, <3>3, <4>1
    <3> QED BY <3>2, <3>3
  <2> QED BY <2>3 DEF SilenceHasCause
<1>5. ASSUME NEW u \in Users, ExpirePermit(u) PROVE SilenceHasCause'
  <2>1. permit' = permit \ {u} /\ UNCHANGED caller BY <1>5 DEF ExpirePermit
  <2>2. /\ \A v \in Users \ {u} : history'.alerts[v] = history.alerts[v]
        /\ history'.lost = history.lost \ {u}
    BY <1>0, <1>5 DEF ExpirePermit, History
  <2> QED BY <1>0, <2>1, <2>2 DEF SilenceHasCause
<1>6. ASSUME Environment \/ UNCHANGED vars, ~ \E u \in Users : ExpirePermit(u)
      PROVE  SilenceHasCause'
  <2>1. UNCHANGED caller BY <1>6, EnvironmentStays
  <2>2. UNCHANGED <<permit, history.alerts>> /\ history.lost \subseteq history'.lost
    BY <1>0, <1>6 DEF Environment, SendAlert, ClearWindow, MoveUser, ExpireUser, Cancel, Note,
       History, redis, vars
  <2> QED BY <1>1, <2>1, <2>2
<1> QED BY <1>2, <1>3, <1>4, <1>5, <1>6, NextCases
-----------------------------------------------------------------------------
(* Blocks *)

\* Outside the collection, a goroutine keeps what it collected or has nothing.
LEMMA SameSets ==
    ASSUME TypeOK, Reported, NEW c \in Callers, ActorStep(c),
           ~ (c \in Workers /\ (CollectIPs(c) \/ \E i \in IPs : NodesOf(c, i)))
    PROVE  \/ caller'[c].todo = {} /\ caller'[c].ips = {} /\ caller'[c].on = {}
           \/ /\ caller'[c].user = caller[c].user
              /\ caller'[c].todo = caller[c].todo
              /\ caller'[c].ips = caller[c].ips
              /\ caller'[c].on = caller[c].on
<1> DEFINE Same == /\ caller'[c].user = caller[c].user
                   /\ caller'[c].todo = caller[c].todo
                   /\ caller'[c].ips = caller[c].ips
                   /\ caller'[c].on = caller[c].on
           None3 == caller'[c].todo = {} /\ caller'[c].ips = {} /\ caller'[c].on = {}
<1>0. caller \in [Callers -> Positions] /\ caller[c] \in Positions BY DEF TypeOK
<1>1. ASSUME NEW pc \in Pcs, Goto(c, pc) PROVE Same BY <1>0, <1>1 DEF Goto, Positions
<1>2. ASSUME Leave(c) PROVE None3 BY <1>2, LeaveOnly DEF Idle
<1>3. ASSUME NEW b, Decide(c, b) PROVE Same \/ None3
  BY <1>1, <1>2, <1>3 DEF Decide, After, Pcs
<1>4. CASE CheckCache(c) BY <1>1, <1>3, <1>4 DEF CheckCache, Pcs
<1>5. CASE FetchUser(c)
  <2>1. CASE caller' = [caller EXCEPT ![c].pc = "store",
                                      ![c].excluded = caller[c].user \in member]
    BY <1>0, <2>1 DEF Positions
  <2> QED BY <1>3, <1>5, <2>1 DEF FetchUser
<1>6. CASE StoreUser(c) BY <1>3, <1>6 DEF StoreUser
<1>7. ASSUME NEW u \in Users, NEW i \in IPs, Sight(c, u, i) PROVE None3
  BY <1>0, <1>7 DEF Sight, Idle
<1>8. CASE ResolveUser(c) BY <1>1, <1>2, <1>8 DEF ResolveUser, Pcs
<1>9. CASE EnqueueEntry(c) BY <1>2, <1>9 DEF EnqueueEntry
<1>10. CASE TakeEntry(c) BY <1>0, <1>10 DEF TakeEntry, Idle
<1>11. CASE RecordNode(c) BY <1>1, <1>11 DEF RecordNode, Pcs
<1>12. CASE Score(c)
  <2>1. ASSUME NEW block \in BOOLEAN,
               caller' = [caller EXCEPT ![c].pc = "permit", ![c].block = block]
        PROVE  Same
    BY <1>0, <2>1 DEF Positions
  <2> QED BY <1>2, <1>12, <2>1 DEF Score
<1>13. CASE AcquirePermit(c) BY <1>1, <1>2, <1>13 DEF AcquirePermit, AfterAlert, Pcs
<1>14. CASE QueueAlert(c) BY <1>1, <1>2, <1>14 DEF QueueAlert, AfterAlert, Pcs
<1>15. CASE Disable(c) BY <1>1, <1>2, <1>15 DEF Disable, Pcs
<1>16. CASE BlockIPs(c) BY <1>2, <1>16 DEF BlockIPs, ScheduleClear
<1> QED
  BY <1>4, <1>5, <1>6, <1>7, <1>8, <1>9, <1>10, <1>11, <1>12, <1>13, <1>14, <1>15,
     <1>16 DEF ActorStep

\* The part of Traced about one goroutine.
TracedWork(c) ==
    /\ \A i \in caller[c].todo \cup caller[c].ips :
           i \notin ExcludedIPs /\ SeenAt(caller[c].user, i)
    /\ \A n \in caller[c].on : SeenOn(caller[c].user, n)
    /\ caller[c].pc \in {"collect", "nodes"} => caller[c].user \in disabled

LEMMA SeenGrows ==
    ASSUME TypeOK, [Next]_vars
    PROVE  /\ \A u, i : SeenAt(u, i) => SeenAt(u, i)'
           /\ \A u, n : SeenOn(u, n) => SeenOn(u, n)'
BY HistoryGrows DEF SeenAt, SeenOn

LEMMA OwnSighting ==
    ASSUME Reported, NEW c \in Callers, caller[c].pc # "idle"
    PROVE  SeenAt(caller[c].user, caller[c].ip) /\ SeenOn(caller[c].user, caller[c].node)
BY DEF Reported, SeenAt, SeenOn

\* What follows for the goroutine that moves.
LEMMA TracedActor ==
    ASSUME TypeOK, Reported, Traced, NEW c \in Callers, ActorStep(c),
           \A u, i : SeenAt(u, i) => SeenAt(u, i)',
           \A u, n : SeenOn(u, n) => SeenOn(u, n)',
           NEW x, x = caller'[c].user
    PROVE  /\ \A i \in caller'[c].todo \cup caller'[c].ips : i \notin ExcludedIPs /\ SeenAt(x, i)'
           /\ \A n \in caller'[c].on : SeenOn(x, n)'
           /\ caller'[c].pc \in {"collect", "nodes"} => x \in disabled'
<1>0. caller[c] \in Positions /\ disabled \subseteq disabled' /\ caller \in [Callers -> Positions]
  BY Untouched DEF TypeOK
<1>1. TracedWork(c) BY DEF Traced, TracedWork
<1>2. CASE c \in Workers /\ CollectIPs(c) /\ ~ ScheduleClear(c)
  <2>1. PICK ips \in SUBSET IPs :
           /\ ips \subseteq ({caller[c].ip} \cup window[caller[c].user]) \ ExcludedIPs
           /\ caller' = [caller EXCEPT ![c].pc = "nodes", ![c].todo = ips]
    BY <1>2, Collected
  <2>3. /\ caller'[c].todo = ips /\ caller'[c].ips = caller[c].ips
        /\ caller'[c].on = caller[c].on /\ x = caller[c].user
    BY <1>2, <2>1, CollectOnly DEF SameSighting
  <2>4. SeenAt(x, caller[c].ip) /\ x \in Users /\ caller[c].pc = "collect"
    BY <1>2, <2>3, OwnSighting, Busy DEF CollectIPs
  <2>5. \A i \in ips : i \notin ExcludedIPs /\ SeenAt(x, i)
    BY <2>1, <2>3, <2>4 DEF Traced
  <2> QED BY <1>0, <1>1, <2>3, <2>4, <2>5 DEF TracedWork
<1>3. ASSUME c \in Workers, NEW i \in IPs, NodesOf(c, i), ~ ScheduleClear(c)
      PROVE  /\ \A j \in caller'[c].todo \cup caller'[c].ips : j \notin ExcludedIPs /\ SeenAt(x, j)'
             /\ \A n \in caller'[c].on : SeenOn(x, n)'
             /\ x \in disabled'
  <2>1. /\ caller'[c].todo = caller[c].todo \ {i}
        /\ caller'[c].ips \subseteq caller[c].ips \cup {i}
        /\ caller'[c].on = caller[c].on \cup nodes[<<caller[c].user, i>>]
        /\ x = caller[c].user
    BY <1>3, NodesRead DEF SameSighting
  <2>2. i \in caller[c].todo /\ caller[c].pc = "nodes" /\ x \in Users
    BY <1>3, <2>1, Busy DEF NodesOf
  <2>3. \A n \in nodes[<<x, i>>] : SeenOn(x, n) BY <2>2 DEF Traced
  <2> QED BY <1>0, <1>1, <2>1, <2>2, <2>3 DEF TracedWork
<1>4. CASE ScheduleClear(c)
  BY <1>4, LeaveOnly DEF ScheduleClear, Idle
<1>5. CASE ~ (c \in Workers /\ (CollectIPs(c) \/ \E i \in IPs : NodesOf(c, i)))
  <2>1. \/ caller'[c].todo = {} /\ caller'[c].ips = {} /\ caller'[c].on = {}
        \/ /\ x = caller[c].user
           /\ caller'[c].todo = caller[c].todo
           /\ caller'[c].ips = caller[c].ips
           /\ caller'[c].on = caller[c].on
    BY <1>5, SameSets
  <2>2. caller'[c].pc \in {"collect", "nodes"} => x \in disabled'
    <3>1. caller'[c].pc # "nodes" BY <1>5, PcAfter
    <3>2. ASSUME caller'[c].pc = "collect" PROVE x \in disabled'
      <4>1. Disable(c) BY <3>2, PcAfter
      <4>2. Leave(c) => caller'[c].pc = "idle" BY LeaveOnly DEF Idle
      <4>3. Goto(c, "collect") /\ disabled' = disabled \cup {caller[c].user}
        BY <3>2, <4>1, <4>2 DEF Disable
      <4>4. x = caller[c].user BY <1>0, <4>3 DEF Goto, Positions
      <4> QED BY <4>3, <4>4
    <3> QED BY <3>1, <3>2
  <2> QED BY <1>1, <2>1, <2>2 DEF TracedWork
<1> QED BY <1>1, <1>2, <1>3, <1>4, <1>5 DEF TracedWork

LEMMA TracedStep == TypeOK /\ Reported /\ Traced /\ [Next]_vars => Traced'
<1> SUFFICES ASSUME TypeOK, Reported, Traced, [Next]_vars PROVE Traced'
  OBVIOUS
<1>0. /\ \A u, i : SeenAt(u, i) => SeenAt(u, i)'
      /\ \A u, n : SeenOn(u, n) => SeenOn(u, n)'
  BY SeenGrows
<1>1. ASSUME NEW c \in Callers, ActorStep(c) PROVE Traced'
  <2>0. /\ \A d \in Callers \ {c} : caller'[d] = caller[d]
        /\ disabled \subseteq disabled'
    BY <1>1, OthersStay, Untouched
  <2>1. ASSUME NEW d \in Callers, NEW x, x = caller'[d].user
        PROVE  /\ \A i \in caller'[d].todo \cup caller'[d].ips :
                      i \notin ExcludedIPs /\ SeenAt(x, i)'
               /\ \A n \in caller'[d].on : SeenOn(x, n)'
               /\ caller'[d].pc \in {"collect", "nodes"} => x \in disabled'
    <3>1. CASE d = c BY <1>0, <1>1, <2>1, <3>1, TracedActor
    <3>2. CASE d # c
      <4>1. caller'[d] = caller[d] BY <2>0, <3>2
      <4>2. TracedWork(d) BY DEF Traced, TracedWork
      <4> QED BY <1>0, <2>0, <2>1, <4>1, <4>2 DEF TracedWork
    <3> QED BY <3>1, <3>2
  <2>2. ASSUME NEW u \in Users, NEW i \in window'[u] PROVE SeenAt(u, i)'
    <3>1. CASE i \in window[u] BY <1>0, <3>1 DEF Traced
    <3>2. CASE i \notin window[u]
      <4>1. c \in Workers /\ Score(c) BY <1>1, <2>2, <3>2, Untouched
      <4>2. u = caller[c].user /\ i = caller[c].ip /\ caller[c].pc # "idle"
        BY <2>2, <3>2, <4>1 DEF Score, TypeOK
      <4> QED BY <1>0, <4>2, OwnSighting
    <3> QED BY <3>1, <3>2
  <2>3. ASSUME NEW u \in Users, NEW i \in IPs, NEW n \in nodes'[<<u, i>>] PROVE SeenOn(u, n)'
    <3>1. CASE n \in nodes[<<u, i>>] BY <1>0, <3>1 DEF Traced
    <3>2. CASE n \notin nodes[<<u, i>>]
      <4>1. c \in Workers /\ RecordNode(c) BY <1>1, <2>3, <3>2, Untouched
      <4>2. u = caller[c].user /\ n = caller[c].node /\ caller[c].pc # "idle"
        <5>1. nodes' = [nodes EXCEPT ![<<caller[c].user, caller[c].ip>>] = @ \cup {caller[c].node}]
          BY <2>3, <3>2, <4>1 DEF RecordNode
        <5> QED BY <2>3, <3>2, <4>1, <5>1 DEF RecordNode, TypeOK
      <4> QED BY <1>0, <4>2, OwnSighting
    <3> QED BY <3>1, <3>2
  <2> QED BY <2>1, <2>2, <2>3 DEF Traced, SeenAt, SeenOn
<1>2. CASE Environment \/ UNCHANGED vars
  <2>1. UNCHANGED caller BY <1>2, EnvironmentStays
  <2>2. UNCHANGED <<nodes, disabled>>
    BY <1>2 DEF Environment, SendAlert, ClearWindow, MoveUser, ExpireUser, ExpirePermit, Cancel,
       redis, panel, vars
  <2>3. \A u \in Users : window'[u] \subseteq window[u]
    BY <1>2 DEF Environment, SendAlert, ClearWindow, MoveUser, ExpireUser, ExpirePermit, Cancel,
       redis, panel, vars, TypeOK
  <2>4. ASSUME NEW u \in Users, NEW i \in window'[u] PROVE SeenAt(u, i)'
    <3>1. SeenAt(u, i) BY <2>3, <2>4 DEF Traced
    <3> QED BY <1>0, <3>1
  <2>5. ASSUME NEW u \in Users, NEW i \in IPs, NEW n \in nodes'[<<u, i>>] PROVE SeenOn(u, n)'
    <3>1. SeenOn(u, n) BY <2>2, <2>5 DEF Traced
    <3> QED BY <1>0, <3>1
  <2>6. ASSUME NEW c \in Callers, NEW x, x = caller'[c].user
        PROVE  /\ \A i \in caller'[c].todo \cup caller'[c].ips :
                      i \notin ExcludedIPs /\ SeenAt(x, i)'
               /\ \A n \in caller'[c].on : SeenOn(x, n)'
               /\ caller'[c].pc \in {"collect", "nodes"} => x \in disabled'
    <3>1. TracedWork(c) BY DEF Traced, TracedWork
    <3> QED BY <1>0, <2>1, <2>2, <2>6, <3>1 DEF TracedWork
  <2> QED BY <2>4, <2>5, <2>6 DEF Traced, SeenAt, SeenOn
<1> QED BY <1>1, <1>2, NextCases

LEMMA BlockedStep ==
    TypeOK /\ Reported /\ Traced /\ BlockedIsSighted /\ [Next]_vars => BlockedIsSighted'
<1> SUFFICES ASSUME TypeOK, Reported, Traced, BlockedIsSighted, [Next]_vars,
                    NEW b \in blocked'
             PROVE  /\ b[1] \in disabled'
                    /\ b[2] \notin ExcludedIPs
                    /\ SeenAt(b[1], b[2])'
                    /\ SeenOn(b[1], b[3])'
  BY DEF BlockedIsSighted, SeenAt, SeenOn
<1>0. /\ \A u, i : SeenAt(u, i) => SeenAt(u, i)'
      /\ \A u, n : SeenOn(u, n) => SeenOn(u, n)'
  BY SeenGrows
<1>1. disabled \subseteq disabled'
  <2>1. Environment \/ UNCHANGED vars => UNCHANGED disabled
    BY DEF Environment, SendAlert, ClearWindow, MoveUser, ExpireUser, ExpirePermit, Cancel,
       panel, vars
  <2> QED BY <2>1, Untouched, NextCases
<1>2. CASE b \in blocked
  BY <1>0, <1>1, <1>2 DEF BlockedIsSighted, SeenAt, SeenOn
<1>3. CASE b \notin blocked
  <2>1. PICK w \in Workers : BlockIPs(w)
    <3>1. Environment \/ UNCHANGED vars => UNCHANGED blocked
      BY DEF Environment, SendAlert, ClearWindow, MoveUser, ExpireUser, ExpirePermit, Cancel,
         panel, vars
    <3> QED BY <1>3, <3>1, Untouched, NextCases
  <2>2. /\ blocked' = blocked \cup ({caller[w].user} \X caller[w].ips \X caller[w].on)
        /\ caller[w].pc = "nodes"
    BY <1>3, <2>1 DEF BlockIPs
  <2>3. b[1] = caller[w].user /\ b[2] \in caller[w].ips /\ b[3] \in caller[w].on
    BY <1>3, <2>2
  <2>4. TracedWork(w) BY DEF Traced, TracedWork, Callers
  <2> QED BY <1>0, <1>1, <2>2, <2>3, <2>4 DEF TracedWork
<1> QED BY <1>2, <1>3
-----------------------------------------------------------------------------
(* The specification *)

LEMMA InitInv == Init => IInv
<1> SUFFICES ASSUME Init PROVE IInv
  OBVIOUS
<1> USE DEF Init
<1>0. \A c \in Callers : caller[c] = Idle OBVIOUS
<1>1. Reported BY <1>0 DEF Reported, Idle, Callers
<1>2. CacheFits /\ AnswerFits /\ BypassHasCause
  BY <1>0 DEF CacheFits, AnswerFits, BypassHasCause, Enforcing, Idle, Callers
<1>3. Alone /\ SilenceHasCause
  BY <1>0 DEF Alone, Alerting, SilenceHasCause, Idle, Callers
<1>4. Traced /\ BlockedIsSighted
  BY <1>0 DEF Traced, BlockedIsSighted, Idle
<1> QED BY <1>1, <1>2, <1>3, <1>4, TypeInit DEF IInv

LEMMA StepInv == IInv /\ [Next]_vars => IInv'
<1>1. (CacheFits /\ AnswerFits /\ BypassHasCause)' <=> BypassOK' BY DEF BypassOK
<1> QED
  BY <1>1, TypeStep, ReportedStep, BypassStep, AloneStep, SilenceStep, TracedStep,
     BlockedStep DEF IInv, BypassOK

LEMMA AloneIsEnough == IInv => AlertOncePerCooldown
BY DEF IInv, Alone, AlertOncePerCooldown, TypeOK

\* Every reachable state satisfies the inductive invariant.
THEOREM Invariance == Spec => []IInv
BY InitInv, StepInv, PTL DEF Spec

\* Queues, records, keys and goroutines keep their types; neither channel exceeds
\* its capacity.
THEOREM TypeCorrect == Spec => []TypeOK
BY Invariance, PTL DEF IInv

\* A worker never enforces against a user of an excluded squad unless a call of the
\* check failed, the squads changed, or a record without squads was cached.
THEOREM BypassExplained == Spec => []BypassHasCause
BY Invariance, PTL DEF IInv

\* However many workers ask for the permit, one alert per cooldown is queued.
THEOREM OneAlert == Spec => []AlertOncePerCooldown
BY Invariance, AloneIsEnough, PTL

\* A cooldown without an alert is explained by a drop or by an alert on its way.
THEOREM SilenceExplained == Spec => []SilenceHasCause
BY Invariance, PTL DEF IInv

\* What is blocked was seen of a disabled user and is not an excluded address.
THEOREM BlocksAreSighted == Spec => []BlockedIsSighted
BY Invariance, PTL DEF IInv
=============================================================================
