----------------------------- MODULE HotWindow ------------------------------
(***************************************************************************)
(* The hot window of one user in Redis: the set user_asns:{u} of the ASNs  *)
(* the user is active on, a marker asn_ttl:{u}:{asn} per ASN, and the set  *)
(* user_asn_ips:{u}:{asn} of the addresses seen on it.  Log workers add an *)
(* observation with two calls (mapping first, then the Lua script), a      *)
(* block arms a timer that clears the window with three, and every key has *)
(* a time to live of its own.                                              *)
(*                                                                         *)
(* A key is stored with the tick it ends at, and the clock that reaches it *)
(* deletes the key.  Redis runs a script as one step.                      *)
(***************************************************************************)
EXTENDS Naturals, FiniteSets

CONSTANTS
    ASNs,
    IPs,
    NetOf,        \* the ASN an address belongs to
    NoIP,         \* the address of an idle worker
    Workers,
    Timers,       \* clear timers that may be pending at once
    TTLs,         \* USER_ASN_TTL_SECONDS, as configured from one start to the next
    Grace,        \* what the script adds to the life of the set (60 s)
    ClearDelay,   \* CLEAR_IPS_DELAY_SECONDS
    Horizon,      \* bound: last tick of the clock
    MaxFaults,    \* bound: calls that do not return success
    MaxRestarts   \* bound: restarts of the service

ASSUME HotWindowAssumption ==
    /\ NetOf \in [IPs -> ASNs] /\ NoIP \notin IPs
    /\ TTLs # {} /\ TTLs \subseteq Nat \ {0}
    /\ Grace \in Nat /\ ClearDelay \in Nat /\ Horizon \in Nat
    /\ MaxFaults \in Nat /\ MaxRestarts \in Nat

VARIABLES
    members,      \* user_asns:{u} ...
    membersEnd,   \* ... and the tick it ends at
    marker,       \* the tick each asn_ttl:{u}:{asn} ends at
    ips,          \* user_asn_ips:{u}:{asn} ...
    ipsEnd,       \* ... and the tick it ends at
    clock,
    ttl,          \* the configured time to live
    worker,       \* a worker's position in processEntryByASN and its address
    timer,        \* a clear's position, when it is due and the keys it found
    faults,
    restarts,
    scored,       \* history: marked ASNs that were scored since they were new
    missed,       \* history: those that came back after their marker had ended and
                  \* were not reported as new
    cutOff,       \* history: those whose report was lost, or whose worker was, before
                  \* it could score
    mishap        \* history: what has ever gone wrong for an ASN

vars == <<members, membersEnd, marker, ips, ipsEnd, clock, ttl, worker, timer,
          faults, restarts, scored, missed, cutOff, mishap>>
history == <<scored, missed, cutOff>>
window == <<members, membersEnd, marker>>
mapping == <<ips, ipsEnd>>
-----------------------------------------------------------------------------
NoTime == 0   \* the clock starts at 1

\* "lost": a call for the ASN failed, or its answer was lost, or the service
\* stopped between the two calls; "parted": the clock moved between the two calls,
\* or a clear deleted the addresses of an ASN that was in use by then.
Mishaps == {"lost", "parted"}

\* A worker holds the address of its entry until it has scored.
WorkerStates == [pc : {"check", "score"}, ip : IPs] \cup [pc : {"idle"}, ip : {NoIP}]

TypeOK ==
    /\ members \subseteq ASNs /\ membersEnd \in Nat
    /\ marker \in [ASNs -> Nat]
    /\ ips \in [ASNs -> SUBSET IPs] /\ ipsEnd \in [ASNs -> Nat]
    /\ clock \in Nat \ {0} /\ ttl \in TTLs
    /\ worker \in [Workers -> WorkerStates]
    /\ timer \in [Timers -> [pc : {"off", "armed", "scan", "delete"}, at : Nat,
                             keys : SUBSET ASNs]]
    /\ faults \in 0..MaxFaults /\ restarts \in 0..MaxRestarts
    /\ scored \subseteq ASNs /\ missed \subseteq ASNs /\ cutOff \subseteq ASNs
    /\ mishap \in [ASNs -> SUBSET Mishaps]

Idle == [pc |-> "idle", ip |-> NoIP]
Off == [pc |-> "off", at |-> NoTime, keys |-> {}]

Init ==
    /\ members = {} /\ membersEnd = NoTime
    /\ marker = [a \in ASNs |-> NoTime]
    /\ ips = [a \in ASNs |-> {}] /\ ipsEnd = [a \in ASNs |-> NoTime]
    /\ clock = 1 /\ ttl \in TTLs
    /\ worker = [w \in Workers |-> Idle]
    /\ timer = [c \in Timers |-> Off]
    /\ faults = 0 /\ restarts = 0
    /\ scored = {} /\ missed = {} /\ cutOff = {}
    /\ mishap = [a \in ASNs |-> {}]

Marked(a) == marker[a] # NoTime

Noted(S, kind) == [a \in ASNs |-> IF a \in S THEN mishap[a] \cup {kind} ELSE mishap[a]]

\* As in Enforcement: done, done but the answer lost, or not done.
Outcomes == {"ok", "lost", "failed"}

Call(o) ==
    /\ o # "ok" => faults < MaxFaults
    /\ faults' = IF o = "ok" THEN faults ELSE faults + 1

\* A worker has saved the address of an ASN and not run the script yet.
Observing(a) == \E w \in Workers : worker[w].pc = "check" /\ NetOf[worker[w].ip] = a

\* A worker was told that an ASN is new and has not scored yet.
Scoring(a) == \E w \in Workers : worker[w].pc = "score" /\ NetOf[worker[w].ip] = a

\* What is recorded of an ASN holds as long as it is marked.
KeepMarked ==
    /\ scored' = {a \in scored : marker'[a] # NoTime}
    /\ missed' = {a \in missed : marker'[a] # NoTime}
    /\ cutOff' = {a \in cutOff : marker'[a] # NoTime}
-----------------------------------------------------------------------------
(* processEntryByASN *)

\* Mutant of MappingEnd: only the first address sets the expiry.
MappingEndOnce(a) == IF ips[a] = {} THEN clock + ttl ELSE ipsEnd[a]

MappingEnd(a) == clock + ttl

\* AddIPToASNMapping: SADD and EXPIRE in one pipeline.  On an error the entry is
\* skipped.
SaveMapping(w, ip, o) ==
    LET a == NetOf[ip] IN
    /\ worker[w].pc = "idle"
    /\ Call(o)
    /\ worker' = IF o = "ok" THEN [worker EXCEPT ![w] = [pc |-> "check", ip |-> ip]]
                 ELSE worker
    /\ IF o = "failed" THEN UNCHANGED mapping
       ELSE /\ ips' = [ips EXCEPT ![a] = ips[a] \cup {ip}]
            /\ ipsEnd' = [ipsEnd EXCEPT ![a] = MappingEnd(a)]
    /\ mishap' = IF o = "ok" THEN mishap ELSE Noted({a}, "lost")
    /\ UNCHANGED <<window, clock, ttl, timer, restarts, history>>

\* Mutant of SetEnd: the life of the set is never shortened.
SetEndLonger(marks, active) ==
    {end \in {membersEnd} \cup {marks[b] + Grace : b \in active} :
        end >= membersEnd /\ \A b \in active : end >= marks[b] + Grace}

\* Mutant of SetEnd: the set lives as long as the marker just written.
SetEndOwn(marks, active) == {clock + ttl + Grace}

\* The set is given the longest life of its markers, and some more.
SetEnd(marks, active) ==
    {marks[a] + Grace : a \in {b \in active : \A c \in active : marks[c] <= marks[b]}}

\* Mutant of IsNew: only the first ASN of the user is new.
IsFirst(a) == members = {}

\* SADD's answer.
IsNew(a) == a \notin members

\* add_and_check_asn.lua.  A worker that is told of a new ASN goes on to score.
CheckAndAddASN(w, o) ==
    LET a == NetOf[worker[w].ip]
        marks == [marker EXCEPT ![a] = clock + ttl]
        active == {b \in members \cup {a} : marks[b] # NoTime} IN
    /\ worker[w].pc = "check"
    /\ Call(o)
    /\ worker' = [worker EXCEPT ![w] = IF o = "ok" /\ IsNew(a)
                                       THEN [@ EXCEPT !.pc = "score"] ELSE Idle]
    /\ IF o = "failed" THEN UNCHANGED <<window, missed, cutOff>>
       ELSE /\ members' = active
            /\ membersEnd' \in SetEnd(marks, active)
            /\ marker' = marks
            /\ missed' = IF ~ Marked(a) /\ a \in members THEN missed \cup {a} ELSE missed
            /\ cutOff' = IF o = "lost" /\ a \notin members THEN cutOff \cup {a} ELSE cutOff
    /\ mishap' = IF o = "ok" THEN mishap ELSE Noted({a}, "lost")
    /\ UNCHANGED <<mapping, clock, ttl, timer, restarts, scored>>

\* Mutant of ClearAt: the delay is subtracted.
ClearAtBackwards == clock - ClearDelay

ClearAt == clock + ClearDelay

\* calculateAndPersistScore: the score does not block the user, or it does and
\* arms a clear.
Score(w) ==
    /\ worker[w].pc = "score"
    /\ worker' = [worker EXCEPT ![w] = Idle]
    /\ scored' = scored \cup ({NetOf[worker[w].ip]} \cap {a \in ASNs : Marked(a)})
    /\ \/ UNCHANGED timer
       \/ \E c \in Timers :
            /\ timer[c] = Off
            /\ timer' = [timer EXCEPT ![c] = [pc |-> "armed", at |-> ClearAt, keys |-> {}]]
    /\ UNCHANGED <<window, mapping, clock, ttl, faults, restarts, missed, cutOff, mishap>>
-----------------------------------------------------------------------------
(* scheduleASNClear's timer: ClearUserASNData *)

\* The clear script: the set and the markers of its members, in one step.
ClearScript(c, o) ==
    /\ timer[c].pc = "armed" /\ timer[c].at <= clock
    /\ Call(o)
    /\ timer' = [timer EXCEPT ![c] = IF o = "ok" THEN [@ EXCEPT !.pc = "scan"] ELSE Off]
    /\ IF o = "failed" THEN UNCHANGED <<window, history>>
       ELSE /\ members' = {} /\ membersEnd' = NoTime
            /\ marker' = [a \in ASNs |-> IF a \in members THEN NoTime ELSE marker[a]]
            /\ KeepMarked
    /\ UNCHANGED <<mapping, clock, ttl, worker, restarts, mishap>>

\* SCAN user_asn_ips:{u}:*
ScanMappings(c, o) ==
    /\ timer[c].pc = "scan"
    /\ Call(o)
    /\ LET found == {a \in ASNs : ips[a] # {}} IN
       timer' = [timer EXCEPT ![c] = IF o = "ok" /\ found # {}
                                     THEN [@ EXCEPT !.pc = "delete", !.keys = found] ELSE Off]
    /\ UNCHANGED <<window, mapping, clock, ttl, worker, restarts, history, mishap>>

\* DEL of what the scan found.
DeleteMappings(c, o) ==
    /\ timer[c].pc = "delete"
    /\ Call(o)
    /\ timer' = [timer EXCEPT ![c] = Off]
    /\ IF o = "failed" THEN UNCHANGED <<mapping, mishap>>
       ELSE /\ ips' = [a \in ASNs |-> IF a \in timer[c].keys THEN {} ELSE ips[a]]
            /\ ipsEnd' = [a \in ASNs |-> IF a \in timer[c].keys THEN NoTime ELSE ipsEnd[a]]
            /\ mishap' = Noted({a \in timer[c].keys : Marked(a) \/ Observing(a)}, "parted")
    /\ UNCHANGED <<window, clock, ttl, worker, restarts, history>>
-----------------------------------------------------------------------------
(* The environment *)

\* Redis deletes the keys whose time has come.
Left(end) == IF end <= clock + 1 THEN NoTime ELSE end

Tick ==
    /\ clock < Horizon
    /\ clock' = clock + 1
    /\ membersEnd' = Left(membersEnd)
    /\ members' = IF membersEnd' = NoTime THEN {} ELSE members
    /\ marker' = [a \in ASNs |-> Left(marker[a])]
    /\ ipsEnd' = [a \in ASNs |-> Left(ipsEnd[a])]
    /\ ips' = [a \in ASNs |-> IF ipsEnd'[a] = NoTime THEN {} ELSE ips[a]]
    /\ KeepMarked
    /\ mishap' = Noted({a \in ASNs : Observing(a)}, "parted")
    /\ UNCHANGED <<ttl, worker, timer, faults, restarts>>

\* The service restarts, perhaps with another time to live: workers and timers
\* are gone, Redis is not.
Restart ==
    /\ restarts < MaxRestarts
    /\ restarts' = restarts + 1
    /\ ttl' \in TTLs
    /\ worker' = [w \in Workers |-> Idle]
    /\ timer' = [c \in Timers |-> Off]
    /\ mishap' = Noted({a \in ASNs : Observing(a)}, "lost")
    /\ cutOff' = cutOff \cup {a \in ASNs : Marked(a) /\ Scoring(a)}
    /\ UNCHANGED <<window, mapping, clock, faults, scored, missed>>

Next ==
    \/ \E w \in Workers, o \in Outcomes :
        (\E ip \in IPs : SaveMapping(w, ip, o)) \/ CheckAndAddASN(w, o)
    \/ \E w \in Workers : Score(w)
    \/ \E c \in Timers, o \in Outcomes :
        ClearScript(c, o) \/ ScanMappings(c, o) \/ DeleteMappings(c, o)
    \/ Tick
    \/ Restart

Spec == Init /\ [][Next]_vars
-----------------------------------------------------------------------------
(* Properties *)

\* The set never ends before a marker of one of its members, and nothing that
\* is marked is missing from it: a clear, a pruning and a shorter TTL after a
\* restart keep the two keys together.
MarkedIsMember == \A a \in ASNs : Marked(a) => a \in members

\* While an ASN stays marked nobody is told again that it is new: a connection is
\* recorded and scored once per window, even by workers that race for it.
NewOncePerWindow ==
    [][\A w \in Workers :
          LET a == NetOf[worker[w].ip] IN
          worker[w].pc = "check" /\ worker'[w].pc = "score" => ~ Marked(a)]_vars

\* A user is scored for every ASN it is active on, once per life of the marker,
\* however workers race for the ASN and whichever keys end or are cleared
\* meanwhile: an ASN that is marked and neither scored nor about to be came back
\* while the set still held it (add_and_check_asn.lua:6), or a lost answer or a
\* stop came between its report and the score (processor.go:672).
ActiveIsScored ==
    \A a \in ASNs : Marked(a) =>
        a \in scored \/ Scoring(a) \/ a \in missed \/ a \in cutOff

\* The set outlives the last marker by no more than the grace of the script, also
\* when a restart has shortened the time to live: a user who was quiet for longer
\* has no ASN that is taken for known when it comes back
\* (add_and_check_asn.lua:6).
QuietWindowEnds ==
    members # {} /\ (\A a \in ASNs : ~ Marked(a)) => membersEnd <= clock + Grace

\* A marked ASN has at least one address to score and to block, unless a clear
\* overlapped with an observation of it, a call failed, or time passed between the
\* two calls of one.
MarkedHasAddress ==
    \A a \in ASNs : Marked(a) /\ mishap[a] = {} => ips[a] # {}

\* README.md:195 "TTL of the hot ASN window" and redis.go:158 "prunes expired ASN
\* markers": an ASN whose marker has ended is new when it comes back.
ReturnIsNew == missed = {}
=============================================================================
