-------------------------- MODULE HotWindowProofs ---------------------------
(***************************************************************************)
(* Proofs about HotWindow for every set of ASNs, addresses, workers and    *)
(* timers, every time to live and every bound.                             *)
(*                                                                         *)
(* MarkedIsMember alone is not inductive: a tick may delete the set while  *)
(* a marker stays.  Lasting adds what the script's EXPIRE is for, that the *)
(* set ends no earlier than any marker.  Nor is QuietWindowEnds: Graced    *)
(* says which marker the end of the set comes from while there is one.     *)
(***************************************************************************)
EXTENDS HotWindow, TLAPS

Lasting ==
    \A a \in ASNs : Marked(a) => a \in members /\ membersEnd >= marker[a]

Graced ==
    \/ membersEnd <= clock + Grace
    \/ \E a \in ASNs : Marked(a) /\ membersEnd <= marker[a] + Grace

IInv == TypeOK /\ Lasting /\ Graced /\ ActiveIsScored
-----------------------------------------------------------------------------
(* The operators *)

LEMMA CallType ==
    ASSUME TypeOK, NEW o \in Outcomes, Call(o)
    PROVE  faults' \in 0..MaxFaults
BY HotWindowAssumption DEF TypeOK, Call

LEMMA LeftType ==
    ASSUME TypeOK, NEW end \in Nat
    PROVE  Left(end) \in Nat /\ (Left(end) # NoTime => Left(end) = end /\ end > clock + 1)
BY DEF TypeOK, Left, NoTime

\* Whatever SetEnd offers is a number no smaller than any active marker.
LEMMA SetEndCovers ==
    ASSUME NEW marks \in [ASNs -> Nat], NEW active \in SUBSET ASNs,
           NEW end \in SetEnd(marks, active)
    PROVE  /\ end \in Nat /\ \A a \in active : marks[a] <= end
           /\ \E a \in active : end = marks[a] + Grace
BY HotWindowAssumption DEF SetEnd

\* What the script does to the window when it runs for ASN a.
AddEffect(a) ==
    /\ members' \subseteq members \cup {a} /\ members' \subseteq ASNs
    /\ membersEnd' \in Nat
    /\ marker' = [marker EXCEPT ![a] = clock + ttl]
    /\ marker' \in [ASNs -> Nat]
    /\ \A b \in members \cup {a} : marker'[b] # NoTime => b \in members'
    /\ \A b \in members' : marker'[b] <= membersEnd'
    /\ \E b \in members' : marker'[b] # NoTime /\ membersEnd' = marker'[b] + Grace

LEMMA AddTakesEffect ==
    ASSUME TypeOK, NEW w \in Workers, NEW o \in Outcomes, CheckAndAddASN(w, o),
           o # "failed"
    PROVE  NetOf[worker[w].ip] \in ASNs /\ AddEffect(NetOf[worker[w].ip])
<1> DEFINE a == NetOf[worker[w].ip]
           marks == [marker EXCEPT ![a] = clock + ttl]
           active == {b \in members \cup {a} : marks[b] # NoTime}
<1>1. a \in ASNs
  BY HotWindowAssumption DEF CheckAndAddASN, TypeOK, WorkerStates
<1>2. marks \in [ASNs -> Nat] /\ active \in SUBSET ASNs
  BY <1>1, HotWindowAssumption DEF TypeOK
<1>3. /\ members' = active
      /\ membersEnd' \in SetEnd(marks, active)
      /\ marker' = marks
  BY DEF CheckAndAddASN
<1>4. /\ membersEnd' \in Nat /\ \A b \in active : marks[b] <= membersEnd'
      /\ \E b \in active : membersEnd' = marks[b] + Grace
  <2> HIDE DEF marks, active
  <2> QED BY <1>2, <1>3, SetEndCovers
<1>5. AddEffect(a)
  BY <1>1, <1>2, <1>3, <1>4 DEF AddEffect
<1> QED
  BY <1>1, <1>5
-----------------------------------------------------------------------------
(* The type invariant *)

TimerStates == [pc : {"off", "armed", "scan", "delete"}, at : Nat, keys : SUBSET ASNs]

LEMMA TypeInit == Init => TypeOK
  BY HotWindowAssumption DEF Init, TypeOK, Idle, Off, NoTime, Mishaps, WorkerStates

LEMMA TypeStep == TypeOK /\ [Next]_vars => TypeOK'
<1> SUFFICES ASSUME TypeOK, [Next]_vars PROVE TypeOK'
  OBVIOUS
<1> USE HotWindowAssumption
<1>1. ASSUME NEW w \in Workers, NEW ip \in IPs, NEW o \in Outcomes, SaveMapping(w, ip, o)
      PROVE  TypeOK'
  <2>1. NetOf[ip] \in ASNs /\ MappingEnd(NetOf[ip]) \in Nat
    BY DEF TypeOK, MappingEnd
  <2>2. ips' \in [ASNs -> SUBSET IPs] /\ ipsEnd' \in [ASNs -> Nat]
    BY <1>1, <2>1 DEF TypeOK, SaveMapping, mapping
  <2>3. mishap' \in [ASNs -> SUBSET Mishaps]
    BY <1>1, <2>1 DEF TypeOK, SaveMapping, Noted, Mishaps
  <2>4. worker' \in [Workers -> WorkerStates]
    BY <1>1 DEF TypeOK, SaveMapping, WorkerStates
  <2>5. faults' \in 0..MaxFaults
    BY <1>1, CallType DEF SaveMapping
  <2> QED
    BY <1>1, <2>2, <2>3, <2>4, <2>5 DEF TypeOK, SaveMapping, window, history
<1>2. ASSUME NEW w \in Workers, NEW o \in Outcomes, CheckAndAddASN(w, o)
      PROVE  TypeOK'
  <2>1. worker' \in [Workers -> WorkerStates]
    BY <1>2 DEF TypeOK, CheckAndAddASN, WorkerStates, Idle
  <2>2. faults' \in 0..MaxFaults
    BY <1>2, CallType DEF CheckAndAddASN
  <2>3. mishap' \in [ASNs -> SUBSET Mishaps]
    BY <1>2 DEF TypeOK, CheckAndAddASN, Noted, Mishaps
  <2>4. CASE o = "failed"
    BY <1>2, <2>1, <2>2, <2>3, <2>4 DEF TypeOK, CheckAndAddASN, window, mapping
  <2>5. CASE o # "failed"
    <3> DEFINE a == NetOf[worker[w].ip]
    <3>1. a \in ASNs /\ AddEffect(a)
      BY <1>2, <2>5, AddTakesEffect
    <3>2. /\ members' \subseteq ASNs /\ membersEnd' \in Nat
          /\ marker' \in [ASNs -> Nat]
      BY <3>1 DEF AddEffect
    <3>3. scored' \subseteq ASNs /\ missed' \subseteq ASNs /\ cutOff' \subseteq ASNs
      <4>1. /\ missed' \in {missed, missed \cup {a}} /\ cutOff' \in {cutOff, cutOff \cup {a}}
            /\ scored' = scored
        BY <1>2, <2>5 DEF CheckAndAddASN
      <4> QED BY <3>1, <4>1 DEF TypeOK
    <3> QED
      BY <1>2, <2>1, <2>2, <2>3, <3>2, <3>3 DEF TypeOK, CheckAndAddASN, mapping
  <2> QED
    BY <2>4, <2>5
<1>3. ASSUME NEW w \in Workers, Score(w) PROVE TypeOK'
  <2>1. worker' \in [Workers -> WorkerStates]
    BY <1>3 DEF TypeOK, Score, WorkerStates, Idle
  <2>2. timer' \in [Timers -> TimerStates]
    BY <1>3 DEF TypeOK, Score, ClearAt, TimerStates
  <2>3. scored' \subseteq ASNs
    BY <1>3 DEF TypeOK, Score
  <2> QED
    BY <1>3, <2>1, <2>2, <2>3 DEF TypeOK, Score, window, mapping, TimerStates
<1>4. ASSUME NEW c \in Timers, NEW o \in Outcomes, ClearScript(c, o) PROVE TypeOK'
  <2>1. timer' \in [Timers -> TimerStates] /\ faults' \in 0..MaxFaults
    BY <1>4, CallType DEF TypeOK, ClearScript, Off, NoTime, TimerStates
  <2>2. members' \subseteq ASNs /\ membersEnd' \in Nat /\ marker' \in [ASNs -> Nat]
    BY <1>4 DEF TypeOK, ClearScript, window, NoTime
  <2>3. scored' \subseteq ASNs /\ missed' \subseteq ASNs /\ cutOff' \subseteq ASNs
    BY <1>4 DEF TypeOK, ClearScript, history, KeepMarked
  <2> QED
    BY <1>4, <2>1, <2>2, <2>3 DEF TypeOK, ClearScript, mapping, TimerStates
<1>5. ASSUME NEW c \in Timers, NEW o \in Outcomes, ScanMappings(c, o) PROVE TypeOK'
  <2>1. timer' \in [Timers -> TimerStates] /\ faults' \in 0..MaxFaults
    BY <1>5, CallType DEF TypeOK, ScanMappings, Off, NoTime, TimerStates
  <2>2. UNCHANGED <<clock, ttl, members, membersEnd, marker, ips, ipsEnd, worker,
                    restarts, mishap, scored, missed, cutOff>>
    BY <1>5 DEF ScanMappings, window, mapping, history
  <2> QED
    BY <2>1, <2>2, SMTT(20) DEF TypeOK, TimerStates
<1>6. ASSUME NEW c \in Timers, NEW o \in Outcomes, DeleteMappings(c, o) PROVE TypeOK'
  <2>1. timer' \in [Timers -> TimerStates] /\ faults' \in 0..MaxFaults
    BY <1>6, CallType DEF TypeOK, DeleteMappings, Off, NoTime, TimerStates
  <2>2. ips' \in [ASNs -> SUBSET IPs] /\ ipsEnd' \in [ASNs -> Nat]
    <3>1. CASE o = "failed"
      BY <1>6, <3>1, SMTT(20) DEF TypeOK, DeleteMappings, mapping
    <3>2. CASE o # "failed"
      <4>1. ips' = [a \in ASNs |-> IF a \in timer[c].keys THEN {} ELSE ips[a]]
        BY <1>6, <3>2 DEF DeleteMappings
      <4>2. ipsEnd' = [a \in ASNs |-> IF a \in timer[c].keys THEN NoTime ELSE ipsEnd[a]]
        BY <1>6, <3>2 DEF DeleteMappings
      <4> QED
        BY <4>1, <4>2, SMTT(20) DEF TypeOK, NoTime
    <3> QED
      BY <3>1, <3>2
  <2>3. mishap' \in [ASNs -> SUBSET Mishaps]
    BY <1>6 DEF TypeOK, DeleteMappings, Noted, Mishaps
  <2>4. UNCHANGED <<clock, ttl, members, membersEnd, marker, worker, restarts,
                    scored, missed, cutOff>>
    BY <1>6 DEF DeleteMappings, window, history
  <2> QED
    BY <2>1, <2>2, <2>3, <2>4, SMTT(20) DEF TypeOK, TimerStates
<1>7. ASSUME Tick PROVE TypeOK'
  <2>1. clock' \in Nat \ {0} /\ membersEnd' \in Nat /\ members' \subseteq ASNs
    BY <1>7, LeftType DEF TypeOK, Tick
  <2>2. marker' \in [ASNs -> Nat] /\ ipsEnd' \in [ASNs -> Nat]
    BY <1>7, LeftType DEF TypeOK, Tick
  <2>3. ips' \in [ASNs -> SUBSET IPs]
    BY <1>7 DEF TypeOK, Tick
  <2>4. mishap' \in [ASNs -> SUBSET Mishaps]
    BY <1>7 DEF TypeOK, Tick, Noted, Mishaps
  <2>5. scored' \subseteq ASNs /\ missed' \subseteq ASNs /\ cutOff' \subseteq ASNs
    BY <1>7 DEF TypeOK, Tick, KeepMarked
  <2> QED
    BY <1>7, <2>1, <2>2, <2>3, <2>4, <2>5 DEF TypeOK, Tick
<1>8. ASSUME Restart PROVE TypeOK'
  <2>1. worker' \in [Workers -> WorkerStates] /\ timer' \in [Timers -> TimerStates]
    BY <1>8 DEF TypeOK, Restart, WorkerStates, Idle, Off, NoTime, TimerStates
  <2>2. mishap' \in [ASNs -> SUBSET Mishaps]
    BY <1>8 DEF TypeOK, Restart, Noted, Mishaps
  <2>3. cutOff' \subseteq ASNs
    BY <1>8 DEF TypeOK, Restart
  <2> QED
    BY <1>8, <2>1, <2>2, <2>3 DEF TypeOK, Restart, window, mapping, TimerStates
<1>9. ASSUME UNCHANGED vars PROVE TypeOK'
  BY <1>9 DEF TypeOK, vars
<1> QED
  BY <1>1, <1>2, <1>3, <1>4, <1>5, <1>6, <1>7, <1>8, <1>9 DEF Next

\* Redis keys, clock and actors always hold values of their types.
THEOREM TypeCorrect == Spec => []TypeOK
  BY TypeInit, TypeStep, PTL DEF Spec
-----------------------------------------------------------------------------
(* The set lives as long as its markers and little longer *)

LEMMA WindowInit == Init => Lasting /\ Graced
  BY HotWindowAssumption DEF Init, Lasting, Graced, Marked, NoTime

LEMMA WindowStep ==
    ASSUME TypeOK, Lasting, Graced, [Next]_vars
    PROVE  Lasting' /\ Graced'
<1> USE HotWindowAssumption
<1>1. CASE UNCHANGED <<window, clock>>
  BY <1>1 DEF window, Lasting, Graced, Marked
<1>2. ASSUME NEW w \in Workers, NEW o \in Outcomes, CheckAndAddASN(w, o), o # "failed"
      PROVE  Lasting' /\ Graced'
  <2>1. AddEffect(NetOf[worker[w].ip]) /\ NetOf[worker[w].ip] \in ASNs
    BY <1>2, AddTakesEffect
  <2>2. Lasting'
    BY <2>1 DEF AddEffect, TypeOK, Lasting, Marked
  <2>3. Graced'
    BY <2>1 DEF AddEffect, Graced, Marked
  <2> QED
    BY <2>2, <2>3
<1>3. ASSUME NEW c \in Timers, NEW o \in Outcomes, ClearScript(c, o), o # "failed"
      PROVE  Lasting' /\ Graced'
  <2>1. \A a \in ASNs : marker'[a] = NoTime
    BY <1>3 DEF TypeOK, ClearScript, Lasting, Marked
  <2>2. membersEnd' = NoTime /\ clock' = clock
    BY <1>3 DEF ClearScript
  <2>3. NoTime <= clock + Grace
    BY DEF TypeOK, NoTime
  <2> QED
    BY <2>1, <2>2, <2>3 DEF Lasting, Graced, Marked
<1>4. CASE Tick
  <2>1. Lasting'
    <3> SUFFICES ASSUME NEW a \in ASNs, marker'[a] # NoTime
                 PROVE  a \in members' /\ membersEnd' >= marker'[a]
      BY DEF Lasting, Marked
    <3>1. marker[a] # NoTime /\ marker'[a] = marker[a] /\ marker[a] > clock + 1
      BY <1>4, LeftType DEF TypeOK, Tick, Left, NoTime
    <3>2. a \in members /\ membersEnd >= marker[a]
      BY <3>1 DEF Lasting, Marked
    <3>3. membersEnd' = membersEnd /\ membersEnd # NoTime
      BY <1>4, <3>1, <3>2 DEF TypeOK, Tick, Left, NoTime
    <3> QED
      BY <1>4, <3>1, <3>2, <3>3 DEF Tick
  <2>2. Graced'
    <3>0. /\ membersEnd \in Nat /\ clock \in Nat /\ Grace \in Nat /\ clock' = clock + 1
          /\ membersEnd' \in {membersEnd, 0}
      BY <1>4 DEF Tick, TypeOK, Left, NoTime
    <3>1. CASE membersEnd <= clock + Grace
      BY <3>0, <3>1 DEF Graced
    <3>2. ASSUME NEW a \in ASNs, Marked(a), membersEnd <= marker[a] + Grace
          PROVE  Graced'
      <4>1. marker[a] \in Nat /\ marker'[a] = Left(marker[a])
        BY <1>4 DEF Tick, TypeOK
      <4>2. CASE marker[a] <= clock + 1
        BY <3>0, <3>2, <4>1, <4>2 DEF Graced
      <4>3. CASE marker[a] > clock + 1
        <5>1. marker'[a] = marker[a] BY <3>0, <4>1, <4>3 DEF Left
        <5>2. Marked(a)' BY <3>2, <5>1 DEF Marked
        <5>3. membersEnd' <= marker'[a] + Grace BY <3>0, <3>2, <4>1, <5>1
        <5> QED BY <5>2, <5>3 DEF Graced
      <4> QED BY <3>0, <4>1, <4>2, <4>3
    <3> QED BY <3>1, <3>2 DEF Graced
  <2> QED
    BY <2>1, <2>2
<1>5. ASSUME NEW w \in Workers, NEW o \in Outcomes,
             \/ \E ip \in IPs : SaveMapping(w, ip, o)
             \/ CheckAndAddASN(w, o) /\ o = "failed"
      PROVE  UNCHANGED <<window, clock>>
  BY <1>5 DEF SaveMapping, CheckAndAddASN
<1>6. ASSUME NEW c \in Timers, NEW o \in Outcomes,
             \/ ClearScript(c, o) /\ o = "failed"
             \/ ScanMappings(c, o)
             \/ DeleteMappings(c, o)
      PROVE  UNCHANGED <<window, clock>>
  BY <1>6 DEF ClearScript, ScanMappings, DeleteMappings
<1>7. Restart \/ UNCHANGED vars => UNCHANGED <<window, clock>>
  BY DEF Restart, vars, window
<1>8. ASSUME NEW w \in Workers, Score(w) PROVE UNCHANGED <<window, clock>>
  BY <1>8 DEF Score
<1> QED
  BY <1>1, <1>2, <1>3, <1>4, <1>5, <1>6, <1>7, <1>8 DEF Next
-----------------------------------------------------------------------------
(* Who has been scored *)

Accounted(a) == a \in scored \/ Scoring(a) \/ a \in missed \/ a \in cutOff

\* A step that leaves the marker and the records of an ASN, and the worker that
\* is about to score it.
LEMMA AccountedElsewhere ==
    ASSUME ActiveIsScored, NEW a \in ASNs, Marked(a)', Marked(a)' => Marked(a),
           a \in scored => a \in scored', a \in missed => a \in missed',
           a \in cutOff => a \in cutOff', Scoring(a) => Scoring(a)'
    PROVE  Accounted(a)'
BY DEF ActiveIsScored, Accounted

LEMMA ScoredStep ==
    ASSUME TypeOK, ActiveIsScored, [Next]_vars
    PROVE  ActiveIsScored'
<1> SUFFICES ASSUME NEW a \in ASNs, Marked(a)' PROVE Accounted(a)'
  BY DEF ActiveIsScored, Accounted, Marked, Scoring
<1> USE HotWindowAssumption
<1>1. ASSUME NEW w \in Workers, NEW ip \in IPs, NEW o \in Outcomes, SaveMapping(w, ip, o)
      PROVE  Accounted(a)'
  <2>1. UNCHANGED <<marker, scored, missed, cutOff>>
    BY <1>1 DEF SaveMapping, window, history
  <2>2. worker[w].pc = "idle"
        /\ worker' \in {worker, [worker EXCEPT ![w] = [pc |-> "check", ip |-> ip]]}
    BY <1>1 DEF SaveMapping
  <2>3. Scoring(a) => Scoring(a)' BY <2>2 DEF Scoring, TypeOK
  <2> QED BY <2>1, <2>3, AccountedElsewhere DEF Marked
<1>2. ASSUME NEW w \in Workers, NEW o \in Outcomes, CheckAndAddASN(w, o)
      PROVE  Accounted(a)'
  <2> DEFINE b == NetOf[worker[w].ip]
             told == IF o = "ok" /\ IsNew(b) THEN [worker[w] EXCEPT !.pc = "score"] ELSE Idle
  <2>1. worker[w] \in [pc : {"check"}, ip : IPs] /\ b \in ASNs
    BY <1>2 DEF CheckAndAddASN, TypeOK, WorkerStates
  <2>2. worker' = [worker EXCEPT ![w] = told] /\ scored' = scored
    BY <1>2 DEF CheckAndAddASN
  <2>3. missed \subseteq missed' /\ cutOff \subseteq cutOff'
    BY <1>2 DEF CheckAndAddASN
  <2>4. Scoring(a) => Scoring(a)'
    <3> HIDE DEF told
    <3> QED BY <2>1, <2>2 DEF Scoring, TypeOK
  <2>5. CASE Marked(a) BY <2>2, <2>3, <2>4, <2>5, AccountedElsewhere
  <2>6. CASE ~ Marked(a)
    <3>1. o # "failed" /\ a = b
      BY <1>2, <2>6 DEF CheckAndAddASN, TypeOK, window, Marked
    <3>2. CASE a \in members
      BY <1>2, <2>6, <3>1, <3>2 DEF CheckAndAddASN, Accounted
    <3>3. CASE a \notin members /\ o = "lost"
      BY <1>2, <3>1, <3>3 DEF CheckAndAddASN, Accounted
    <3>4. CASE a \notin members /\ o = "ok"
      <4>1. told = [worker[w] EXCEPT !.pc = "score"] BY <3>1, <3>4 DEF IsNew
      <4>2. told.pc = "score" /\ told.ip = worker[w].ip BY <2>1, <4>1
      <4>3. worker'[w] = told BY <2>2 DEF TypeOK
      <4> QED BY <3>1, <4>2, <4>3 DEF Accounted, Scoring
    <3> QED BY <3>1, <3>2, <3>3, <3>4 DEF Outcomes
  <2> QED BY <2>5, <2>6
<1>3. ASSUME NEW w \in Workers, Score(w) PROVE Accounted(a)'
  <2>1. UNCHANGED <<marker, missed, cutOff>> BY <1>3 DEF Score, window
  <2>2. Marked(a) BY <2>1 DEF Marked
  <2>3. /\ worker[w].pc = "score" /\ worker' = [worker EXCEPT ![w] = Idle]
        /\ scored' = scored \cup ({NetOf[worker[w].ip]} \cap {b \in ASNs : Marked(b)})
    BY <1>3 DEF Score
  <2>4. CASE NetOf[worker[w].ip] = a BY <2>2, <2>3, <2>4 DEF Accounted
  <2>5. CASE NetOf[worker[w].ip] # a
    <3>1. Scoring(a) => Scoring(a)' BY <2>3, <2>5 DEF Scoring, TypeOK
    <3> QED BY <2>1, <2>2, <2>3, <3>1, AccountedElsewhere
  <2> QED BY <2>4, <2>5
<1>4. CASE KeepMarked /\ UNCHANGED worker /\ (Marked(a)' => Marked(a))
  <2>1. Marked(a) /\ marker'[a] # NoTime BY <1>4 DEF Marked
  <2>2. Scoring(a) => Scoring(a)' BY <1>4 DEF Scoring
  <2> QED BY <1>4, <2>1, <2>2, AccountedElsewhere DEF KeepMarked
<1>5. CASE UNCHANGED <<marker, worker, scored, missed, cutOff>>
  <2>1. Scoring(a) => Scoring(a)' BY <1>5 DEF Scoring
  <2> QED BY <1>5, <2>1, AccountedElsewhere DEF Marked
<1>6. ASSUME NEW c \in Timers, NEW o \in Outcomes, ClearScript(c, o) PROVE Accounted(a)'
  <2>1. CASE o = "failed" BY <1>5, <1>6, <2>1 DEF ClearScript, window, history
  <2>2. CASE o # "failed"
    <3>1. KeepMarked /\ UNCHANGED worker BY <1>6, <2>2 DEF ClearScript
    <3>2. Marked(a)' => Marked(a) BY <1>6, <2>2 DEF ClearScript, Marked
    <3> QED BY <1>4, <3>1, <3>2
  <2> QED BY <2>1, <2>2
<1>7. ASSUME NEW c \in Timers, NEW o \in Outcomes, ScanMappings(c, o) \/ DeleteMappings(c, o)
      PROVE  Accounted(a)'
  <2>1. UNCHANGED <<window, worker, history>> BY <1>7 DEF ScanMappings, DeleteMappings
  <2> QED BY <1>5, <2>1 DEF window, history
<1>8. CASE Tick
  <2>1. Marked(a)' => Marked(a) BY <1>8 DEF Tick, Marked, Left
  <2>2. KeepMarked /\ UNCHANGED worker BY <1>8 DEF Tick
  <2> QED BY <1>4, <2>1, <2>2
<1>9. CASE Restart
  <2>1. UNCHANGED <<marker, scored, missed>> BY <1>9 DEF Restart, window
  <2>2. cutOff' = cutOff \cup {b \in ASNs : Marked(b) /\ Scoring(b)} BY <1>9 DEF Restart
  <2> QED BY <2>1, <2>2 DEF ActiveIsScored, Accounted, Marked
<1>10. CASE UNCHANGED vars BY <1>5, <1>10 DEF vars
<1> QED
  BY <1>1, <1>2, <1>3, <1>6, <1>7, <1>8, <1>9, <1>10 DEF Next
-----------------------------------------------------------------------------
(* The theorems *)

LEMMA AlwaysIInv == Spec => []IInv
<1>1. Init => IInv
  BY TypeInit, WindowInit DEF Init, IInv, ActiveIsScored, Marked
<1>2. IInv /\ [Next]_vars => IInv'
  BY TypeStep, WindowStep, ScoredStep DEF IInv
<1> QED
  BY <1>1, <1>2, PTL DEF Spec

\* The set outlives the markers of its members, whatever the times to live of
\* one start and the next and whenever a clear runs (add_and_check_asn.lua:47).
THEOREM MarkersHaveSet == Spec => []MarkedIsMember
<1>1. IInv => MarkedIsMember
  BY DEF IInv, Lasting, MarkedIsMember
<1> QED
  BY <1>1, AlwaysIInv, PTL

\* A user who has gone quiet is forgotten within the grace of the script, so that
\* a provider is taken for known after its marker ended only while another one
\* keeps the set alive, or for that long (add_and_check_asn.lua:47).
THEOREM QuietEnds == Spec => []QuietWindowEnds
<1>1. IInv => QuietWindowEnds
  BY DEF IInv, Graced, QuietWindowEnds
<1> QED
  BY <1>1, AlwaysIInv, PTL

\* However workers race, keys end and clears run, every provider a user is active
\* on is scored, but for one that came back while the set still held it and one
\* whose report or whose worker was lost on the way (processor.go:672).
THEOREM EveryProviderScored == Spec => []ActiveIsScored
<1>1. IInv => ActiveIsScored
  BY DEF IInv
<1> QED
  BY <1>1, AlwaysIInv, PTL

\* A marked ASN is never reported as new again, however many workers race for it.
THEOREM NewOnce == Spec => NewOncePerWindow
<1>1. ASSUME IInv, Next, NEW w \in Workers,
             worker[w].pc = "check", worker'[w].pc = "score"
      PROVE  ~ Marked(NetOf[worker[w].ip])
  <2>1. PICK o \in Outcomes : CheckAndAddASN(w, o)
    <3>1. ASSUME NEW v \in Workers, NEW ip \in IPs, NEW o \in Outcomes, SaveMapping(v, ip, o)
          PROVE  FALSE
      BY <1>1, <3>1 DEF IInv, TypeOK, SaveMapping
    <3>2. ASSUME NEW v \in Workers, NEW o \in Outcomes, CheckAndAddASN(v, o), v # w
          PROVE  FALSE
      BY <1>1, <3>2 DEF IInv, TypeOK, CheckAndAddASN
    <3>3. ASSUME NEW v \in Workers, Score(v) PROVE FALSE
      BY <1>1, <3>3 DEF IInv, TypeOK, Score, Idle
    <3>4. ASSUME NEW c \in Timers, NEW o \in Outcomes,
                 ClearScript(c, o) \/ ScanMappings(c, o) \/ DeleteMappings(c, o)
          PROVE  FALSE
      BY <1>1, <3>4 DEF ClearScript, ScanMappings, DeleteMappings
    <3>5. CASE Tick
      BY <1>1, <3>5 DEF Tick
    <3>6. CASE Restart
      BY <1>1, <3>6 DEF Restart, Idle
    <3> QED
      BY <1>1, <3>1, <3>2, <3>3, <3>4, <3>5, <3>6 DEF Next
  <2>2. IsNew(NetOf[worker[w].ip]) /\ NetOf[worker[w].ip] \in ASNs
    BY <1>1, <2>1, HotWindowAssumption
       DEF IInv, TypeOK, WorkerStates, CheckAndAddASN, Idle
  <2> QED
    BY <1>1, <2>2 DEF IInv, Lasting, IsNew
<1>2. IInv /\ [Next]_vars =>
        [\A w \in Workers :
            LET a == NetOf[worker[w].ip] IN
            worker[w].pc = "check" /\ worker'[w].pc = "score" => ~ Marked(a)]_vars
  BY <1>1 DEF vars
<1> QED
  BY <1>2, AlwaysIInv, PTL DEF Spec, NewOncePerWindow
-----------------------------------------------------------------------------
(***************************************************************************)
(* Why a marked ASN has an address.  The addresses of an ASN must not end  *)
(* before its marker, though each is written by a call of its own, with    *)
(* the time to live of the day: that holds outside an observation, and     *)
(* between its two calls the second is about to make it so (Mapped).       *)
(***************************************************************************)
Kept == \A a \in ASNs : ipsEnd[a] # NoTime => ips[a] # {}

MappedFor(a) ==
    /\ Observing(a) => ipsEnd[a] = clock + ttl
    /\ Marked(a) => Observing(a) \/ ipsEnd[a] >= marker[a]

Mapped == \A a \in ASNs : mishap[a] = {} => MappedFor(a)

\* Notes are never taken back, and those who are noted keep the note.
LEMMA NotedClean ==
    ASSUME TypeOK, NEW S, NEW kind, NEW a \in ASNs, mishap' = Noted(S, kind), mishap'[a] = {}
    PROVE  mishap[a] = {} /\ a \notin S
BY DEF TypeOK, Noted

LEMMA KeptStep ==
    ASSUME TypeOK, Kept, [Next]_vars
    PROVE  Kept'
<1> USE HotWindowAssumption
<1>1. CASE UNCHANGED mapping BY <1>1 DEF mapping, Kept
<1>2. ASSUME NEW w \in Workers, NEW ip \in IPs, NEW o \in Outcomes, SaveMapping(w, ip, o),
             o # "failed"
      PROVE  Kept'
  <2> DEFINE a == NetOf[ip]
  <2>1. a \in ASNs OBVIOUS
  <2>2. /\ ips' = [ips EXCEPT ![a] = ips[a] \cup {ip}]
        /\ ipsEnd' = [ipsEnd EXCEPT ![a] = MappingEnd(a)]
    BY <1>2 DEF SaveMapping
  <2> QED BY <2>1, <2>2 DEF TypeOK, Kept
<1>3. ASSUME NEW c \in Timers, NEW o \in Outcomes, DeleteMappings(c, o), o # "failed"
      PROVE  Kept'
  BY <1>3 DEF DeleteMappings, TypeOK, Kept
<1>4. CASE Tick BY <1>4 DEF Tick, TypeOK, Kept, Left
<1>5. ASSUME NEW w \in Workers, NEW o \in Outcomes,
             \/ \E ip \in IPs : SaveMapping(w, ip, o) /\ o = "failed"
             \/ CheckAndAddASN(w, o)
      PROVE  UNCHANGED mapping
  BY <1>5, Zenon DEF SaveMapping, CheckAndAddASN
<1>6. ASSUME NEW c \in Timers, NEW o \in Outcomes,
             \/ ClearScript(c, o)
             \/ ScanMappings(c, o)
             \/ DeleteMappings(c, o) /\ o = "failed"
      PROVE  UNCHANGED mapping
  BY <1>6, Zenon DEF ClearScript, ScanMappings, DeleteMappings
<1>7. ASSUME NEW w \in Workers, Score(w) PROVE UNCHANGED mapping BY <1>7 DEF Score
<1>8. Restart => UNCHANGED mapping BY DEF Restart
<1>9. UNCHANGED vars => UNCHANGED mapping BY DEF vars, mapping
<1> QED BY <1>1, <1>2, <1>3, <1>4, <1>5, <1>6, <1>7, <1>8, <1>9 DEF Next

\* A step that touches neither the keys of an ASN nor its observations.
LEMMA MappedElsewhere ==
    ASSUME NEW a \in ASNs, MappedFor(a), UNCHANGED <<clock, ttl>>,
           ipsEnd'[a] = ipsEnd[a], marker'[a] = marker[a] \/ ~ Marked(a)',
           Observing(a)' <=> Observing(a)
    PROVE  MappedFor(a)'
BY DEF MappedFor, Marked

LEMMA MappedStep ==
    ASSUME TypeOK, Mapped, [Next]_vars, NEW a \in ASNs, mishap'[a] = {}
    PROVE  MappedFor(a)'
<1> USE HotWindowAssumption
<1>1. ASSUME NEW w \in Workers, NEW ip \in IPs, NEW o \in Outcomes, SaveMapping(w, ip, o)
      PROVE  MappedFor(a)'
  <2> DEFINE b == NetOf[ip]
  <2>1. b \in ASNs OBVIOUS
  <2>2. mishap[a] = {} /\ (a = b => o = "ok")
    BY <1>1, NotedClean DEF SaveMapping
  <2>3. MappedFor(a) BY <2>2 DEF Mapped
  <2>4. UNCHANGED <<marker, clock, ttl>> BY <1>1 DEF SaveMapping, window
  <2>5. CASE a = b
    <3>1. ipsEnd'[a] = clock + ttl
      BY <1>1, <2>1, <2>2, <2>5 DEF SaveMapping, MappingEnd, TypeOK
    <3>2. worker'[w] = [pc |-> "check", ip |-> ip]
      BY <1>1, <2>2, <2>5 DEF SaveMapping, TypeOK
    <3>3. Observing(a)' BY <2>5, <3>2 DEF Observing
    <3> QED BY <2>4, <3>1, <3>3 DEF MappedFor
  <2>6. CASE a # b
    <3>1. ipsEnd'[a] = ipsEnd[a]
      BY <1>1, <2>1, <2>6 DEF SaveMapping, mapping, TypeOK
    <3>2. worker[w].pc = "idle"
          /\ worker' \in {worker, [worker EXCEPT ![w] = [pc |-> "check", ip |-> ip]]}
      BY <1>1 DEF SaveMapping
    <3>3. Observing(a)' <=> Observing(a) BY <2>6, <3>2, SMTT(20) DEF Observing, TypeOK
    <3> QED BY <2>3, <2>4, <3>1, <3>3, MappedElsewhere
  <2> QED BY <2>5, <2>6
<1>2. ASSUME NEW w \in Workers, NEW o \in Outcomes, CheckAndAddASN(w, o)
      PROVE  MappedFor(a)'
  <2> DEFINE b == NetOf[worker[w].ip]
             told == IF o = "ok" /\ IsNew(b) THEN [worker[w] EXCEPT !.pc = "score"] ELSE Idle
  <2>1. b \in ASNs BY <1>2 DEF CheckAndAddASN, TypeOK, WorkerStates
  <2>2. mishap[a] = {} /\ (a = b => o = "ok")
    BY <1>2, NotedClean DEF CheckAndAddASN
  <2>3. MappedFor(a) BY <2>2 DEF Mapped
  <2>4. UNCHANGED <<ipsEnd, clock, ttl>> BY <1>2 DEF CheckAndAddASN, mapping
  <2>5. worker[w].pc = "check" /\ worker' = [worker EXCEPT ![w] = told]
    BY <1>2 DEF CheckAndAddASN
  <2>6. told.pc # "check"
    <3>1. worker[w] \in [pc : {"check"}, ip : IPs] BY <2>5 DEF TypeOK, WorkerStates
    <3> QED BY <3>1 DEF Idle
  <2>7. CASE a = b
    <3>1. marker'[a] = clock + ttl
      BY <1>2, <2>1, <2>2, <2>7 DEF CheckAndAddASN, TypeOK
    <3>2. Observing(a) BY <2>5, <2>7 DEF Observing
    <3>3. ipsEnd'[a] = clock + ttl BY <2>3, <2>4, <3>2 DEF MappedFor
    <3>4. clock + ttl \in Nat BY DEF TypeOK
    <3> QED BY <2>4, <3>1, <3>3, <3>4 DEF MappedFor
  <2>8. CASE a # b
    <3>1. marker'[a] = marker[a]
      BY <1>2, <2>1, <2>8 DEF CheckAndAddASN, window, TypeOK
    <3> HIDE DEF told
    <3>2. Observing(a)' <=> Observing(a) BY <2>5, <2>6, <2>8 DEF Observing, TypeOK
    <3> QED BY <2>3, <2>4, <3>1, <3>2, MappedElsewhere
  <2> QED BY <2>7, <2>8
<1>3. ASSUME NEW w \in Workers, Score(w) PROVE MappedFor(a)'
  <2>1. MappedFor(a) BY <1>3 DEF Score, Mapped
  <2>2. UNCHANGED <<marker, ipsEnd, clock, ttl>> BY <1>3 DEF Score, window, mapping
  <2>3. worker[w].pc = "score" /\ worker' = [worker EXCEPT ![w] = Idle] BY <1>3 DEF Score
  <2>4. Observing(a)' <=> Observing(a) BY <2>3 DEF Observing, TypeOK, Idle
  <2> QED BY <2>1, <2>2, <2>4, MappedElsewhere
<1>4. ASSUME NEW c \in Timers, NEW o \in Outcomes, ClearScript(c, o) \/ ScanMappings(c, o)
      PROVE  MappedFor(a)'
  <2>1. MappedFor(a) BY <1>4 DEF ClearScript, ScanMappings, Mapped
  <2>2. UNCHANGED <<ipsEnd, clock, ttl, worker>> BY <1>4 DEF ClearScript, ScanMappings, mapping
  <2>3. marker'[a] \in {marker[a], NoTime} BY <1>4 DEF ClearScript, ScanMappings, window
  <2>4. Observing(a)' <=> Observing(a) BY <2>2 DEF Observing
  <2> QED BY <2>1, <2>2, <2>3, <2>4, MappedElsewhere DEF Marked
<1>5. ASSUME NEW c \in Timers, NEW o \in Outcomes, DeleteMappings(c, o)
      PROVE  MappedFor(a)'
  <2>1. UNCHANGED <<marker, clock, ttl, worker>> BY <1>5 DEF DeleteMappings, window
  <2>2. Observing(a)' <=> Observing(a) BY <2>1 DEF Observing
  <2>3. CASE o = "failed"
    <3>1. MappedFor(a) /\ ipsEnd' = ipsEnd BY <1>5, <2>3 DEF DeleteMappings, mapping, Mapped
    <3> QED BY <2>1, <2>2, <3>1, MappedElsewhere
  <2>4. CASE o # "failed"
    <3>1. /\ mishap' = Noted({b \in timer[c].keys : Marked(b) \/ Observing(b)}, "parted")
          /\ ipsEnd' = [b \in ASNs |-> IF b \in timer[c].keys THEN NoTime ELSE ipsEnd[b]]
      BY <1>5, <2>4 DEF DeleteMappings
    <3>2. mishap[a] = {} /\ (a \in timer[c].keys => ~ Marked(a) /\ ~ Observing(a))
      BY <3>1, NotedClean
    <3>3. MappedFor(a) BY <3>2 DEF Mapped
    <3>4. CASE a \in timer[c].keys
      <4>1. ~ Marked(a)' BY <2>1, <3>2, <3>4 DEF Marked
      <4> QED BY <2>2, <3>2, <3>4, <4>1 DEF MappedFor
    <3>5. CASE a \notin timer[c].keys
      BY <2>1, <2>2, <3>1, <3>3, <3>5, MappedElsewhere
    <3> QED BY <3>4, <3>5
  <2> QED BY <2>3, <2>4
<1>6. CASE Tick
  <2>1. mishap[a] = {} /\ ~ Observing(a) BY <1>6, NotedClean DEF Tick
  <2>2. ~ Observing(a)' BY <1>6, <2>1 DEF Tick, Observing
  <2>3. Marked(a) => ipsEnd[a] >= marker[a] BY <2>1 DEF Mapped, MappedFor
  <2>4. /\ marker'[a] = Left(marker[a]) /\ ipsEnd'[a] = Left(ipsEnd[a])
        /\ marker[a] \in Nat /\ ipsEnd[a] \in Nat /\ clock \in Nat
    BY <1>6 DEF Tick, TypeOK
  <2>5. Marked(a)' => ipsEnd'[a] >= marker'[a]
    BY <2>3, <2>4 DEF Marked, Left, NoTime
  <2> QED BY <2>2, <2>5 DEF MappedFor
<1>7. CASE Restart
  <2>1. mishap[a] = {} /\ ~ Observing(a) BY <1>7, NotedClean DEF Restart
  <2>2. ~ Observing(a)' BY <1>7 DEF Restart, Observing, Idle
  <2>3. UNCHANGED <<marker, ipsEnd>> BY <1>7 DEF Restart, window, mapping
  <2> QED BY <2>1, <2>2, <2>3 DEF Mapped, MappedFor, Marked
<1>8. CASE UNCHANGED vars
  BY <1>8 DEF vars, Mapped, MappedFor, Marked, Observing
<1> QED BY <1>1, <1>2, <1>3, <1>4, <1>5, <1>6, <1>7, <1>8 DEF Next

\* A marked ASN has an address to score and to block, whatever the times to live
\* and however workers race, unless a clear, a lost call or a tick came between
\* the two calls of an observation.
THEOREM MarkersHaveAddress == Spec => []MarkedHasAddress
<1>1. Init => TypeOK /\ Kept /\ Mapped
  BY TypeInit DEF Init, Kept, Mapped, MappedFor, Marked, Observing, Idle
<1>2. TypeOK /\ Kept /\ Mapped /\ [Next]_vars => (TypeOK /\ Kept /\ Mapped)'
  BY TypeStep, KeptStep, MappedStep DEF Mapped
<1>3. TypeOK /\ Kept /\ Mapped => MarkedHasAddress
  <2> SUFFICES ASSUME TypeOK, Kept, Mapped, NEW a \in ASNs, Marked(a), mishap[a] = {}
               PROVE  ips[a] # {}
    BY DEF MarkedHasAddress
  <2>1. ipsEnd[a] = clock + ttl \/ ipsEnd[a] >= marker[a] BY DEF Mapped, MappedFor
  <2>2. /\ ipsEnd[a] \in Nat /\ marker[a] \in Nat \ {0} /\ clock \in Nat \ {0} /\ ttl \in Nat
    BY HotWindowAssumption DEF TypeOK, Marked, NoTime
  <2>3. ipsEnd[a] # NoTime BY <2>1, <2>2 DEF NoTime
  <2> QED BY <2>3 DEF Kept
<1> QED BY <1>1, <1>2, <1>3, PTL DEF Spec
=============================================================================
