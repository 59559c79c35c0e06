-------------------------- MODULE PanelIngestProofs --------------------------
(***************************************************************************)
(* Proofs about PanelIngest, for any nodes, users and addresses, any       *)
(* deadlines, failures, restarts and expiries.                             *)
(***************************************************************************)
EXTENDS PanelIngest, TLAPS, FiniteSetTheorems

JobStates ==
    [pc : JobPc, late : BOOLEAN, got : SUBSET Sightings, tuple : Tuples \cup {NoTuple},
     at : 0..MaxSeen, held : SUBSET Sightings]

Entries(j) == j.got \cup j.held

\* What the position of a goroutine says of its local variables: it holds entries
\* of its own node only, and every tuple once.
Fit(n, j) ==
    /\ j.pc \notin {"each", "read", "save"} => j.got = {} /\ j.held = {}
    /\ j.pc \in {"read", "save"} <=> j.tuple # NoTuple
    /\ j.tuple # NoTuple => j.at # 0 /\ NodeOf[j.tuple] = n
    /\ \A e \in Entries(j) : NodeOf[e[1]] = n /\ e[1] # j.tuple
    /\ \A e, d \in Entries(j) : e[1] = d[1] => e = d
    /\ j.got \cap j.held = {}

JobsFit == \A n \in Nodes : Fit(n, job[n])

\* Outside a round no goroutine is left.
RoundFits == run # "round" => \A n \in Nodes : job[n].pc = "off"

\* The watermark of a tuple is not ahead of what was sent and what is about to be.
MarkFits ==
    \A t \in Tuples : Clean(t, {"rejected", "stopped"}) =>
        \/ mark[t] <= sent[t]
        \/ \E v \in 1..MaxSeen : <<t, v>> \in job[NodeOf[t]].held /\ mark[t] <= v

\* ... nor behind it, and what is about to be sent is news.
OnceFits ==
    \A t \in Tuples : Clean(t, {"open", "expired"}) =>
        /\ t \notin again
        /\ sent[t] <= mark[t]
        /\ \A v \in 1..MaxSeen : <<t, v>> \in job[NodeOf[t]].held => sent[t] < v /\ v <= mark[t]
        /\ job[NodeOf[t]].pc = "save" /\ job[NodeOf[t]].tuple = t => mark[t] < job[NodeOf[t]].at

IInv == TypeOK /\ JobsFit /\ RoundFits /\ MarkFits /\ OnceFits
-----------------------------------------------------------------------------
LEMMA Bounds ==
    /\ IsFiniteSet(Nodes)
    /\ NodeOf \in [Tuples -> Nodes] /\ NoTuple \notin Tuples
    /\ MaxInflight \in Nat \ {0} /\ MaxSeen \in Nat /\ MaxToggles \in Nat
    /\ MaxFaults \in Nat /\ MaxRestarts \in Nat
BY PanelIngestAssumption

LEMMA WorkingFinite == IsFiniteSet(Working) /\ Cardinality(Working) \in Nat
BY Bounds, FS_Subset, FS_CardinalityType DEF Working

LEMMA WorkingShrinks ==
    ASSUME Working' \subseteq Working, Cardinality(Working) <= MaxInflight
    PROVE  Cardinality(Working') <= MaxInflight
<1>1. Cardinality(Working') <= Cardinality(Working) BY WorkingFinite, FS_Subset
<1>2. Cardinality(Working') \in Nat BY WorkingFinite, FS_Subset, FS_CardinalityType
<1> QED BY <1>1, <1>2, WorkingFinite, Bounds

LEMMA OffState ==
    /\ Off \in JobStates /\ [Off EXCEPT !.pc = "wait"] \in JobStates
    /\ \A n \in Nodes : Fit(n, Off) /\ Fit(n, [Off EXCEPT !.pc = "wait"])
<1>1. Off \in JobStates /\ [Off EXCEPT !.pc = "wait"] \in JobStates
  <2>1. 0 \in 0..MaxSeen BY Bounds
  <2>2. Off \in JobStates BY <2>1 DEF Off, JobStates, JobPc
  <2>3. \A j \in JobStates : [j EXCEPT !.pc = "wait"] \in JobStates BY DEF JobStates, JobPc
  <2> QED BY <2>2, <2>3
<1>2. ASSUME NEW n \in Nodes PROVE Fit(n, Off) /\ Fit(n, [Off EXCEPT !.pc = "wait"])
  BY DEF Off, Fit, Entries
<1> QED BY <1>1, <1>2

\* One goroutine moves to a state that fits; the others stay.
Moves(n, j) == j \in JobStates /\ Fit(n, j) /\ job' = [job EXCEPT ![n] = j]

LEMMA MoveFits ==
    ASSUME job \in [Nodes -> JobStates], JobsFit, NEW n \in Nodes, NEW j, Moves(n, j)
    PROVE  /\ job' \in [Nodes -> JobStates] /\ JobsFit'
           /\ job'[n] = j /\ \A m \in Nodes : m # n => job'[m] = job[m]
<1>1. job' = [job EXCEPT ![n] = j] /\ j \in JobStates /\ Fit(n, j) BY DEF Moves
<1>2. job'[n] = j /\ \A m \in Nodes : m # n => job'[m] = job[m] BY <1>1
<1>3. job' \in [Nodes -> JobStates] BY <1>1
<1>4. JobsFit' BY <1>1, <1>2 DEF JobsFit, Fit, Entries
<1> QED BY <1>2, <1>3, <1>4

\* A goroutine that holds nothing goes on holding nothing, or ends.
LEMMA Idle ==
    ASSUME job \in [Nodes -> JobStates], JobsFit, NEW n \in Nodes,
           job[n].pc \in {"off", "wait", "submit", "result", "sleep"},
           NEW p \in {"off", "wait", "submit", "result", "sleep", "each"}
    PROVE  /\ Goes(n, p) => Moves(n, [job[n] EXCEPT !.pc = p])
           /\ Returns(n) => Moves(n, Off)
           /\ job[n].held = {} /\ job[n].got = {} /\ job[n].tuple = NoTuple
<1>1. job[n] \in JobStates /\ Fit(n, job[n]) BY DEF JobsFit
<1>2. [job[n] EXCEPT !.pc = p] \in JobStates BY <1>1 DEF JobStates, JobPc
<1>3. job[n].held = {} /\ job[n].got = {} /\ job[n].tuple = NoTuple BY <1>1 DEF Fit
<1>4. Fit(n, [job[n] EXCEPT !.pc = p])
  <2> DEFINE j == [job[n] EXCEPT !.pc = p]
  <2>1. j.pc = p /\ j.held = {} /\ j.got = {} /\ j.tuple = NoTuple BY <1>1, <1>3 DEF JobStates
  <2> HIDE DEF j
  <2>2. Fit(n, j) BY <2>1 DEF Fit, Entries
  <2> QED BY <2>2 DEF j
<1> QED BY <1>2, <1>3, <1>4, OffState DEF Goes, Returns, Moves

\* How each step of a goroutine moves it.
LEMMA NodeMoves ==
    ASSUME TypeOK, JobsFit, NEW n \in Nodes
    PROVE  /\ Acquire(n) \/ Wake(n) \/ (\E o \in Outcomes : Submit(n, o) \/ Result(n, o)) =>
                \E j : /\ Moves(n, j) /\ job[n].held = {} /\ j.held = {} /\ j.tuple = NoTuple
                       /\ job[n].pc \in {"wait", "submit", "result", "sleep"}
           /\ Deadline(n) => Moves(n, [job[n] EXCEPT !.late = TRUE])
<1>1. job \in [Nodes -> JobStates] /\ job[n] \in JobStates /\ Fit(n, job[n])
  BY DEF TypeOK, JobStates, JobsFit
<1>2. Off.held = {} /\ Off.tuple = NoTuple BY DEF Off
<1>3. ASSUME job[n].pc \in {"wait", "submit", "result", "sleep"},
             Returns(n) \/ \E p \in {"submit", "result", "sleep"} : Goes(n, p)
      PROVE  \E j : Moves(n, j) /\ job[n].held = {} /\ j.held = {} /\ j.tuple = NoTuple
  <2>1. job[n].pc \in {"off", "wait", "submit", "result", "sleep"} BY <1>3
  <2>2. CASE Returns(n)
    <3>1. Moves(n, Off) /\ job[n].held = {} BY <1>1, <2>1, <2>2, Idle
    <3> QED BY <1>2, <3>1
  <2>3. ASSUME NEW p \in {"submit", "result", "sleep"}, Goes(n, p)
        PROVE  \E j : Moves(n, j) /\ job[n].held = {} /\ j.held = {} /\ j.tuple = NoTuple
    <3> DEFINE j == [job[n] EXCEPT !.pc = p]
    <3>0. p \in {"off", "wait", "submit", "result", "sleep", "each"} BY <2>3
    <3>1. Moves(n, j) /\ job[n].held = {} /\ job[n].tuple = NoTuple
      BY <1>1, <2>1, <2>3, <3>0, Idle
    <3>2. j.held = {} /\ j.tuple = NoTuple BY <1>1, <3>1 DEF JobStates
    <3> QED BY <3>1, <3>2
  <2> QED BY <1>3, <2>2, <2>3
<1>4. ASSUME NEW o \in Outcomes, Result(n, o),
             job' = [job EXCEPT ![n].pc = "each", ![n].got = SightingsOn(n)]
      PROVE  \E j : Moves(n, j) /\ job[n].held = {} /\ j.held = {} /\ j.tuple = NoTuple
  <2> DEFINE j == [job[n] EXCEPT !.pc = "each", !.got = SightingsOn(n)]
  <2>1. SightingsOn(n) \subseteq Sightings
    <3>1. ASSUME NEW t \in Tuples, seen[t] > 0 PROVE <<t, seen[t]>> \in Sightings
      <4>1. seen[t] \in 0..MaxSeen BY DEF TypeOK
      <4>2. seen[t] \in 1..MaxSeen BY <3>1, <4>1, Bounds
      <4> QED BY <4>2 DEF Sightings
    <3> QED BY <3>1 DEF SightingsOn
  <2>2. j \in JobStates BY <1>1, <2>1 DEF JobStates, JobPc
  <2>3. job[n].held = {} /\ job[n].tuple = NoTuple BY <1>1, <1>4 DEF Result, Fit
  <2>4. j.pc = "each" /\ j.got = SightingsOn(n) /\ j.held = {} /\ j.tuple = NoTuple
    BY <1>1, <2>3 DEF JobStates
  <2>5. job' = [job EXCEPT ![n] = j] BY <1>4
  <2> HIDE DEF j
  <2>6. \A e \in SightingsOn(n) : e[1] \in Tuples /\ NodeOf[e[1]] = n /\ e = <<e[1], seen[e[1]]>>
    BY DEF SightingsOn
  <2>7. Fit(n, j)
    <3>1. \A e \in Entries(j) : NodeOf[e[1]] = n /\ e[1] # j.tuple
      BY <2>4, <2>6, Bounds DEF Entries
    <3>2. \A e, d \in Entries(j) : e[1] = d[1] => e = d BY <2>4, <2>6 DEF Entries
    <3> QED BY <2>4, <3>1, <3>2 DEF Fit
  <2> QED BY <2>2, <2>3, <2>4, <2>5, <2>7 DEF Moves
<1>5. ASSUME Acquire(n) \/ Wake(n)
      PROVE  \E j : /\ Moves(n, j) /\ job[n].held = {} /\ j.held = {} /\ j.tuple = NoTuple
                    /\ job[n].pc \in {"wait", "submit", "result", "sleep"}
  <2>1. /\ job[n].pc \in {"wait", "submit", "result", "sleep"}
        /\ Returns(n) \/ \E p \in {"submit", "result", "sleep"} : Goes(n, p)
    BY <1>5 DEF Acquire, Wake
  <2> QED BY <1>3, <2>1
<1>6. ASSUME NEW o \in Outcomes, Submit(n, o) \/ Result(n, o)
      PROVE  \E j : /\ Moves(n, j) /\ job[n].held = {} /\ j.held = {} /\ j.tuple = NoTuple
                    /\ job[n].pc \in {"wait", "submit", "result", "sleep"}
  BY <1>3, <1>4, <1>6 DEF Submit, Result
<1>7. ASSUME Deadline(n) PROVE Moves(n, [job[n] EXCEPT !.late = TRUE])
  <2> DEFINE j == [job[n] EXCEPT !.late = TRUE]
  <2>1. j \in JobStates BY <1>1 DEF JobStates
  <2>2. j.pc = job[n].pc /\ j.got = job[n].got /\ j.held = job[n].held /\ j.tuple = job[n].tuple
        /\ j.at = job[n].at
    BY <1>1 DEF JobStates
  <2>3. job' = [job EXCEPT ![n] = j] BY <1>7 DEF Deadline
  <2> HIDE DEF j
  <2>4. Fit(n, j) BY <1>1, <2>2 DEF Fit, Entries
  <2>5. Moves(n, j) BY <2>1, <2>3, <2>4 DEF Moves
  <2> QED BY <2>5 DEF j
<1> QED BY <1>5, <1>6, <1>7

\* The steps of enqueueObservations, one by one.
LEMMA CheckUserMoves ==
    ASSUME TypeOK, JobsFit, NEW n \in Nodes, NEW t \in Tuples, NEW o \in Outcomes,
           CheckUser(n, t, o)
    PROVE  \E j : /\ Moves(n, j) /\ j.held = job[n].held /\ j.pc \in {"each", "read"}
                  /\ job[n].pc = "each"
<1>1. job \in [Nodes -> JobStates] /\ job[n] \in JobStates /\ Fit(n, job[n])
  BY DEF TypeOK, JobStates, JobsFit
<1> DEFINE at == CHOOSE v \in 1..MaxSeen : <<t, v>> \in job[n].got
           rest == [job[n] EXCEPT !.got = @ \ {<<t, at>>}]
           next == [rest EXCEPT !.pc = "read", !.tuple = t, !.at = at]
<1>2. at \in 1..MaxSeen /\ <<t, at>> \in job[n].got BY DEF CheckUser
<1>3. /\ job[n].pc = "each"
      /\ job' = [job EXCEPT ![n] = rest] \/ job' = [job EXCEPT ![n] = next]
  BY Zenon DEF CheckUser
<1> HIDE DEF at
<1>4. /\ rest \in JobStates /\ rest.pc = job[n].pc /\ rest.got = job[n].got \ {<<t, at>>}
      /\ rest.held = job[n].held /\ rest.tuple = job[n].tuple
  BY <1>1, <1>2 DEF JobStates
<1>5. Fit(n, rest)
  <2> HIDE DEF rest
  <2>1. rest.got \subseteq job[n].got BY <1>4
  <2> QED BY <1>1, <1>3, <1>4, <2>1 DEF Fit, Entries
<1>6. at \in 0..MaxSeen /\ at # 0 BY <1>2, Bounds
<1>7. /\ next \in JobStates /\ next.pc = "read" /\ next.got = rest.got
      /\ next.held = job[n].held /\ next.tuple = t /\ next.at = at
  <2> HIDE DEF rest
  <2> QED BY <1>4, <1>6 DEF JobStates, JobPc
<1>8. Fit(n, next)
  <2>1. \A e \in job[n].got \cup job[n].held : NodeOf[e[1]] = n
    BY <1>1 DEF Fit, Entries
  <2>2. NodeOf[t] = n
    <3>1. <<t, at>>[1] = t OBVIOUS
    <3> QED BY <1>2, <2>1, <3>1
  <2>3. \A e \in Entries(next) : e[1] # t /\ e \in Entries(job[n])
    <3>1. SUFFICES ASSUME NEW e \in Entries(next) PROVE e[1] # t /\ e \in Entries(job[n])
      OBVIOUS
    <3>2. e \in Entries(job[n]) /\ (e \in job[n].got \ {<<t, at>>} \/ e \in job[n].held)
      <4> HIDE DEF next, rest
      <4> QED BY <1>4, <1>7, <3>1 DEF Entries
    <3>3. <<t, at>> \in Entries(job[n]) /\ <<t, at>>[1] = t BY <1>2 DEF Entries
    <3>4. e # <<t, at>>
      BY <1>1, <1>2, <3>2 DEF Fit
    <3>5. e[1] = <<t, at>>[1] => e = <<t, at>> BY <1>1, <3>2, <3>3 DEF Fit
    <3> QED BY <3>2, <3>3, <3>4, <3>5
  <2>4. next.got \cap next.held = {}
    <3> HIDE DEF next, rest
    <3> QED BY <1>1, <1>4, <1>7 DEF Fit
  <2>5. t # NoTuple BY Bounds
  <2> HIDE DEF next, rest
  <2> QED BY <1>1, <1>6, <1>7, <2>1, <2>2, <2>3, <2>4, <2>5 DEF Fit, Entries
<1>9. CASE job' = [job EXCEPT ![n] = rest]
  <2> HIDE DEF rest
  <2> QED BY <1>3, <1>4, <1>5, <1>9 DEF Moves
<1>10. CASE job' = [job EXCEPT ![n] = next]
  <2> HIDE DEF next
  <2> QED BY <1>3, <1>7, <1>8, <1>10 DEF Moves
<1> QED BY <1>3, <1>9, <1>10

\* The entry is skipped, or kept for the log queue.
LEMMA DecideMoves ==
    ASSUME TypeOK, JobsFit, NEW n \in Nodes, job[n].pc \in {"read", "save"}
    PROVE  /\ job[n].tuple \in Tuples /\ job[n].at \in 1..MaxSeen /\ NodeOf[job[n].tuple] = n
           /\ \A v \in 1..MaxSeen : <<job[n].tuple, v>> \notin job[n].held
           /\ Goes(n, "save") => \E j : /\ Moves(n, j) /\ j.held = job[n].held /\ j.pc = "save"
                                        /\ j.tuple = job[n].tuple /\ j.at = job[n].at
           /\ Skip(n) => \E j : Moves(n, j) /\ j.held = job[n].held /\ j.pc = "each"
           /\ Keep(n) => \E j : /\ Moves(n, j) /\ j.pc = "each"
                                /\ j.held = job[n].held \cup {<<job[n].tuple, job[n].at>>}
<1> DEFINE t == job[n].tuple
           at == job[n].at
<1>1. job \in [Nodes -> JobStates] /\ job[n] \in JobStates /\ Fit(n, job[n])
  BY DEF TypeOK, JobStates, JobsFit
<1>2. t \in Tuples /\ NodeOf[t] = n BY <1>1 DEF Fit, JobStates
<1>3. at \in 1..MaxSeen
  <2>1. at \in 0..MaxSeen /\ at # 0 BY <1>1 DEF Fit, JobStates
  <2> QED BY <2>1, Bounds
<1>4. \A e \in Entries(job[n]) : e[1] # t BY <1>1 DEF Fit
<1>5. \A v \in 1..MaxSeen : <<t, v>> \notin job[n].held BY <1>4 DEF Entries
<1>6. ASSUME Goes(n, "save")
      PROVE  \E j : /\ Moves(n, j) /\ j.held = job[n].held /\ j.pc = "save"
                    /\ j.tuple = t /\ j.at = at
  <2> DEFINE j == [job[n] EXCEPT !.pc = "save"]
  <2>1. /\ j \in JobStates /\ j.pc = "save" /\ j.got = job[n].got /\ j.held = job[n].held
        /\ j.tuple = t /\ j.at = at
    BY <1>1 DEF JobStates, JobPc
  <2>2. job' = [job EXCEPT ![n] = j] BY <1>6 DEF Goes
  <2> HIDE DEF j
  <2>3. Fit(n, j) BY <1>1, <2>1 DEF Fit, Entries
  <2> QED BY <2>1, <2>2, <2>3 DEF Moves
<1>7. ASSUME Skip(n) PROVE \E j : Moves(n, j) /\ j.held = job[n].held /\ j.pc = "each"
  <2> DEFINE j == [job[n] EXCEPT !.pc = "each", !.tuple = NoTuple, !.at = 0]
  <2>0. 0 \in 0..MaxSeen BY Bounds
  <2>1. /\ j \in JobStates /\ j.pc = "each" /\ j.got = job[n].got /\ j.held = job[n].held
        /\ j.tuple = NoTuple
    BY <1>1, <2>0 DEF JobStates, JobPc
  <2>2. job' = [job EXCEPT ![n] = j] BY <1>7 DEF Skip
  <2> HIDE DEF j
  <2>3. \A e \in Entries(j) : e[1] # NoTuple
    <3>1. \A e \in Sightings : e[1] \in Tuples BY DEF Sightings
    <3>2. Entries(j) \subseteq Sightings BY <1>1, <2>1 DEF Entries, JobStates
    <3> QED BY <3>1, <3>2, Bounds
  <2>4. Fit(n, j) BY <1>1, <2>1, <2>3 DEF Fit, Entries
  <2> QED BY <2>1, <2>2, <2>4 DEF Moves
<1>8. ASSUME Keep(n)
      PROVE  \E j : Moves(n, j) /\ j.pc = "each" /\ j.held = job[n].held \cup {<<t, at>>}
  <2> DEFINE j == [job[n] EXCEPT !.pc = "each", !.tuple = NoTuple, !.at = 0,
                                 !.held = job[n].held \cup {<<t, at>>}]
  <2>0. 0 \in 0..MaxSeen BY Bounds
  <2>1. <<t, at>> \in Sightings BY <1>2, <1>3 DEF Sightings
  <2>2. /\ j \in JobStates /\ j.pc = "each" /\ j.got = job[n].got
        /\ j.held = job[n].held \cup {<<t, at>>} /\ j.tuple = NoTuple
    <3> HIDE DEF t, at
    <3> QED BY <1>1, <2>0, <2>1 DEF JobStates, JobPc
  <2>3. job' = [job EXCEPT ![n] = j] BY <1>8 DEF Keep
  <2> HIDE DEF j
  <2>4. Entries(j) = Entries(job[n]) \cup {<<t, at>>} BY <2>2 DEF Entries
  <2>5. \A e \in Entries(j) : e[1] # NoTuple
    <3>1. \A e \in Sightings : e[1] \in Tuples BY DEF Sightings
    <3>2. Entries(j) \subseteq Sightings BY <1>1, <2>2 DEF Entries, JobStates
    <3> QED BY <3>1, <3>2, Bounds
  <2>6. \A e \in Entries(j) : NodeOf[e[1]] = n
    <3>1. \A e \in Entries(job[n]) : NodeOf[e[1]] = n BY <1>1 DEF Fit
    <3>2. <<t, at>>[1] = t OBVIOUS
    <3> HIDE DEF t, at
    <3> QED BY <1>2, <2>4, <3>1, <3>2
  <2>7. \A e, d \in Entries(j) : e[1] = d[1] => e = d
    <3> DEFINE new == <<t, at>>
               E == Entries(job[n])
    <3>1. \A e, d \in E : e[1] = d[1] => e = d BY <1>1 DEF Fit
    <3>2. new[1] = t OBVIOUS
    <3>3. \A e \in E : e[1] # t BY <1>4
    <3>4. Entries(j) = E \cup {new} BY <2>4
    <3> HIDE DEF t, at, new, E
    <3> QED BY <3>1, <3>2, <3>3, <3>4
  <2>8. j.got \cap j.held = {}
    <3>1. job[n].got \cap job[n].held = {} BY <1>1 DEF Fit
    <3>2. <<t, at>> \notin job[n].got
      <4>1. <<t, at>>[1] = t OBVIOUS
      <4> QED BY <1>4, <4>1 DEF Entries
    <3> QED BY <2>2, <3>1, <3>2
  <2>9. Fit(n, j) BY <2>2, <2>5, <2>6, <2>7, <2>8 DEF Fit
  <2> QED BY <2>2, <2>3, <2>9 DEF Moves
<1> QED BY <1>2, <1>3, <1>5, <1>6, <1>7, <1>8

\* A batch that the log queue took or refused ends the goroutine; it held every
\* tuple of the batch with one sighting.
LEMMA EnqueueMoves ==
    ASSUME TypeOK, JobsFit, NEW n \in Nodes, Enqueue(n)
    PROVE  /\ Moves(n, Off) /\ job[n].pc = "each"
           /\ \A t \in Tuples : t \in {e[1] : e \in job[n].held} =>
                /\ NodeOf[t] = n
                /\ \E v \in 1..MaxSeen :
                     /\ <<t, v>> \in job[n].held
                     /\ (CHOOSE w \in 1..MaxSeen : <<t, w>> \in job[n].held) = v
                     /\ \A w \in 1..MaxSeen : <<t, w>> \in job[n].held => w = v
<1>1. job \in [Nodes -> JobStates] /\ job[n] \in JobStates /\ Fit(n, job[n])
  BY DEF TypeOK, JobStates, JobsFit
<1>2. Moves(n, Off) /\ job[n].pc = "each" BY OffState DEF Enqueue, Returns, Moves
<1>3. ASSUME NEW t \in Tuples, t \in {e[1] : e \in job[n].held}
      PROVE  /\ NodeOf[t] = n
             /\ \E v \in 1..MaxSeen :
                     /\ <<t, v>> \in job[n].held
                     /\ (CHOOSE w \in 1..MaxSeen : <<t, w>> \in job[n].held) = v
                     /\ \A w \in 1..MaxSeen : <<t, w>> \in job[n].held => w = v
  <2>1. PICK e \in job[n].held : e[1] = t BY <1>3
  <2>2. e \in Sightings BY <1>1, <2>1 DEF JobStates
  <2>3. PICK v \in 1..MaxSeen : e = <<t, v>> BY <2>1, <2>2 DEF Sightings
  <2>4. ASSUME NEW w \in 1..MaxSeen, <<t, w>> \in job[n].held PROVE w = v
    <3>1. <<t, w>> \in Entries(job[n]) /\ <<t, v>> \in Entries(job[n])
      BY <2>1, <2>3, <2>4 DEF Entries
    <3>2. <<t, w>>[1] = <<t, v>>[1] OBVIOUS
    <3>3. <<t, w>> = <<t, v>> BY <1>1, <3>1, <3>2 DEF Fit
    <3> QED BY <3>3
  <2>5. NodeOf[t] = n BY <1>1, <2>1 DEF Fit, Entries
  <2>6. (CHOOSE w \in 1..MaxSeen : <<t, w>> \in job[n].held) = v
    <3> DEFINE c == CHOOSE w \in 1..MaxSeen : <<t, w>> \in job[n].held
    <3>1. c \in 1..MaxSeen /\ <<t, c>> \in job[n].held BY <2>1, <2>3
    <3> HIDE DEF c
    <3>2. c = v BY <2>4, <3>1
    <3> QED BY <3>2 DEF c
  <2> QED BY <2>1, <2>3, <2>4, <2>5, <2>6
<1> QED BY <1>2, <1>3
-----------------------------------------------------------------------------
(* Types, positions and rounds *)

\* Every step moves one goroutine that waits for the semaphore or holds it, moves
\* none, or starts a round or the process anew.
LEMMA JobStep ==
    ASSUME TypeOK, JobsFit, [Next]_vars
    PROVE  \/ \E n \in Nodes : (\E j : Moves(n, j)) /\ (Acquire(n) \/ n \in Working)
           \/ job' = job
           \/ /\ \A n \in Nodes : job'[n] \in {Off, [Off EXCEPT !.pc = "wait"]}
              /\ job' \in [Nodes -> JobStates]
              /\ run \in {"poll", "idle"} \/ Restart
<1>1. ASSUME NEW n \in Nodes, NodeStep(n) \/ Deadline(n)
      PROVE  (\E j : Moves(n, j)) /\ (Acquire(n) \/ n \in Working)
  <2>1. CASE Acquire(n)
    <3>1. \E j : Moves(n, j) BY <2>1, NodeMoves
    <3> QED BY <2>1, <3>1
  <2>2. CASE Deadline(n) BY <2>2, NodeMoves DEF Deadline
  <2>3. CASE Enqueue(n) BY <2>3, EnqueueMoves DEF Working
  <2>4. ASSUME NEW t \in Tuples, NEW o \in Outcomes, CheckUser(n, t, o)
        PROVE  (\E j : Moves(n, j)) /\ n \in Working
    <3>1. \E j : Moves(n, j) /\ job[n].pc = "each" BY <2>4, CheckUserMoves
    <3> QED BY <3>1 DEF Working
  <2>5. ASSUME NEW o \in Outcomes, ReadMark(n, o) \/ SaveMark(n, o)
        PROVE  (\E j : Moves(n, j)) /\ n \in Working
    <3>1. job[n].pc \in {"read", "save"} /\ (Skip(n) \/ Keep(n) \/ Goes(n, "save"))
      BY <2>5 DEF ReadMark, SaveMark
    <3>2. \E j : Moves(n, j) BY <3>1, DecideMoves
    <3> QED BY <3>1, <3>2 DEF Working
  <2>6. CASE Wake(n) \/ \E o \in Outcomes : Submit(n, o) \/ Result(n, o)
    <3>1. \E j : Moves(n, j) BY <2>6, NodeMoves
    <3>2. job[n].pc \in {"submit", "result", "sleep"} BY <2>6 DEF Wake, Submit, Result
    <3> QED BY <3>1, <3>2 DEF Working
  <2> QED BY <1>1, <2>1, <2>2, <2>3, <2>4, <2>5, <2>6 DEF NodeStep
<1>2. ASSUME NEW o \in Outcomes, PollOnce(o)
      PROVE  /\ \A n \in Nodes : job'[n] \in {Off, [Off EXCEPT !.pc = "wait"]}
             /\ job' \in [Nodes -> JobStates]
             /\ run \in {"poll", "idle"}
  <2>1. StartRound(nodes') /\ run \in {"poll", "idle"} BY <1>2 DEF PollOnce
  <2>2. job' = [n \in Nodes |-> IF n \in nodes' THEN [Off EXCEPT !.pc = "wait"] ELSE Off]
    BY <2>1 DEF StartRound
  <2> QED BY <2>1, <2>2, OffState
<1>3. ASSUME Restart
      PROVE  /\ \A n \in Nodes : job'[n] \in {Off, [Off EXCEPT !.pc = "wait"]}
             /\ job' \in [Nodes -> JobStates]
  BY <1>3, OffState DEF Restart
<1>4. ASSUME NEW o \in Outcomes, Boot(o) \/ RefreshTick(o) PROVE job' = job
  BY <1>4 DEF Boot, RefreshTick
<1>5. ASSUME NEW n \in Nodes, Toggle(n) PROVE job' = job BY <1>5 DEF Toggle
<1>6. ASSUME NEW t \in Tuples, See(t) \/ ExpireMark(t) PROVE job' = job
  BY <1>6 DEF See, ExpireMark
<1>7. EndRound \/ StopRun \/ Cancel \/ UNCHANGED vars => job' = job
  BY DEF EndRound, StopRun, Cancel, vars
<1>8. CASE \E n \in Nodes : NodeStep(n) \/ Deadline(n) BY <1>1, <1>8
<1>9. CASE Restart BY <1>3, <1>9
<1>10. CASE \E o \in Outcomes : PollOnce(o) BY <1>2, <1>10
<1>11. CASE job' = job BY <1>11
<1> QED BY <1>4, <1>5, <1>6, <1>7, <1>8, <1>9, <1>10, <1>11 DEF Next, RunStep

LEMMA JobsFitStep ==
    TypeOK /\ JobsFit /\ [Next]_vars => JobsFit' /\ job' \in [Nodes -> JobStates]
<1> SUFFICES ASSUME TypeOK, JobsFit, [Next]_vars
             PROVE  JobsFit' /\ job' \in [Nodes -> JobStates]
  OBVIOUS
<1>0. job \in [Nodes -> JobStates] BY DEF TypeOK, JobStates
<1>1. ASSUME NEW n \in Nodes, NEW j, Moves(n, j)
      PROVE  JobsFit' /\ job' \in [Nodes -> JobStates]
  BY <1>0, <1>1, MoveFits
<1>2. CASE job' = job
  <2>1. JobsFit' BY <1>2 DEF JobsFit, Fit, Entries
  <2> QED BY <1>0, <1>2, <2>1
<1>3. ASSUME \A n \in Nodes : job'[n] \in {Off, [Off EXCEPT !.pc = "wait"]} PROVE JobsFit'
  <2>1. \A n \in Nodes : Fit(n, job'[n]) BY <1>3, OffState
  <2> QED BY <2>1 DEF JobsFit, Fit, Entries
<1> QED BY <1>1, <1>2, <1>3, JobStep

\* The semaphore: only a goroutine that finds room starts to work.
LEMMA WorkingStep ==
    TypeOK /\ JobsFit /\ [Next]_vars => Cardinality(Working') <= MaxInflight
<1> SUFFICES ASSUME TypeOK, JobsFit, [Next]_vars PROVE Cardinality(Working') <= MaxInflight
  OBVIOUS
<1>0. job \in [Nodes -> JobStates] /\ Cardinality(Working) <= MaxInflight
  BY DEF TypeOK, JobStates
<1>1. CASE Working' \subseteq Working BY <1>0, <1>1, WorkingShrinks
<1>2. ASSUME NEW n \in Nodes, NEW j, Moves(n, j)
      PROVE  Working' \subseteq Working \cup {n}
  <2>1. \A m \in Nodes : m # n => job'[m] = job[m] BY <1>0, <1>2, MoveFits
  <2> QED BY <2>1 DEF Working
<1>3. ASSUME NEW n \in Nodes, Acquire(n), ~ (Working' \subseteq Working), NEW j, Moves(n, j)
      PROVE  Cardinality(Working') <= MaxInflight
  <2>1. CASE Returns(n)
    <3>1. \A m \in Nodes : job'[m].pc = "off" \/ job'[m] = job[m]
      BY <1>0, <2>1 DEF Returns, Off
    <3> QED BY <1>3, <3>1 DEF Working
  <2>2. CASE Cardinality(Working) < MaxInflight
    <3>1. Working' \subseteq Working \cup {n} BY <1>2, <1>3
    <3>2. n \notin Working BY <1>3 DEF Acquire, Working
    <3>3. IsFiniteSet(Working \cup {n}) /\ Cardinality(Working \cup {n}) = Cardinality(Working) + 1
      BY <3>2, WorkingFinite, FS_AddElement
    <3>4. Cardinality(Working') \in Nat /\ Cardinality(Working') <= Cardinality(Working) + 1
      BY <3>1, <3>3, FS_Subset, FS_CardinalityType
    <3> QED BY <2>2, <3>4, WorkingFinite, Bounds
  <2> QED BY <1>3, <2>1, <2>2 DEF Acquire
<1>4. CASE job' = job BY <1>1, <1>4 DEF Working
<1>5. CASE \A n \in Nodes : job'[n] \in {Off, [Off EXCEPT !.pc = "wait"]}
  <2>1. \A n \in Nodes : job'[n].pc \in {"off", "wait"} BY <1>5 DEF Off
  <2>2. Working' = {} BY <2>1 DEF Working
  <2> QED BY <1>1, <2>2
<1>6. ASSUME NEW n \in Working, NEW j, Moves(n, j) PROVE Working' \subseteq Working
  BY <1>2, <1>6 DEF Working
<1> QED BY <1>1, <1>3, <1>4, <1>5, <1>6, JobStep

LEMMA RoundFitsStep == TypeOK /\ JobsFit /\ RoundFits /\ [Next]_vars => RoundFits'
<1> SUFFICES ASSUME TypeOK, JobsFit, RoundFits, [Next]_vars PROVE RoundFits'
  OBVIOUS
<1> USE DEF panel, history
<1>0. job \in [Nodes -> JobStates] BY DEF TypeOK, JobStates
<1>1. ASSUME NEW n \in Nodes, NodeStep(n) \/ Deadline(n) PROVE RoundFits'
  <2>1. run' = run
    BY <1>1 DEF NodeStep, Acquire, Wake, Enqueue, Submit, Result, ReadMark, SaveMark, CheckUser,
       Deadline
  <2>2. job[n].pc # "off"
    BY <1>1 DEF NodeStep, Acquire, Wake, Enqueue, Submit, Result, ReadMark, SaveMark, CheckUser,
       Deadline, Working
  <2> QED BY <2>1, <2>2 DEF RoundFits
<1>2. ASSUME NEW o \in Outcomes, PollOnce(o) PROVE RoundFits'
  <2>1. StartRound(nodes') BY <1>2 DEF PollOnce
  <2> QED BY <2>1 DEF StartRound, RoundFits, Off
<1>3. ASSUME NEW o \in Outcomes, Boot(o) \/ RefreshTick(o) PROVE RoundFits'
  BY <1>3 DEF Boot, RefreshTick, RoundFits
<1>4. ASSUME NEW n \in Nodes, Toggle(n) PROVE RoundFits' BY <1>4 DEF Toggle, RoundFits
<1>5. ASSUME NEW t \in Tuples, See(t) \/ ExpireMark(t) PROVE RoundFits'
  BY <1>5 DEF See, ExpireMark, RoundFits
<1>6. CASE EndRound \/ StopRun \/ Cancel \/ UNCHANGED vars
  BY <1>6 DEF EndRound, StopRun, Cancel, vars, RoundFits
<1>7. CASE Restart BY <1>7 DEF Restart, RoundFits, Off
<1> QED BY <1>1, <1>2, <1>3, <1>4, <1>5, <1>6, <1>7 DEF Next, RunStep

LEMMA CallCounts ==
    ASSUME TypeOK, NEW n, NEW o, RunCall(o) \/ NodeCall(n, o) \/ Call(o) \/ UNCHANGED faults
    PROVE  faults' \in 0..MaxFaults
BY Bounds DEF TypeOK, RunCall, NodeCall, Call

LEMMA NotedType ==
    ASSUME TypeOK, NEW S, NEW kind \in Mishaps
    PROVE  Noted(S, kind) \in [Tuples -> SUBSET Mishaps]
BY DEF TypeOK, Noted

LEMMA TypeStep == TypeOK /\ JobsFit /\ [Next]_vars => TypeOK'
<1> SUFFICES ASSUME TypeOK, JobsFit, [Next]_vars PROVE TypeOK'
  OBVIOUS
<1> USE DEF panel, history
<1>0. /\ job' \in [Nodes -> [pc : JobPc, late : BOOLEAN, got : SUBSET Sightings,
                             tuple : Tuples \cup {NoTuple}, at : 0..MaxSeen,
                             held : SUBSET Sightings]]
      /\ Cardinality(Working') <= MaxInflight
  BY JobsFitStep, WorkingStep DEF JobStates
<1>m. {"rejected", "stopped", "open", "expired"} \subseteq Mishaps BY DEF Mishaps
<1>1. ASSUME NEW o \in Outcomes, Boot(o) \/ RefreshTick(o) \/ PollOnce(o) PROVE TypeOK'
  <2>1. faults' \in 0..MaxFaults
    BY <1>1, CallCounts DEF Boot, RefreshTick, PollOnce, Refresh
  <2>2. nodes' \subseteq Nodes /\ run' \in {"boot", "poll", "idle", "round", "stopped"}
    BY <1>1 DEF TypeOK, Boot, RefreshTick, PollOnce, Refresh, StartRound
  <2> QED BY <1>0, <1>1, <2>1, <2>2 DEF TypeOK, Boot, RefreshTick, PollOnce
<1>2. ASSUME NEW n \in Nodes, Acquire(n) \/ Wake(n) \/ Deadline(n) PROVE TypeOK'
  BY <1>0, <1>2 DEF TypeOK, Acquire, Wake, Deadline
<1>3. ASSUME NEW n \in Nodes, NEW o \in Outcomes,
             Submit(n, o) \/ Result(n, o) \/ \E t \in Tuples : CheckUser(n, t, o)
      PROVE  TypeOK'
  <2>1. faults' \in 0..MaxFaults BY <1>3, CallCounts DEF Submit, Result, CheckUser
  <2> QED BY <1>0, <1>3, <2>1 DEF TypeOK, Submit, Result, CheckUser
<1>4. ASSUME NEW n \in Nodes, NEW o \in Outcomes, ReadMark(n, o) \/ SaveMark(n, o) PROVE TypeOK'
  <2>1. faults' \in 0..MaxFaults BY <1>4, CallCounts DEF ReadMark, SaveMark
  <2>2. job[n].tuple \in Tuples /\ job[n].at \in 1..MaxSeen
    BY <1>4, DecideMoves DEF ReadMark, SaveMark
  <2>3. mark' \in [Tuples -> 0..MaxSeen]
    <3>1. job[n].at \in 0..MaxSeen BY <2>2, Bounds
    <3>2. mark' = mark \/ mark' = [mark EXCEPT ![job[n].tuple] = job[n].at]
      BY <1>4 DEF ReadMark, SaveMark
    <3> QED BY <3>1, <3>2 DEF TypeOK
  <2>4. mishap' \in [Tuples -> SUBSET Mishaps]
    <3>1. mishap' = mishap \/ mishap' = Noted({job[n].tuple}, "open")
      BY <1>4 DEF ReadMark, SaveMark
    <3> QED BY <1>m, <3>1, NotedType DEF TypeOK
  <2> QED BY <1>0, <1>4, <2>1, <2>3, <2>4 DEF TypeOK, ReadMark, SaveMark
<1>5. ASSUME NEW n \in Nodes, Enqueue(n) PROVE TypeOK'
  <2> DEFINE held == job[n].held
             batch == {e[1] : e \in held}
             At(t) == CHOOSE v \in 1..MaxSeen : <<t, v>> \in held
  <2>1. \/ /\ sent' = [t \in Tuples |-> IF t \in batch THEN Bigger(sent[t], At(t)) ELSE sent[t]]
           /\ again' = again \cup {t \in batch : At(t) <= sent[t]}
           /\ UNCHANGED mishap
        \/ mishap' = Noted(batch, "rejected") /\ UNCHANGED <<sent, again>>
    BY <1>5, Zenon DEF Enqueue
  <2>2. batch \subseteq Tuples
    <3>1. held \subseteq Sightings BY DEF TypeOK
    <3> QED BY <3>1 DEF Sightings
  <2>3. \A t \in batch : At(t) \in 1..MaxSeen
    <3>1. \A t \in batch : \E v \in 1..MaxSeen : <<t, v>> \in held
      BY <1>5, <2>2, EnqueueMoves
    <3> QED BY <3>1
  <2>4. sent' \in [Tuples -> 0..MaxSeen] /\ again' \subseteq Tuples
    <3> HIDE DEF At, batch
    <3>1. \A t \in batch : Bigger(sent[t], At(t)) \in 0..MaxSeen
      BY <2>2, <2>3, Bounds DEF TypeOK, Bigger
    <3> QED BY <2>1, <2>2, <3>1 DEF TypeOK
  <2>5. mishap' \in [Tuples -> SUBSET Mishaps] BY <1>m, <2>1, NotedType DEF TypeOK
  <2> QED BY <1>0, <1>5, <2>4, <2>5 DEF TypeOK, Enqueue
<1>6. ASSUME NEW t \in Tuples, See(t) PROVE TypeOK'
  <2>1. seen[t] + 1 \in 0..MaxSeen BY <1>6, Bounds DEF TypeOK, See
  <2> QED BY <1>0, <1>6, <2>1 DEF TypeOK, See
<1>7. ASSUME NEW t \in Tuples, ExpireMark(t) PROVE TypeOK'
  <2>1. mishap' \in [Tuples -> SUBSET Mishaps] BY <1>m, <1>7, NotedType DEF ExpireMark
  <2>2. mark' \in [Tuples -> 0..MaxSeen] BY <1>7, Bounds DEF TypeOK, ExpireMark
  <2> QED BY <1>0, <1>7, <2>1, <2>2 DEF TypeOK, ExpireMark
<1>8. ASSUME NEW n \in Nodes, Toggle(n) PROVE TypeOK'
  <2>1. toggles' \in 0..MaxToggles BY <1>8, Bounds DEF TypeOK, Toggle
  <2> QED BY <1>0, <1>8, <2>1 DEF TypeOK, Toggle
<1>9. CASE Restart
  <2>1. mishap' \in [Tuples -> SUBSET Mishaps] BY <1>m, <1>9, NotedType DEF Restart
  <2>2. restarts' \in 0..MaxRestarts BY <1>9, Bounds DEF TypeOK, Restart
  <2> QED BY <1>0, <1>9, <2>1, <2>2 DEF TypeOK, Restart
<1>10. CASE EndRound \/ StopRun \/ Cancel \/ UNCHANGED vars
  BY <1>0, <1>10 DEF TypeOK, EndRound, StopRun, Cancel, vars
<1> QED BY <1>1, <1>2, <1>3, <1>4, <1>5, <1>6, <1>7, <1>8, <1>9, <1>10
        DEF Next, RunStep, NodeStep
-----------------------------------------------------------------------------
(* Watermarks *)

\* The steps that neither read or write a watermark nor offer a batch.
Plain ==
    /\ UNCHANGED <<mark, sent, again, mishap>>
    /\ \A n \in Nodes :
        /\ job'[n].held = job[n].held
        /\ job'[n].pc = "save" =>
              job[n].pc = "save" /\ job'[n].tuple = job[n].tuple /\ job'[n].at = job[n].at

LEMMA PlainStep ==
    ASSUME TypeOK, JobsFit, RoundFits, [Next]_vars
    PROVE  \/ Plain
           \/ \E n \in Nodes : Enqueue(n) \/ \E o \in Outcomes : ReadMark(n, o) \/ SaveMark(n, o)
           \/ \E t \in Tuples : ExpireMark(t)
           \/ Restart
<1> USE DEF panel, history
<1>0. job \in [Nodes -> JobStates] BY DEF TypeOK, JobStates
<1>1. ASSUME NEW n \in Nodes,
             Acquire(n) \/ Wake(n) \/ \E o \in Outcomes : Submit(n, o) \/ Result(n, o)
      PROVE  Plain
  <2>1. PICK j : Moves(n, j) /\ job[n].held = {} /\ j.held = {} /\ j.tuple = NoTuple
    BY <1>1, NodeMoves
  <2>2. job'[n] = j /\ (\A m \in Nodes : m # n => job'[m] = job[m]) /\ JobsFit'
    BY <1>0, <2>1, MoveFits
  <2>3. job'[n].pc # "save" BY <2>1, <2>2 DEF Moves, Fit
  <2>4. UNCHANGED <<mark, sent, again, mishap>>
    BY <1>1 DEF Acquire, Wake, Submit, Result
  <2> QED BY <2>1, <2>2, <2>3, <2>4 DEF Plain
<1>2. ASSUME NEW n \in Nodes, Deadline(n) PROVE Plain
  <2>1. job' = [job EXCEPT ![n].late = TRUE] /\ UNCHANGED <<mark, sent, again, mishap>>
    BY <1>2 DEF Deadline
  <2>2. \A m \in Nodes : /\ job'[m].held = job[m].held /\ job'[m].pc = job[m].pc
                         /\ job'[m].tuple = job[m].tuple /\ job'[m].at = job[m].at
    BY <1>0, <2>1 DEF JobStates
  <2> QED BY <2>1, <2>2 DEF Plain
<1>3. ASSUME NEW n \in Nodes, NEW t \in Tuples, NEW o \in Outcomes, CheckUser(n, t, o)
      PROVE  Plain
  <2>1. PICK j : Moves(n, j) /\ j.held = job[n].held /\ j.pc \in {"each", "read"}
    BY <1>3, CheckUserMoves
  <2>2. job'[n] = j /\ (\A m \in Nodes : m # n => job'[m] = job[m]) BY <1>0, <2>1, MoveFits
  <2>3. UNCHANGED <<mark, sent, again, mishap>> BY <1>3 DEF CheckUser
  <2> QED BY <2>1, <2>2, <2>3 DEF Plain
<1>4. ASSUME NEW o \in Outcomes, PollOnce(o) PROVE Plain
  <2>1. StartRound(nodes') /\ run # "round" /\ UNCHANGED <<mark, sent, again, mishap>>
    BY <1>4 DEF PollOnce
  <2>2. \A n \in Nodes : job[n].held = {}
    <3>1. \A n \in Nodes : job[n].pc = "off" /\ Fit(n, job[n])
      BY <2>1 DEF RoundFits, JobsFit
    <3> QED BY <3>1 DEF Fit
  <2>3. \A n \in Nodes : job'[n].held = {} /\ job'[n].pc # "save" BY <2>1 DEF StartRound, Off
  <2> QED BY <2>1, <2>2, <2>3 DEF Plain
<1>5. ASSUME UNCHANGED <<job, mark, sent, again, mishap>> PROVE Plain BY <1>5 DEF Plain
<1>6. ASSUME NEW o \in Outcomes, Boot(o) \/ RefreshTick(o)
      PROVE  UNCHANGED <<job, mark, sent, again, mishap>>
  BY <1>6 DEF Boot, RefreshTick
<1>7. ASSUME NEW n \in Nodes, Toggle(n) PROVE UNCHANGED <<job, mark, sent, again, mishap>>
  BY <1>7 DEF Toggle
<1>8. ASSUME NEW t \in Tuples, See(t) PROVE UNCHANGED <<job, mark, sent, again, mishap>>
  BY <1>8 DEF See
<1>9. EndRound \/ StopRun \/ Cancel \/ UNCHANGED vars =>
        UNCHANGED <<job, mark, sent, again, mishap>>
  BY DEF EndRound, StopRun, Cancel, vars
<1> QED BY <1>1, <1>2, <1>3, <1>4, <1>5, <1>6, <1>7, <1>8, <1>9 DEF Next, RunStep, NodeStep

LEMMA PlainKeeps ==
    ASSUME MarkFits, OnceFits, Plain
    PROVE  MarkFits' /\ OnceFits'
<1>1. \A t \in Tuples : NodeOf[t] \in Nodes BY Bounds
<1>2. MarkFits' BY <1>1 DEF Plain, MarkFits, Clean
<1>3. OnceFits' BY <1>1 DEF Plain, OnceFits, Clean
<1> QED BY <1>2, <1>3

\* GET: a known sighting is skipped, and one that is not waits for its SET; with
\* an error the entry is kept and the tuple is no longer clean.
LEMMA ReadMarkKeeps ==
    ASSUME TypeOK, JobsFit, MarkFits, OnceFits, NEW n \in Nodes, NEW o \in Outcomes,
           ReadMark(n, o)
    PROVE  MarkFits' /\ OnceFits'
<1> DEFINE t == job[n].tuple
           at == job[n].at
<1>0. job \in [Nodes -> JobStates] BY DEF TypeOK, JobStates
<1>1. /\ t \in Tuples /\ at \in 1..MaxSeen /\ NodeOf[t] = n
      /\ \A v \in 1..MaxSeen : <<t, v>> \notin job[n].held
      /\ UNCHANGED <<mark, sent, again>>
  BY DecideMoves DEF ReadMark
<1>2. \A x \in Tuples : NodeOf[x] \in Nodes BY Bounds
<1>3. CASE o = "ok" /\ Known(n) /\ Skip(n)
  <2>1. PICK j : Moves(n, j) /\ j.held = job[n].held /\ j.pc = "each"
    BY <1>3, DecideMoves DEF ReadMark
  <2>2. job'[n] = j /\ \A m \in Nodes : m # n => job'[m] = job[m] BY <1>0, <2>1, MoveFits
  <2>3. Plain BY <1>1, <1>3, <2>1, <2>2 DEF Plain, ReadMark
  <2> QED BY <2>3, PlainKeeps
<1>4. CASE o = "ok" /\ ~ Known(n) /\ Goes(n, "save")
  <2>1. PICK j : /\ Moves(n, j) /\ j.held = job[n].held /\ j.pc = "save"
                 /\ j.tuple = t /\ j.at = at
    BY <1>4, DecideMoves DEF ReadMark
  <2>2. job'[n] = j /\ \A m \in Nodes : m # n => job'[m] = job[m] BY <1>0, <2>1, MoveFits
  <2>3. UNCHANGED mishap BY <1>4 DEF ReadMark
  <2>4. mark[t] < at
    <3>1. mark[t] \in 0..MaxSeen BY <1>1 DEF TypeOK
    <3> QED BY <1>1, <1>4, <3>1, Bounds DEF Known
  <2>5. \A m \in Nodes : job'[m].held = job[m].held BY <2>1, <2>2
  <2>6. MarkFits' BY <1>1, <1>2, <2>3, <2>5 DEF MarkFits, Clean
  <2>7. OnceFits'
    <3> SUFFICES ASSUME NEW x \in Tuples, Clean(x, {"open", "expired"})'
                 PROVE  /\ x \notin again'
                        /\ sent'[x] <= mark'[x]
                        /\ \A v \in 1..MaxSeen : <<x, v>> \in job'[NodeOf[x]].held =>
                              sent'[x] < v /\ v <= mark'[x]
                        /\ job'[NodeOf[x]].pc = "save" /\ job'[NodeOf[x]].tuple = x =>
                              mark'[x] < job'[NodeOf[x]].at
      BY DEF OnceFits
    <3>1. Clean(x, {"open", "expired"}) BY <2>3 DEF Clean
    <3>2. /\ x \notin again /\ sent[x] <= mark[x]
          /\ \A v \in 1..MaxSeen : <<x, v>> \in job[NodeOf[x]].held => sent[x] < v /\ v <= mark[x]
          /\ job[NodeOf[x]].pc = "save" /\ job[NodeOf[x]].tuple = x => mark[x] < job[NodeOf[x]].at
      BY <3>1 DEF OnceFits
    <3>3. job'[NodeOf[x]].pc = "save" /\ job'[NodeOf[x]].tuple = x => mark[x] < job'[NodeOf[x]].at
      BY <1>2, <2>1, <2>2, <2>4, <3>2
    <3> QED BY <1>1, <1>2, <2>5, <3>2, <3>3
  <2> QED BY <2>6, <2>7
<1>5. CASE o # "ok" /\ Keep(n)
  <2>1. PICK j : Moves(n, j) /\ j.pc = "each" /\ j.held = job[n].held \cup {<<t, at>>}
    BY <1>5, DecideMoves DEF ReadMark
  <2>2. job'[n] = j /\ \A m \in Nodes : m # n => job'[m] = job[m] BY <1>0, <2>1, MoveFits
  <2>3. mishap' = Noted({t}, "open") BY <1>5 DEF ReadMark
  <2>4. \A m \in Nodes : job[m].held \subseteq job'[m].held BY <2>1, <2>2
  <2>5. /\ \A x \in Tuples : mishap[x] \subseteq mishap'[x]
        /\ "open" \in mishap'[t]
    BY <1>1, <2>3 DEF Noted
  <2>6. MarkFits'
    <3> SUFFICES ASSUME NEW x \in Tuples, Clean(x, {"rejected", "stopped"})'
                 PROVE  \/ mark'[x] <= sent'[x]
                        \/ \E v \in 1..MaxSeen :
                              <<x, v>> \in job'[NodeOf[x]].held /\ mark'[x] <= v
      BY DEF MarkFits
    <3>1. Clean(x, {"rejected", "stopped"}) BY <2>5 DEF Clean
    <3> QED BY <1>1, <1>2, <2>4, <3>1 DEF MarkFits
  <2>7. OnceFits'
    <3> SUFFICES ASSUME NEW x \in Tuples, Clean(x, {"open", "expired"})'
                 PROVE  /\ x \notin again'
                        /\ sent'[x] <= mark'[x]
                        /\ \A v \in 1..MaxSeen : <<x, v>> \in job'[NodeOf[x]].held =>
                              sent'[x] < v /\ v <= mark'[x]
                        /\ job'[NodeOf[x]].pc = "save" /\ job'[NodeOf[x]].tuple = x =>
                              mark'[x] < job'[NodeOf[x]].at
      BY DEF OnceFits
    <3>1. x # t /\ Clean(x, {"open", "expired"}) BY <2>5 DEF Clean
    <3>2. \A v \in 1..MaxSeen : <<x, v>> \in job'[NodeOf[x]].held => <<x, v>> \in job[NodeOf[x]].held
      <4>1. \A v \in 1..MaxSeen : <<x, v>> # <<t, at>> BY <3>1
      <4> QED BY <1>2, <2>1, <2>2, <4>1
    <3>3. job'[NodeOf[x]].pc = "save" => job'[NodeOf[x]] = job[NodeOf[x]] BY <1>2, <2>1, <2>2
    <3> QED BY <1>1, <3>1, <3>2, <3>3 DEF OnceFits
  <2> QED BY <2>6, <2>7
<1> QED BY <1>3, <1>4, <1>5 DEF ReadMark

\* SET: the entry is kept whatever the answer; done, the watermark is that of the
\* entry, and not done, the tuple is no longer clean.
LEMMA SaveMarkKeeps ==
    ASSUME TypeOK, JobsFit, MarkFits, OnceFits, NEW n \in Nodes, NEW o \in Outcomes,
           SaveMark(n, o)
    PROVE  MarkFits' /\ OnceFits'
<1> DEFINE t == job[n].tuple
           at == job[n].at
<1>0. job \in [Nodes -> JobStates] BY DEF TypeOK, JobStates
<1>1. /\ t \in Tuples /\ at \in 1..MaxSeen /\ NodeOf[t] = n
      /\ \A v \in 1..MaxSeen : <<t, v>> \notin job[n].held
      /\ UNCHANGED <<sent, again>> /\ Keep(n) /\ job[n].pc = "save"
  BY DecideMoves DEF SaveMark
<1>2. \A x \in Tuples : NodeOf[x] \in Nodes BY Bounds
<1>3. PICK j : Moves(n, j) /\ j.pc = "each" /\ j.held = job[n].held \cup {<<t, at>>}
  BY <1>1, DecideMoves
<1>4. job'[n] = j /\ \A m \in Nodes : m # n => job'[m] = job[m] BY <1>0, <1>3, MoveFits
<1>5. /\ \A x \in Tuples : mishap[x] \subseteq mishap'[x]
      /\ \/ mark' = mark /\ "open" \in mishap'[t]
         \/ mark' = [mark EXCEPT ![t] = at]
  BY <1>1 DEF SaveMark, Noted
<1>6. \A x \in Tuples : mark[x] \in 0..MaxSeen /\ sent[x] \in 0..MaxSeen BY DEF TypeOK
<1>7. \A x \in Tuples : x # t => mark'[x] = mark[x] BY <1>5 DEF TypeOK
<1>8. mark'[t] \in {mark[t], at} BY <1>1, <1>5 DEF TypeOK
<1>9. ASSUME NEW x \in Tuples, x # t, NEW v \in 1..MaxSeen
      PROVE  <<x, v>> \in job'[NodeOf[x]].held <=> <<x, v>> \in job[NodeOf[x]].held
  <2>1. <<x, v>> # <<t, at>> BY <1>9
  <2> QED BY <1>2, <1>3, <1>4, <2>1
<1>10. MarkFits'
  <2> SUFFICES ASSUME NEW x \in Tuples, Clean(x, {"rejected", "stopped"})'
               PROVE  \/ mark'[x] <= sent'[x]
                      \/ \E v \in 1..MaxSeen :
                            <<x, v>> \in job'[NodeOf[x]].held /\ mark'[x] <= v
    BY DEF MarkFits
  <2>1. Clean(x, {"rejected", "stopped"}) BY <1>5 DEF Clean
  <2>2. mark[x] <= sent[x] \/ \E v \in 1..MaxSeen : <<x, v>> \in job[NodeOf[x]].held /\ mark[x] <= v
    BY <2>1 DEF MarkFits
  <2>3. CASE x # t BY <1>1, <1>7, <1>9, <2>2, <2>3
  <2>4. CASE x = t
    <3>1. <<t, at>> \in job'[NodeOf[t]].held BY <1>1, <1>3, <1>4
    <3>2. mark[t] <= sent[t] BY <1>1, <2>2, <2>4
    <3>3. CASE mark'[t] = mark[t] BY <1>1, <2>4, <3>2, <3>3
    <3>4. CASE mark'[t] = at
      <4>1. mark'[t] <= at BY <1>1, <3>4
      <4> QED BY <1>1, <2>4, <3>1, <4>1
    <3> QED BY <1>8, <3>3, <3>4
  <2> QED BY <2>3, <2>4
<1>11. OnceFits'
  <2> SUFFICES ASSUME NEW x \in Tuples, Clean(x, {"open", "expired"})'
               PROVE  /\ x \notin again'
                      /\ sent'[x] <= mark'[x]
                      /\ \A v \in 1..MaxSeen : <<x, v>> \in job'[NodeOf[x]].held =>
                            sent'[x] < v /\ v <= mark'[x]
                      /\ job'[NodeOf[x]].pc = "save" /\ job'[NodeOf[x]].tuple = x =>
                            mark'[x] < job'[NodeOf[x]].at
    BY DEF OnceFits
  <2>1. Clean(x, {"open", "expired"}) BY <1>5 DEF Clean
  <2>2. /\ x \notin again /\ sent[x] <= mark[x]
        /\ \A v \in 1..MaxSeen : <<x, v>> \in job[NodeOf[x]].held => sent[x] < v /\ v <= mark[x]
        /\ job[NodeOf[x]].pc = "save" /\ job[NodeOf[x]].tuple = x => mark[x] < job[NodeOf[x]].at
    BY <2>1 DEF OnceFits
  <2>3. CASE x # t
    <3>1. job'[NodeOf[x]].pc = "save" => job'[NodeOf[x]] = job[NodeOf[x]] BY <1>2, <1>3, <1>4
    <3> QED BY <1>1, <1>7, <1>9, <2>2, <2>3, <3>1
  <2>4. CASE x = t
    <3>1. mark'[t] = at BY <1>1, <1>5, <2>4 DEF Clean, TypeOK
    <3>2. mark[t] < at /\ sent[t] <= mark[t] BY <1>1, <2>2, <2>4
    <3>3. sent[t] < at BY <1>1, <1>6, <3>2, Bounds
    <3>4. \A v \in 1..MaxSeen : <<t, v>> \in job'[NodeOf[t]].held => v = at
      BY <1>1, <1>3, <1>4
    <3>5. job'[NodeOf[t]].pc = "each" BY <1>1, <1>3, <1>4
    <3>6. sent[t] <= at /\ at <= at BY <1>1, <1>6, <3>3
    <3> HIDE DEF t, at
    <3> QED BY <1>1, <2>2, <2>4, <3>1, <3>3, <3>4, <3>5, <3>6
  <2> QED BY <2>3, <2>4
<1> QED BY <1>10, <1>11

\* The log queue takes the batch, and everything in it was sent; or it refuses,
\* and the tuples of the batch are no longer clean.
LEMMA EnqueueKeeps ==
    ASSUME TypeOK, JobsFit, MarkFits, OnceFits, NEW n \in Nodes, Enqueue(n)
    PROVE  MarkFits' /\ OnceFits'
<1> DEFINE held == job[n].held
           batch == {e[1] : e \in held}
           At(t) == CHOOSE v \in 1..MaxSeen : <<t, v>> \in held
<1>0. job \in [Nodes -> JobStates] BY DEF TypeOK, JobStates
<1>1. \/ /\ sent' = [t \in Tuples |-> IF t \in batch THEN Bigger(sent[t], At(t)) ELSE sent[t]]
         /\ again' = again \cup {t \in batch : At(t) <= sent[t]}
         /\ UNCHANGED mishap
      \/ mishap' = Noted(batch, "rejected") /\ UNCHANGED <<sent, again>>
  BY Zenon DEF Enqueue
<1>2. \A x \in Tuples : NodeOf[x] \in Nodes BY Bounds
<1>3. UNCHANGED mark BY DEF Enqueue
<1>4. job'[n] = Off /\ (\A m \in Nodes : m # n => job'[m] = job[m]) /\ Off.held = {}
      /\ Off.pc = "off"
  <2>1. Moves(n, Off) BY EnqueueMoves
  <2>2. Off.held = {} /\ Off.pc = "off" BY DEF Off
  <2> QED BY <1>0, <2>1, <2>2, MoveFits
<1>5. ASSUME NEW x \in Tuples
      PROVE  /\ x \in batch => /\ NodeOf[x] = n /\ At(x) \in 1..MaxSeen /\ <<x, At(x)>> \in held
                               /\ \A v \in 1..MaxSeen : <<x, v>> \in held => v = At(x)
             /\ x \notin batch => \A v \in 1..MaxSeen : <<x, v>> \notin held
  <2>1. ASSUME NEW v \in 1..MaxSeen, <<x, v>> \in held PROVE x \in batch
    <3>1. <<x, v>>[1] = x OBVIOUS
    <3> QED BY <2>1, <3>1
  <2>2. x \in batch => /\ NodeOf[x] = n
                       /\ \E v \in 1..MaxSeen :
                            /\ <<x, v>> \in held /\ At(x) = v
                            /\ \A w \in 1..MaxSeen : <<x, w>> \in held => w = v
    BY EnqueueMoves
  <2> HIDE DEF batch, At
  <2> QED BY <2>1, <2>2
<1>6. \A x \in Tuples : sent[x] \in 0..MaxSeen /\ mark[x] \in 0..MaxSeen BY DEF TypeOK
<1> HIDE DEF batch, At
<1>7. /\ \A x \in Tuples : mishap[x] \subseteq mishap'[x]
      /\ \A x \in Tuples : sent'[x] # sent[x] => x \in batch
      /\ \A x \in Tuples : x \in again' => x \in again \/ (x \in batch /\ At(x) <= sent[x])
  BY <1>1 DEF Noted
<1>8. ASSUME NEW x \in Tuples, x \in batch
      PROVE  \/ "rejected" \in mishap'[x] /\ sent'[x] = sent[x] /\ (x \in again' => x \in again)
             \/ sent'[x] = Bigger(sent[x], At(x))
  BY <1>1, <1>8 DEF Noted
<1>9. ASSUME NEW x \in Tuples, x \notin batch, NEW v \in 1..MaxSeen
      PROVE  <<x, v>> \in job'[NodeOf[x]].held <=> <<x, v>> \in job[NodeOf[x]].held
  <2>1. CASE NodeOf[x] = n BY <1>4, <1>5, <1>9, <2>1
  <2>2. CASE NodeOf[x] # n BY <1>2, <1>4, <2>2
  <2> QED BY <2>1, <2>2
<1>10. MarkFits'
  <2> SUFFICES ASSUME NEW x \in Tuples, Clean(x, {"rejected", "stopped"})'
               PROVE  \/ mark'[x] <= sent'[x]
                      \/ \E v \in 1..MaxSeen :
                            <<x, v>> \in job'[NodeOf[x]].held /\ mark'[x] <= v
    BY DEF MarkFits
  <2>1. Clean(x, {"rejected", "stopped"}) BY <1>7 DEF Clean
  <2>2. mark[x] <= sent[x] \/ \E v \in 1..MaxSeen : <<x, v>> \in job[NodeOf[x]].held /\ mark[x] <= v
    BY <2>1 DEF MarkFits
  <2>3. CASE x \notin batch BY <1>3, <1>7, <1>9, <2>2, <2>3
  <2>4. CASE x \in batch
    <3>1. "rejected" \notin mishap'[x] BY DEF Clean
    <3>2. sent'[x] = Bigger(sent[x], At(x)) BY <1>8, <2>4, <3>1
    <3>3. mark[x] <= sent[x] \/ mark[x] <= At(x) BY <1>5, <2>2, <2>4
    <3>4. At(x) \in 1..MaxSeen BY <1>5, <2>4
    <3>5. mark[x] <= sent'[x] BY <1>6, <3>2, <3>3, <3>4, Bounds DEF Bigger
    <3> QED BY <1>3, <3>5
  <2> QED BY <2>3, <2>4
<1>11. OnceFits'
  <2> SUFFICES ASSUME NEW x \in Tuples, Clean(x, {"open", "expired"})'
               PROVE  /\ x \notin again'
                      /\ sent'[x] <= mark'[x]
                      /\ \A v \in 1..MaxSeen : <<x, v>> \in job'[NodeOf[x]].held =>
                            sent'[x] < v /\ v <= mark'[x]
                      /\ job'[NodeOf[x]].pc = "save" /\ job'[NodeOf[x]].tuple = x =>
                            mark'[x] < job'[NodeOf[x]].at
    BY DEF OnceFits
  <2>1. Clean(x, {"open", "expired"}) BY <1>7 DEF Clean
  <2>2. /\ x \notin again /\ sent[x] <= mark[x]
        /\ \A v \in 1..MaxSeen : <<x, v>> \in job[NodeOf[x]].held => sent[x] < v /\ v <= mark[x]
        /\ job[NodeOf[x]].pc = "save" /\ job[NodeOf[x]].tuple = x => mark[x] < job[NodeOf[x]].at
    BY <2>1 DEF OnceFits
  <2>3. job'[NodeOf[x]].pc = "save" /\ job'[NodeOf[x]].tuple = x => mark'[x] < job'[NodeOf[x]].at
    BY <1>2, <1>3, <1>4, <2>2
  <2>4. CASE x \notin batch BY <1>3, <1>7, <1>9, <2>2, <2>3, <2>4
  <2>5. CASE x \in batch
    <3>1. NodeOf[x] = n /\ At(x) \in 1..MaxSeen /\ <<x, At(x)>> \in job[n].held BY <1>5, <2>5
    <3>2. sent[x] < At(x) /\ At(x) <= mark[x] BY <2>2, <3>1
    <3>3. ~ (At(x) <= sent[x]) BY <1>6, <3>1, <3>2, Bounds
    <3>4. x \notin again' BY <1>7, <2>2, <3>3
    <3>5. sent'[x] <= mark[x]
      BY <1>6, <1>8, <2>2, <2>5, <3>1, <3>2, Bounds DEF Bigger
    <3>6. \A v \in 1..MaxSeen : <<x, v>> \notin job'[NodeOf[x]].held BY <1>4, <3>1
    <3> QED BY <1>3, <2>3, <3>4, <3>5, <3>6
  <2> QED BY <2>4, <2>5
<1> QED BY <1>10, <1>11

\* An expired watermark hides nothing, and is noted.
LEMMA ExpireKeeps ==
    ASSUME TypeOK, MarkFits, OnceFits, NEW t \in Tuples, ExpireMark(t)
    PROVE  MarkFits' /\ OnceFits'
<1>1. UNCHANGED <<job, sent, again>> BY DEF ExpireMark
<1>2. /\ \A x \in Tuples : mishap[x] \subseteq mishap'[x]
      /\ "expired" \in mishap'[t]
      /\ mark'[t] = 0 /\ \A x \in Tuples : x # t => mark'[x] = mark[x]
  BY DEF ExpireMark, Noted, TypeOK
<1>3. 0 <= sent[t] BY Bounds DEF TypeOK
<1>4. MarkFits'
  <2> SUFFICES ASSUME NEW x \in Tuples, Clean(x, {"rejected", "stopped"})'
               PROVE  \/ mark'[x] <= sent'[x]
                      \/ \E v \in 1..MaxSeen :
                            <<x, v>> \in job'[NodeOf[x]].held /\ mark'[x] <= v
    BY DEF MarkFits
  <2>1. Clean(x, {"rejected", "stopped"}) BY <1>2 DEF Clean
  <2> QED BY <1>1, <1>2, <1>3, <2>1 DEF MarkFits
<1>5. OnceFits'
  <2> SUFFICES ASSUME NEW x \in Tuples, Clean(x, {"open", "expired"})'
               PROVE  /\ x \notin again'
                      /\ sent'[x] <= mark'[x]
                      /\ \A v \in 1..MaxSeen : <<x, v>> \in job'[NodeOf[x]].held =>
                            sent'[x] < v /\ v <= mark'[x]
                      /\ job'[NodeOf[x]].pc = "save" /\ job'[NodeOf[x]].tuple = x =>
                            mark'[x] < job'[NodeOf[x]].at
    BY DEF OnceFits
  <2>1. x # t /\ Clean(x, {"open", "expired"}) BY <1>2 DEF Clean
  <2> QED BY <1>1, <1>2, <2>1 DEF OnceFits
<1> QED BY <1>4, <1>5

\* What the process had in memory is lost, and noted.
LEMMA RestartKeeps ==
    ASSUME TypeOK, MarkFits, OnceFits, Restart
    PROVE  MarkFits' /\ OnceFits'
<1> DEFINE gone == {t \in Tuples : \E n \in Nodes :
                      t = job[n].tuple \/ (\E v \in 1..MaxSeen : <<t, v>> \in job[n].held)}
<1>1. UNCHANGED <<mark, sent, again>> /\ mishap' = Noted(gone, "stopped") BY DEF Restart
<1>2. \A n \in Nodes : job'[n].held = {} /\ job'[n].pc = "off" BY DEF Restart, Off
<1>3. \A x \in Tuples : mishap[x] \subseteq mishap'[x] /\ (x \in gone => "stopped" \in mishap'[x])
  BY <1>1 DEF Noted
<1>4. \A x \in Tuples : NodeOf[x] \in Nodes BY Bounds
<1>5. MarkFits'
  <2> SUFFICES ASSUME NEW x \in Tuples, Clean(x, {"rejected", "stopped"})'
               PROVE  mark'[x] <= sent'[x]
    BY DEF MarkFits
  <2>1. x \notin gone /\ Clean(x, {"rejected", "stopped"}) BY <1>3 DEF Clean
  <2> QED BY <1>1, <1>4, <2>1 DEF MarkFits
<1>6. OnceFits'
  <2> SUFFICES ASSUME NEW x \in Tuples, Clean(x, {"open", "expired"})'
               PROVE  x \notin again' /\ sent'[x] <= mark'[x]
    BY <1>2, <1>4 DEF OnceFits
  <2>1. Clean(x, {"open", "expired"}) BY <1>3 DEF Clean
  <2> QED BY <1>1, <2>1 DEF OnceFits
<1> QED BY <1>5, <1>6

LEMMA WatermarkStep == IInv /\ [Next]_vars => MarkFits' /\ OnceFits'
BY PlainStep, PlainKeeps, ReadMarkKeeps, SaveMarkKeeps, EnqueueKeeps, ExpireKeeps, RestartKeeps
   DEF IInv
-----------------------------------------------------------------------------
LEMMA InitIInv == Init => IInv
<1> SUFFICES ASSUME Init PROVE IInv
  OBVIOUS
<1>1. job = [n \in Nodes |-> Off] BY DEF Init
<1>2. job \in [Nodes -> JobStates] BY <1>1, OffState
<1>3. Cardinality(Working) <= MaxInflight
  <2>1. Working = {} BY <1>1 DEF Working, Off
  <2> QED BY <2>1, FS_EmptySet, Bounds
<1>4. TypeOK
  <2>1. 0 \in 0..MaxSeen /\ 0 \in 0..MaxToggles /\ 0 \in 0..MaxFaults /\ 0 \in 0..MaxRestarts
    BY Bounds
  <2> QED BY <1>2, <1>3, <2>1 DEF Init, TypeOK, JobStates
<1>5. JobsFit BY <1>1, OffState DEF JobsFit
<1>6. RoundFits BY <1>1 DEF RoundFits, Off
<1>7. \A n \in Nodes : job[n].held = {} /\ job[n].pc = "off" BY <1>1 DEF Off
<1>8. MarkFits BY DEF Init, MarkFits
<1>9. OnceFits BY <1>7, Bounds DEF Init, OnceFits
<1> QED BY <1>4, <1>5, <1>6, <1>8, <1>9 DEF IInv

LEMMA Invariance == Spec => []IInv
<1>1. IInv /\ [Next]_vars => IInv'
  BY TypeStep, JobsFitStep, RoundFitsStep, WatermarkStep DEF IInv
<1> QED BY <1>1, InitIInv, PTL DEF Spec

\* The variables of panel ingest keep their types, and the semaphore lets no more
\* than PANEL_FETCH_MAX_INFLIGHT goroutines fetch at once (pollOnce, pollNode).
THEOREM TypeCorrect == Spec => []TypeOK
<1>1. IInv => TypeOK BY DEF IInv
<1> QED BY <1>1, Invariance, PTL

\* A watermark hides only what was handed over (ShouldEnqueue before
\* EnqueueEntries), unless the batch was refused or the process stopped with it.
THEOREM NothingHidden == Spec => []MarkedWasSent
<1>1. IInv => MarkedWasSent
  <2> SUFFICES ASSUME IInv, NEW t \in Tuples, mark[t] > sent[t],
                      Clean(t, {"rejected", "stopped"})
               PROVE  InMemory(t)
    BY DEF MarkedWasSent
  <2>1. mark[t] \in 0..MaxSeen /\ sent[t] \in 0..MaxSeen BY DEF IInv, TypeOK
  <2>2. ~ (mark[t] <= sent[t]) BY <2>1, Bounds
  <2>3. \E v \in 1..MaxSeen : <<t, v>> \in job[NodeOf[t]].held BY <2>2 DEF IInv, MarkFits
  <2> QED BY <2>3, Bounds DEF InMemory
<1> QED BY <1>1, Invariance, PTL

\* The log queue gets a sighting once, however many rounds report it, as long as
\* its watermark could be read and written and has not expired.
THEOREM HandedOverOnce == Spec => []SentOnce
<1>1. IInv => SentOnce BY DEF IInv, TypeOK, OnceFits, SentOnce
<1> QED BY <1>1, Invariance, PTL
=============================================================================
