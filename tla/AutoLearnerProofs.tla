-------------------------- MODULE AutoLearnerProofs --------------------------
(***************************************************************************)
(* Proofs about AutoLearner for every set of names, keywords and types,    *)
(* every base list and every number of faults and restarts.                *)
(*                                                                         *)
(* Sourced splits LearnedWasApproved into the places a word can be in;     *)
(* Carried says what a running cycle holds at each position; and LoadedFits*)
(* is why a reload or a restart never forgets a word.                      *)
(***************************************************************************)
EXTENDS AutoLearner, WellFoundedInduction, FiniteSetTheorems, TLAPS

Approvals == {Name[o].keyword : o \in approved}

Sourced ==
    /\ Words(loaded) \subseteq Words(Base) \cup Approvals
    /\ Words(overlay) \subseteq Approvals
    /\ Words(cycle.new) \subseteq Approvals

Carried ==
    /\ cycle.pc = "idle" => cycle = Idle
    /\ cycle.pc \in {"insert", "approve"} =>
           /\ cycle.org \in Orgs /\ cycle.type \in TypeNames
           /\ Name[cycle.org].keyword \in Keywords
           /\ cycle.added < MaxAdds
    /\ cycle.added = 0 => cycle.names = {}
    /\ \A o \in cycle.names :
           Name[o].keyword \in Words(IF cycle.pc = "reload" THEN overlay ELSE cycle.new)

LoadedFits == ~ missed => \A t \in TypeNames : loaded[t] \subseteq Base[t] \cup overlay[t]

IInv == TypeOK /\ Sourced /\ Carried /\ ApprovedIsKept /\ LoadedFits
-----------------------------------------------------------------------------
(* Lists and places *)

LEMMA MergeLists ==
    ASSUME NEW a \in Lists, NEW b \in Lists
    PROVE  /\ Merge(a, b) \in Lists
           /\ Words(Merge(a, b)) = Words(a) \cup Words(b)
           /\ \A t \in TypeNames : a[t] \cup b[t] = Merge(a, b)[t]
<1>1. Merge(a, b) \in Lists BY DEF Merge, Lists
<1>2. \A t \in TypeNames : a[t] \cup b[t] = Merge(a, b)[t] BY DEF Merge
<1>3. ASSUME NEW k PROVE k \in Words(Merge(a, b)) <=> k \in Words(a) \cup Words(b)
  BY <1>2 DEF Words
<1> QED BY <1>1, <1>2, <1>3

LEMMA NoWordsEmpty == NoWords \in Lists /\ Words(NoWords) = {}
BY DEF NoWords, Lists, Words

\* One more word in one list.
LEMMA AddWord ==
    ASSUME NEW a \in Lists, NEW t \in TypeNames, NEW k \in Keywords
    PROVE  /\ [a EXCEPT ![t] = @ \cup {k}] \in Lists
           /\ Words([a EXCEPT ![t] = @ \cup {k}]) = Words(a) \cup {k}
<1> DEFINE b == [a EXCEPT ![t] = @ \cup {k}]
<1>1. b \in Lists BY DEF Lists
<1>2. b[t] = a[t] \cup {k} /\ \A s \in TypeNames \ {t} : b[s] = a[s] BY DEF Lists
<1>3. ASSUME NEW j PROVE j \in Words(b) <=> j \in Words(a) \cup {k} BY <1>2 DEF Words
<1> QED BY <1>1, <1>3

LEMMA PlacesCount == Cardinality(TypeNames) \in Nat
BY AutoLearnerAssumption, FS_CardinalityType

LEMMA LeastPlace ==
    ASSUME NEW S \in SUBSET (DOMAIN Types), S # {}
    PROVE  \E n \in S : \A k \in S : n <= k
<1> DEFINE R == OpToRel(<, Nat)
<1>1. S \subseteq Nat BY PlacesCount, AutoLearnerAssumption
<1>2. \E n \in S : \A k \in S : ~ (<<k, n>> \in R)
  <2>1. IsWellFoundedOn(R, Nat) BY NatLessThanWellFounded
  <2> HIDE DEF R
  <2> QED BY <1>1, <2>1, WFMin
<1>3. \A n, k \in Nat : ~ (<<k, n>> \in R) => n <= k BY DEF OpToRel
<1> QED BY <1>1, <1>2, <1>3

\* More words move a name up in the order of priorities, never down.
LEMMA PlaceMonotone ==
    ASSUME NEW a \in Lists, NEW b \in Lists, NEW o \in Orgs,
           \A t \in TypeNames : a[t] \subseteq b[t]
    PROVE  Place(b, o) <= Place(a, o)
<1> DEFINE M(lists) == {n \in DOMAIN Types : lists[Types[n]] \cap Name[o].matches # {}}
           C == Cardinality(TypeNames)
<1>0. C \in Nat /\ DOMAIN Types = 1..C BY PlacesCount, AutoLearnerAssumption
<1>1. M(a) \subseteq M(b) BY DEF TypeNames
<1>2. ASSUME NEW lists, M(lists) # {}
      PROVE  Place(lists, o) \in M(lists) /\ \A k \in M(lists) : Place(lists, o) <= k
  <2>1. \E n \in M(lists) : \A k \in M(lists) : n <= k BY <1>2, LeastPlace
  <2>2. Place(lists, o) = CHOOSE n \in M(lists) : \A k \in M(lists) : n <= k
    BY <1>2 DEF Place
  <2> HIDE DEF M
  <2> QED BY <2>1, <2>2
<1>3. ASSUME NEW lists, M(lists) = {} PROVE Place(lists, o) = C + 1 BY <1>3 DEF Place
<1>4. CASE M(a) # {}
  <2>1. M(b) # {} BY <1>1, <1>4
  <2>2. Place(a, o) \in M(b) BY <1>1, <1>2, <1>4
  <2> HIDE DEF M
  <2> QED BY <1>2, <2>1, <2>2
<1>5. CASE M(a) = {} /\ M(b) # {}
  <2>1. Place(b, o) \in 1..C BY <1>0, <1>2, <1>5
  <2> HIDE DEF M, C
  <2> QED BY <1>0, <1>3, <1>5, <2>1
<1>6. CASE M(a) = {} /\ M(b) = {}
  <2> HIDE DEF M, C
  <2> QED BY <1>0, <1>3, <1>6
<1> QED BY <1>4, <1>5, <1>6
-----------------------------------------------------------------------------
(* Classification *)

Verdicts == [type : TypeNames, rank : 0..3]

LEMMA SuggestionType ==
    ASSUME NEW within, NEW hint \in TypeNames \cup {None}
    PROVE  Suggestions(within, hint) \subseteq Verdicts
<1> DEFINE hits(t) == loaded[t] \cap within
           Skipped == {"education", "cdn", "satellite"}
           strong == {t \in TypeNames \cap {"vpn_proxy", "hosting"} : hits(t) # {}}
           weak == {t \in TypeNames \ Skipped : hits(t) # {}}
           most == {t \in weak : \A s \in weak : Cardinality(hits(s)) <= Cardinality(hits(t))}
           Sure == {Verdict(IF "vpn_proxy" \in strong THEN "vpn_proxy" ELSE "hosting", 3)}
           Likely == {Verdict(t, 2) : t \in most}
<1>1. Sure \subseteq Verdicts
  <2>1. (IF "vpn_proxy" \in strong THEN "vpn_proxy" ELSE "hosting") \in TypeNames
    BY AutoLearnerAssumption
  <2> HIDE DEF strong
  <2> QED BY <2>1 DEF Verdict, Verdicts
<1>2. Likely \subseteq Verdicts
  <2>1. most \subseteq TypeNames OBVIOUS
  <2> HIDE DEF most
  <2> QED BY <2>1 DEF Verdict, Verdicts
<1>3. hint # None => {Verdict(hint, 1)} \subseteq Verdicts BY DEF Verdict, Verdicts
<1>4. {Verdict("isp", 0)} \subseteq Verdicts
  BY AutoLearnerAssumption DEF Verdict, Verdicts
<1>5. Suggestions(within, hint) =
        CASE strong # {} -> Sure
          [] strong = {} /\ weak # {} -> Likely
          [] weak = {} /\ hint # None -> {Verdict(hint, 1)}
          [] OTHER -> {Verdict("isp", 0)}
  BY DEF Suggestions
<1> HIDE DEF strong, weak, Sure, Likely
<1> QED BY <1>1, <1>2, <1>3, <1>4, <1>5

LEMMA ClassifiedType ==
    ASSUME NEW o \in Orgs
    PROVE  Classified(o) \subseteq Verdicts
<1>1. Name[o].hint \in TypeNames \cup {None} /\ Name[o].caidaHint \in TypeNames \cup {None}
  BY AutoLearnerAssumption DEF Names
<1> QED BY <1>1, SuggestionType DEF Classified

LEMMA BoostedType ==
    ASSUME NEW r \in 0..3, NEW n
    PROVE  Boosted(r, n) \in 0..3
BY DEF Boosted

\* A keyword worth learning is a keyword.
LEMMA WorthKeyword ==
    ASSUME NEW o \in Orgs, NEW v, Worth(o, v)
    PROVE  Name[o].keyword \in Keywords
BY AutoLearnerAssumption DEF Worth, Names
-----------------------------------------------------------------------------
(* Types *)

Cycles == [pc : {"idle", "choose", "insert", "approve", "write", "reload"},
           todo : SUBSET Orgs, org : Orgs \cup {None},
           type : TypeNames \cup {None}, rank : 0..3, new : Lists,
           names : SUBSET Orgs, added : 0..MaxAdds]

LEMMA IdleCycle == Idle \in Cycles
BY NoWordsEmpty, AutoLearnerAssumption DEF Idle, Cycles

LEMMA BaseLists == Base \in Lists
BY AutoLearnerAssumption DEF Lists

\* ChooseCluster drops a name with those similar to it, or takes it to be stored.
LEMMA ChooseEffect ==
    ASSUME TypeOK, NEW o \in Orgs, ChooseCluster(o)
    PROVE  /\ cycle' \in Cycles
           /\ cycle'.new = cycle.new /\ cycle'.names = cycle.names
           /\ cycle'.added = cycle.added /\ cycle.added < MaxAdds
           /\ \/ cycle'.pc = "choose"
              \/ /\ cycle'.pc = "insert" /\ cycle'.org = o /\ cycle'.type \in TypeNames
                 /\ Name[o].keyword \in Keywords
<1> DEFINE rest == cycle.todo \ ({o} \cup Similar[o])
<1>0. cycle \in Cycles /\ rest \in SUBSET Orgs /\ MaxAdds \in Nat
      /\ cycle.pc = "choose" /\ cycle.added < MaxAdds
  BY AutoLearnerAssumption DEF TypeOK, Cycles, ChooseCluster, MayAdd
<1>1. PICK v \in Classified(o) :
         \/ /\ ~ Worth(o, v)
            /\ cycle' = [cycle EXCEPT !.todo = rest]
         \/ /\ Worth(o, v)
            /\ cycle' = [cycle EXCEPT !.pc = "insert", !.todo = rest, !.org = o,
                   !.type = v.type, !.rank = Boosted(v.rank, Name[o].seen)]
  BY DEF ChooseCluster
<1>2. v.type \in TypeNames /\ v.rank \in 0..3
  BY ClassifiedType DEF Verdicts
<1>3. Boosted(v.rank, Name[o].seen) \in 0..3 BY <1>2, BoostedType
<1> HIDE DEF rest
<1>4. CASE /\ ~ Worth(o, v) /\ cycle' = [cycle EXCEPT !.todo = rest]
  BY <1>0, <1>4 DEF Cycles
<1>5. CASE /\ Worth(o, v)
           /\ cycle' = [cycle EXCEPT !.pc = "insert", !.todo = rest, !.org = o,
                   !.type = v.type, !.rank = Boosted(v.rank, Name[o].seen)]
  <2>1. Name[o].keyword \in Keywords BY <1>5, WorthKeyword
  <2>2. cycle' \in Cycles BY <1>0, <1>2, <1>3, <1>5 DEF Cycles
  <2>3. /\ cycle'.new = cycle.new /\ cycle'.names = cycle.names
        /\ cycle'.added = cycle.added /\ cycle'.pc = "insert"
        /\ cycle'.org = o /\ cycle'.type = v.type
    BY <1>0, <1>5 DEF Cycles
  <2> QED BY <1>0, <1>2, <2>1, <2>2, <2>3
<1> QED BY <1>1, <1>4, <1>5

LEMMA ContinueType ==
    ASSUME cycle \in Cycles
    PROVE  /\ Continue \in Cycles /\ Continue.pc = "choose"
           /\ Continue.new = cycle.new /\ Continue.names = cycle.names
           /\ Continue.added = cycle.added
<1>1. DOMAIN cycle = {"pc", "todo", "org", "type", "rank", "new", "names", "added"}
  BY DEF Cycles
<1>2. /\ Continue.pc = "choose" /\ Continue.org = None /\ Continue.type = None
      /\ Continue.rank = 0
      /\ Continue.todo = cycle.todo /\ Continue.new = cycle.new
      /\ Continue.names = cycle.names /\ Continue.added = cycle.added
  BY <1>1 DEF Continue
<1>3. Continue \in Cycles
  <2>1. 0 \in 0..3 OBVIOUS
  <2> QED BY <2>1 DEF Continue, Cycles
<1> QED BY <1>2, <1>3

\* Approve learns the word of the name or goes on without it, and then names what
\* a failed call stored all the same.
LEMMA ApproveEffect ==
    ASSUME TypeOK, Carried, Approve
    PROVE  /\ cycle' \in Cycles /\ cycle'.pc = "choose" /\ cycle.org \in Orgs
           /\ \/ /\ approved' = approved \cup {cycle.org}
                 /\ UNCHANGED unwritten
                 /\ cycle'.added = cycle.added + 1
                 /\ cycle'.names = cycle.names \cup {cycle.org}
                 /\ Words(cycle'.new) = Words(cycle.new) \cup {Name[cycle.org].keyword}
              \/ /\ \/ UNCHANGED <<approved, unwritten>>
                    \/ /\ approved' = approved \cup {cycle.org}
                       /\ unwritten' = unwritten \cup {cycle.org}
                 /\ cycle'.added = cycle.added /\ cycle'.names = cycle.names
                 /\ cycle'.new = cycle.new
<1>0. /\ cycle \in Cycles /\ cycle.org \in Orgs /\ cycle.type \in TypeNames
      /\ Name[cycle.org].keyword \in Keywords /\ cycle.added < MaxAdds /\ MaxAdds \in Nat
  BY AutoLearnerAssumption DEF TypeOK, Cycles, Carried, Approve
<1> DEFINE new == [cycle.new EXCEPT ![cycle.type] = @ \cup {Name[cycle.org].keyword}]
<1>1. new \in Lists /\ Words(new) = Words(cycle.new) \cup {Name[cycle.org].keyword}
  BY <1>0, AddWord DEF Cycles
<1>2. CASE /\ approved' = approved \cup {cycle.org} /\ cycle' = Learned
           /\ UNCHANGED unwritten
  <2>1. cycle' = [Continue EXCEPT !.added = cycle.added + 1, !.new = new,
                                  !.names = cycle.names \cup {cycle.org}]
    BY <1>0, <1>2, ContinueType DEF Cycles, Learned
  <2> HIDE DEF new
  <2>2. /\ cycle'.new = new /\ cycle'.added = cycle.added + 1 /\ cycle'.pc = "choose"
        /\ cycle'.names = cycle.names \cup {cycle.org}
    BY <1>0, <2>1, ContinueType DEF Cycles
  <2>3. cycle' \in Cycles
    <3>1. cycle.added + 1 \in 0..MaxAdds /\ cycle.names \cup {cycle.org} \in SUBSET Orgs
      BY <1>0 DEF Cycles
    <3> QED BY <1>0, <1>1, <2>1, <3>1, ContinueType DEF Cycles
  <2> QED BY <1>0, <1>1, <1>2, <2>2, <2>3
<1>3. CASE /\ cycle' = Continue
           /\ \/ UNCHANGED <<approved, unwritten>>
              \/ /\ approved' = approved \cup {cycle.org}
                 /\ unwritten' = unwritten \cup {cycle.org}
  BY <1>0, <1>3, ContinueType
<1> QED BY <1>2, <1>3 DEF Approve
-----------------------------------------------------------------------------
(* The steps of a cycle leave its record well-formed *)

LEMMA GotoType ==
    ASSUME cycle \in Cycles,
           NEW pc \in {"idle", "choose", "insert", "approve", "write", "reload"},
           Goto(pc)
    PROVE  /\ cycle' \in Cycles /\ cycle'.pc = pc
           /\ cycle'.org = cycle.org /\ cycle'.type = cycle.type
           /\ cycle'.new = cycle.new /\ cycle'.names = cycle.names
           /\ cycle'.added = cycle.added
BY DEF Goto, Cycles

\* The rank of the candidate decides whether it is approved at once.
LEMMA InsertEffect ==
    ASSUME TypeOK, InsertCandidate
    PROVE  /\ cycle' \in Cycles
           /\ cycle'.new = cycle.new /\ cycle'.names = cycle.names
           /\ cycle'.added = cycle.added
           /\ \/ cycle'.pc = "choose"
              \/ /\ cycle'.pc = "approve" /\ cycle'.org = cycle.org
                 /\ cycle'.type = cycle.type
<1>1. cycle \in Cycles BY DEF TypeOK, Cycles
<1>2. CASE Goto("approve") BY <1>1, <1>2, GotoType
<1>3. CASE cycle' = Continue BY <1>1, <1>3, ContinueType
<1> QED BY <1>2, <1>3 DEF InsertCandidate

LEMMA StartEffect ==
    ASSUME TypeOK, StartCycle
    PROVE  /\ cycle' \in Cycles /\ cycle'.pc = "choose"
           /\ cycle'.new = NoWords /\ cycle'.names = {} /\ cycle'.added = 0
<1> DEFINE todo == {o \in stats : ~ Known(o)}
<1>1. cycle' = [Idle EXCEPT !.pc = "choose", !.todo = todo] /\ todo \in SUBSET Orgs
  BY DEF StartCycle, TypeOK
<1> HIDE DEF todo
<1>2. cycle' \in Cycles BY <1>1, IdleCycle DEF Cycles
<1>3. /\ cycle'.pc = "choose" /\ cycle'.new = NoWords /\ cycle'.names = {}
      /\ cycle'.added = 0
  BY <1>1 DEF Idle
<1> QED BY <1>2, <1>3

LEMMA EndEffect ==
    ASSUME TypeOK, EndChoice
    PROVE  \/ cycle.added = 0 /\ cycle' = Idle
           \/ /\ cycle' \in Cycles /\ cycle'.pc = "write"
              /\ cycle'.new = cycle.new /\ cycle'.names = cycle.names
              /\ cycle'.added = cycle.added
<1>1. cycle \in Cycles BY DEF TypeOK, Cycles
<1>2. CASE cycle' = [cycle EXCEPT !.pc = "write"] BY <1>1, <1>2 DEF Cycles
<1> QED BY <1>2 DEF EndChoice
-----------------------------------------------------------------------------
(* Type correctness *)

LEMMA TypeInit == Init => TypeOK
<1> SUFFICES ASSUME Init PROVE TypeOK OBVIOUS
<1>1. cycle \in Cycles BY IdleCycle DEF Init
<1>2. overlay \in Lists /\ loaded \in Lists BY NoWordsEmpty, BaseLists DEF Init
<1>3. faults \in 0..MaxFaults /\ crashes \in 0..MaxCrashes
  BY AutoLearnerAssumption DEF Init
<1>4. /\ stats \subseteq Orgs /\ candidates \subseteq Orgs /\ approved \subseteq Orgs
      /\ missed \in BOOLEAN /\ unwritten \subseteq Orgs /\ dropped \subseteq Orgs
  BY DEF Init
<1> QED BY <1>1, <1>2, <1>3, <1>4 DEF TypeOK, Cycles

LEMMA FaultType == ASSUME TypeOK, Fault PROVE faults' \in 0..MaxFaults /\ crashes' \in 0..MaxCrashes
BY AutoLearnerAssumption DEF TypeOK, Fault

LEMMA TypeStep == TypeOK /\ Carried /\ [Next]_vars => TypeOK'
<1> SUFFICES ASSUME TypeOK, Carried, [Next]_vars PROVE TypeOK' OBVIOUS
<1> USE DEF Lists
<1>0. cycle \in Cycles BY DEF TypeOK, Cycles
<1>1. CASE StartCycle
  BY <1>1, StartEffect DEF StartCycle, TypeOK, Cycles, bounds, history
<1>2. ASSUME NEW o \in Orgs, ChooseCluster(o) PROVE TypeOK'
  BY <1>2, ChooseEffect DEF ChooseCluster, TypeOK, Cycles, bounds, history
<1>3. CASE InsertCandidate
  <2>1. candidates' \subseteq Orgs
    <3>1. cycle.org \in Orgs BY <1>3 DEF InsertCandidate, Carried
    <3>2. candidates' \in {candidates, candidates \cup {cycle.org}}
      BY <1>3 DEF InsertCandidate
    <3> QED BY <3>1, <3>2 DEF TypeOK
  <2>2. faults' \in 0..MaxFaults /\ crashes' \in 0..MaxCrashes
    BY <1>3, FaultType DEF InsertCandidate, TypeOK, bounds
  <2> QED BY <1>3, <2>1, <2>2, InsertEffect DEF InsertCandidate, TypeOK, Cycles, history
<1>4. CASE Approve
  <2>1. approved' \subseteq Orgs /\ unwritten' \subseteq Orgs
    BY <1>4, ApproveEffect DEF TypeOK
  <2>2. faults' \in 0..MaxFaults /\ crashes' \in 0..MaxCrashes
    BY <1>4, FaultType DEF Approve, TypeOK, bounds
  <2> QED BY <1>4, <2>1, <2>2, ApproveEffect DEF Approve, TypeOK, Cycles
<1>5. CASE EndChoice
  BY <1>5, EndEffect, IdleCycle DEF EndChoice, TypeOK, Cycles, bounds, history
<1>6. CASE WriteOverlay
  <2>1. overlay' \in Lists
    BY <1>0, <1>6, MergeLists DEF WriteOverlay, TypeOK, Cycles
  <2>2. cycle' \in Cycles BY <1>0, <1>6, GotoType, IdleCycle DEF WriteOverlay
  <2>3. faults' \in 0..MaxFaults /\ crashes' \in 0..MaxCrashes
    BY <1>6, FaultType DEF WriteOverlay, TypeOK, bounds
  <2>4. unwritten' \subseteq Orgs /\ dropped' \subseteq Orgs /\ missed' \in BOOLEAN
    BY <1>0, <1>6 DEF WriteOverlay, TypeOK, Cycles
  <2>5. /\ stats' \subseteq Orgs /\ candidates' \subseteq Orgs /\ approved' \subseteq Orgs
        /\ loaded' \in Lists
    BY <1>6 DEF WriteOverlay, TypeOK
  <2> QED BY <2>1, <2>2, <2>3, <2>4, <2>5 DEF TypeOK, Cycles
<1>a. ASSUME Load PROVE loaded' \in Lists /\ missed' \in BOOLEAN /\ faults' \in 0..MaxFaults
  <2>1. MaxFaults \in Nat /\ faults \in 0..MaxFaults /\ overlay \in Lists
    BY AutoLearnerAssumption DEF TypeOK
  <2>2. Base \in Lists /\ Merge(Base, overlay) \in Lists BY <2>1, BaseLists, MergeLists
  <2>3. loaded' \in {Base, Merge(Base, overlay)} /\ missed' \in BOOLEAN BY <1>a DEF Load
  <2>4. faults' \in 0..MaxFaults BY <1>a, <2>1 DEF Load
  <2> QED BY <2>2, <2>3, <2>4
<1>7. CASE Reload
  <2>1. loaded' \in Lists /\ missed' \in BOOLEAN /\ faults' \in 0..MaxFaults
        /\ crashes' \in 0..MaxCrashes
    BY <1>7, <1>a, FaultType DEF Reload, TypeOK
  <2> QED BY <1>7, <2>1, IdleCycle DEF Reload, TypeOK, Cycles
<1>8. ASSUME NEW o \in Orgs, Sighted(o) PROVE TypeOK'
  BY <1>8 DEF Sighted, TypeOK, bounds, history
<1>9. CASE Restart
  <2>1. loaded' \in Lists /\ missed' \in BOOLEAN /\ faults' \in 0..MaxFaults
    BY <1>9, <1>a DEF Restart
  <2>2. crashes' \in 0..MaxCrashes BY <1>9, AutoLearnerAssumption DEF Restart, TypeOK
  <2>3. unwritten' \subseteq Orgs BY <1>0, <1>9 DEF Restart, TypeOK, Cycles
  <2>4. stats' \subseteq Orgs BY <1>9 DEF Restart, Cleanup, TypeOK
  <2> QED BY <1>9, <2>1, <2>2, <2>3, <2>4, IdleCycle DEF Restart, TypeOK, Cycles
<1>10. CASE UNCHANGED vars BY <1>10 DEF vars, bounds, TypeOK
<1> QED BY <1>1, <1>2, <1>3, <1>4, <1>5, <1>6, <1>7, <1>8, <1>9, <1>10 DEF Next, CycleStep
-----------------------------------------------------------------------------
(* What each step does to the stores, for the invariants below *)

\* A failed write loses the words of the cycle; a file that cannot be read loses
\* those it held; else the overlay only grows.
LEMMA WriteEffect ==
    ASSUME TypeOK, WriteOverlay
    PROVE  /\ cycle.pc = "write" /\ UNCHANGED <<approved, loaded>>
           /\ \/ /\ overlay' = Merge(overlay, cycle.new)
                 /\ UNCHANGED missed
                 /\ unwritten' = unwritten \ cycle.names /\ dropped' = dropped \ cycle.names
                 /\ cycle'.pc = "reload" /\ cycle'.new = cycle.new
                 /\ cycle'.names = cycle.names /\ cycle'.added = cycle.added
              \/ /\ overlay' = cycle.new /\ missed' = TRUE
                 /\ unwritten' = unwritten \ cycle.names
                 /\ dropped' = (dropped \ cycle.names) \cup
                        {o \in approved :
                            Name[o].keyword \in Words(overlay) \ Words(cycle.new)}
                 /\ cycle'.pc = "reload" /\ cycle'.new = cycle.new
                 /\ cycle'.names = cycle.names /\ cycle'.added = cycle.added
              \/ /\ UNCHANGED <<overlay, missed, dropped>>
                 /\ unwritten' = unwritten \cup cycle.names
                 /\ cycle' = Idle
<1>1. cycle \in Cycles BY DEF TypeOK, Cycles
<1> QED BY <1>1, GotoType DEF WriteOverlay

LEMMA IdleFields ==
    /\ Idle.pc = "idle" /\ Idle.new = NoWords /\ Idle.names = {} /\ Idle.added = 0
BY DEF Idle
-----------------------------------------------------------------------------
(* Where the words come from *)

LEMMA SourcedInit == Init => Sourced
BY NoWordsEmpty, IdleFields DEF Init, Sourced

LEMMA SourcedStep == TypeOK /\ Carried /\ Sourced /\ [Next]_vars => Sourced'
<1> SUFFICES ASSUME TypeOK, Carried, Sourced, [Next]_vars PROVE Sourced' OBVIOUS
<1> USE DEF Approvals
<1>0. cycle \in Cycles /\ overlay \in Lists BY DEF TypeOK, Cycles
<1>a. ASSUME UNCHANGED <<approved, loaded, overlay>>,
             cycle'.new = cycle.new \/ cycle'.new = NoWords
      PROVE  Sourced'
  BY <1>a, NoWordsEmpty DEF Sourced, Words
<1>1. CASE StartCycle BY <1>1, <1>a, StartEffect DEF StartCycle
<1>2. ASSUME NEW o \in Orgs, ChooseCluster(o) PROVE Sourced'
  BY <1>2, <1>a, ChooseEffect DEF ChooseCluster
<1>3. CASE InsertCandidate BY <1>3, <1>a, InsertEffect DEF InsertCandidate
<1>4. CASE Approve
  <2>1. UNCHANGED <<loaded, overlay>> BY <1>4 DEF Approve
  <2>2. CASE approved \subseteq approved' /\ cycle'.new = cycle.new
    <3>1. Approvals \subseteq Approvals' BY <2>2
    <3> HIDE DEF Approvals
    <3> QED BY <2>1, <2>2, <3>1 DEF Sourced, Words
  <2>3. CASE /\ approved' = approved \cup {cycle.org}
             /\ Words(cycle'.new) = Words(cycle.new) \cup {Name[cycle.org].keyword}
    <3>1. Approvals' = Approvals \cup {Name[cycle.org].keyword} BY <2>3
    <3>2. Words(loaded)' = Words(loaded) /\ Words(overlay)' = Words(overlay)
          /\ Words(cycle.new)' = Words(cycle.new) \cup {Name[cycle.org].keyword}
      BY <2>1, <2>3 DEF Words
    <3> HIDE DEF Approvals
    <3> QED BY <3>1, <3>2 DEF Sourced
  <2> QED BY <1>4, <2>2, <2>3, ApproveEffect
<1>5. CASE EndChoice BY <1>5, <1>a, EndEffect, IdleFields DEF EndChoice
<1>6. CASE WriteOverlay
  <2>1. Words(overlay') \subseteq Words(overlay) \cup Words(cycle.new)
    BY <1>0, <1>6, WriteEffect, MergeLists, ZenonT(30) DEF Cycles
  <2>2. Words(cycle'.new) \subseteq Words(cycle.new)
    BY <1>6, WriteEffect, NoWordsEmpty, IdleFields
  <2>3. UNCHANGED <<approved, loaded>> BY <1>6, WriteEffect
  <2> QED BY <2>1, <2>2, <2>3 DEF Sourced, Words
<1>7. CASE Reload
  <2>1. Words(loaded') \subseteq Words(loaded) \cup Words(Base) \cup Words(overlay)
    BY <1>0, <1>7, BaseLists, MergeLists DEF Reload, Load
  <2>2. Words(cycle'.new) = {} /\ UNCHANGED <<approved, overlay>>
    BY <1>7, NoWordsEmpty, IdleFields DEF Reload
  <2> QED BY <2>1, <2>2 DEF Sourced, Words
<1>8. ASSUME NEW o \in Orgs, Sighted(o) PROVE Sourced'
  BY <1>8, <1>a DEF Sighted
<1>9. CASE Restart
  <2>1. Words(loaded') \subseteq Words(Base) \cup Words(overlay)
    BY <1>0, <1>9, BaseLists, MergeLists DEF Restart, Load
  <2>2. Words(cycle'.new) = {} /\ UNCHANGED <<approved, overlay>>
    BY <1>9, NoWordsEmpty, IdleFields DEF Restart
  <2> QED BY <2>1, <2>2 DEF Sourced, Words
<1>10. CASE UNCHANGED vars BY <1>10, <1>a DEF vars
<1> QED BY <1>1, <1>2, <1>3, <1>4, <1>5, <1>6, <1>7, <1>8, <1>9, <1>10 DEF Next, CycleStep
-----------------------------------------------------------------------------
(* What a running cycle holds *)

LEMMA CarriedInit == Init => Carried
BY IdleFields DEF Init, Carried

LEMMA CarriedStep == TypeOK /\ Carried /\ [Next]_vars => Carried'
<1> SUFFICES ASSUME TypeOK, Carried, [Next]_vars PROVE Carried' OBVIOUS
<1>0. cycle \in Cycles /\ overlay \in Lists /\ MaxAdds \in Nat
  BY AutoLearnerAssumption DEF TypeOK, Cycles
<1>a. ASSUME cycle' = Idle PROVE Carried' BY <1>a, IdleFields DEF Carried
<1>b. ASSUME cycle'.pc \in {"choose", "write"}, cycle.pc # "reload",
             cycle'.new = cycle.new, cycle'.names = cycle.names,
             cycle'.added = cycle.added
      PROVE  Carried'
  BY <1>b DEF Carried, Words
<1>1. CASE StartCycle BY <1>1, StartEffect DEF Carried
<1>2. ASSUME NEW o \in Orgs, ChooseCluster(o) PROVE Carried'
  <2>1. cycle.pc = "choose" BY <1>2 DEF ChooseCluster
  <2>2. CASE cycle'.pc = "choose" BY <1>2, <1>b, <2>1, <2>2, ChooseEffect
  <2>3. CASE /\ cycle'.pc = "insert" /\ cycle'.org = o /\ cycle'.type \in TypeNames
             /\ Name[o].keyword \in Keywords
    BY <1>2, <2>1, <2>3, ChooseEffect DEF Carried, Words
  <2> QED BY <1>2, <2>2, <2>3, ChooseEffect
<1>3. CASE InsertCandidate
  <2>1. cycle.pc = "insert" BY <1>3 DEF InsertCandidate
  <2>2. CASE cycle'.pc = "choose" BY <1>3, <1>b, <2>1, <2>2, InsertEffect
  <2>3. CASE cycle'.pc = "approve" /\ cycle'.org = cycle.org /\ cycle'.type = cycle.type
    BY <1>3, <2>1, <2>3, InsertEffect DEF Carried, Words
  <2> QED BY <1>3, <2>2, <2>3, InsertEffect
<1>4. CASE Approve
  <2>1. cycle.pc = "approve" /\ cycle'.pc = "choose" BY <1>4, ApproveEffect DEF Approve
  <2>2. CASE /\ cycle'.added = cycle.added + 1
             /\ cycle'.names = cycle.names \cup {cycle.org}
             /\ Words(cycle'.new) = Words(cycle.new) \cup {Name[cycle.org].keyword}
    <3>1. cycle'.added # 0 BY <1>0, <2>2 DEF Cycles
    <3>2. \A o \in cycle'.names : Name[o].keyword \in Words(cycle'.new)
      BY <2>1, <2>2 DEF Carried
    <3>3. Words(cycle'.new) = Words(cycle.new)' BY DEF Words
    <3> QED BY <2>1, <3>1, <3>2, <3>3 DEF Carried
  <2>3. CASE cycle'.added = cycle.added /\ cycle'.names = cycle.names /\ cycle'.new = cycle.new
    BY <1>b, <2>1, <2>3
  <2> QED BY <1>4, <2>2, <2>3, ApproveEffect
<1>5. CASE EndChoice
  <2>1. cycle.pc = "choose" BY <1>5 DEF EndChoice
  <2> QED BY <1>5, <1>a, <1>b, <2>1, EndEffect
<1>6. CASE WriteOverlay
  <2>1. CASE cycle' = Idle BY <1>a, <2>1
  <2>2. CASE /\ Words(cycle.new) \subseteq Words(overlay')
             /\ cycle'.pc = "reload"
             /\ cycle'.names = cycle.names /\ cycle'.added = cycle.added
    <3>1. cycle.pc = "write" BY <1>6 DEF WriteOverlay
    <3>2. \A o \in cycle'.names : Name[o].keyword \in Words(overlay')
      BY <2>2, <3>1 DEF Carried
    <3> QED BY <2>2, <3>1, <3>2 DEF Carried, Words
  <2>3. Words(Merge(overlay, cycle.new)) = Words(overlay) \cup Words(cycle.new)
    BY <1>0, MergeLists DEF Cycles
  <2>4. \/ overlay' \in {Merge(overlay, cycle.new), cycle.new}
        \/ cycle' = Idle
    BY <1>6, WriteEffect
  <2>5. cycle' = Idle \/ Words(cycle.new) \subseteq Words(overlay') BY <2>3, <2>4
  <2> QED BY <1>6, <2>1, <2>2, <2>5, WriteEffect
<1>7. CASE Reload BY <1>7, <1>a DEF Reload
<1>8. ASSUME NEW o \in Orgs, Sighted(o) PROVE Carried'
  BY <1>8 DEF Sighted, Carried, Words
<1>9. CASE Restart BY <1>9, <1>a DEF Restart
<1>10. CASE UNCHANGED vars BY <1>10 DEF vars, Carried, Words
<1> QED BY <1>1, <1>2, <1>3, <1>4, <1>5, <1>6, <1>7, <1>8, <1>9, <1>10 DEF Next, CycleStep
-----------------------------------------------------------------------------
(* No approved word is lost *)

LEMMA KeptStep ==
    TypeOK /\ Carried /\ ApprovedIsKept /\ [Next]_vars => ApprovedIsKept'
<1> SUFFICES ASSUME TypeOK, Carried, ApprovedIsKept, [Next]_vars,
                    NEW o \in approved'
             PROVE  \/ Name[o].keyword \in Words(overlay')
                    \/ o \in cycle'.names
                    \/ o \in unwritten'
                    \/ o \in dropped'
  BY DEF ApprovedIsKept, Words
<1> DEFINE Kept == \/ Name[o].keyword \in Words(overlay')
                   \/ o \in cycle'.names
                   \/ o \in unwritten'
                   \/ o \in dropped'
<1>0. cycle \in Cycles /\ overlay \in Lists BY DEF TypeOK, Cycles
<1>a. ASSUME o \in approved
      PROVE  \/ Name[o].keyword \in Words(overlay) \/ o \in cycle.names
             \/ o \in unwritten \/ o \in dropped
  BY <1>a DEF ApprovedIsKept
<1>b. ASSUME o \in approved, cycle.names \subseteq cycle'.names,
             unwritten \subseteq unwritten', UNCHANGED <<overlay, dropped>>
      PROVE  Kept
  BY <1>a, <1>b
<1>1. CASE StartCycle
  <2>1. cycle.names = {} BY <1>1, IdleFields DEF StartCycle, Carried
  <2> QED BY <1>1, <1>b, <2>1 DEF StartCycle, history
<1>2. ASSUME NEW p \in Orgs, ChooseCluster(p) PROVE Kept
  BY <1>2, <1>b, ChooseEffect DEF ChooseCluster, history
<1>3. CASE InsertCandidate BY <1>3, <1>b, InsertEffect DEF InsertCandidate, history
<1>4. CASE Approve
  <2>1. UNCHANGED <<overlay, dropped>> BY <1>4 DEF Approve
  <2>2. CASE o \in approved BY <1>4, <1>b, <2>1, <2>2, ApproveEffect
  <2>3. CASE o \notin approved BY <1>4, <2>3, ApproveEffect
  <2> QED BY <2>2, <2>3
<1>5. CASE EndChoice
  <2>1. cycle.added = 0 => cycle.names = {} BY DEF Carried
  <2> QED BY <1>5, <1>b, <2>1, EndEffect DEF EndChoice, history
<1>6. CASE WriteOverlay
  <2>1. o \in approved /\ cycle.pc = "write" BY <1>6, WriteEffect
  <2>2. o \in cycle.names => Name[o].keyword \in Words(cycle.new)
    BY <2>1 DEF Carried
  <2>3. CASE /\ overlay' = Merge(overlay, cycle.new) /\ cycle'.names = cycle.names
             /\ unwritten' = unwritten \ cycle.names /\ dropped' = dropped \ cycle.names
    <3>1. Words(overlay') = Words(overlay) \cup Words(cycle.new)
      BY <1>0, <2>3, MergeLists DEF Cycles
    <3> QED BY <1>a, <2>1, <2>2, <2>3, <3>1
  <2>4. CASE /\ overlay' = cycle.new /\ cycle'.names = cycle.names
             /\ unwritten' = unwritten \ cycle.names
             /\ dropped' = (dropped \ cycle.names) \cup
                    {p \in approved : Name[p].keyword \in Words(overlay) \ Words(cycle.new)}
    <3>1. Words(overlay') = Words(cycle.new) BY <2>4
    <3> QED BY <1>a, <2>1, <2>2, <2>4, <3>1
  <2>5. CASE UNCHANGED <<overlay, dropped>> /\ unwritten' = unwritten \cup cycle.names
    BY <1>a, <2>1, <2>5
  <2> QED BY <1>6, <2>3, <2>4, <2>5, WriteEffect
<1>7. CASE Reload
  <2>1. o \in cycle.names => Name[o].keyword \in Words(overlay)
    BY <1>7 DEF Reload, Carried
  <2>2. o \in approved /\ UNCHANGED <<overlay, unwritten, dropped>>
    BY <1>7 DEF Reload
  <2> QED BY <1>a, <2>1, <2>2
<1>8. ASSUME NEW p \in Orgs, Sighted(p) PROVE Kept
  BY <1>8, <1>b DEF Sighted, history
<1>9. CASE Restart
  <2>1. cycle.pc = "reload" /\ o \in cycle.names => Name[o].keyword \in Words(overlay)
    BY DEF Carried
  <2>2. /\ o \in approved /\ UNCHANGED <<overlay, dropped>>
        /\ unwritten' = IF cycle.pc = "reload" THEN unwritten
                        ELSE unwritten \cup cycle.names
    BY <1>9 DEF Restart
  <2> QED BY <1>a, <2>1, <2>2
<1>10. CASE UNCHANGED vars BY <1>10, <1>b DEF vars
<1> QED BY <1>1, <1>2, <1>3, <1>4, <1>5, <1>6, <1>7, <1>8, <1>9, <1>10 DEF Next, CycleStep
-----------------------------------------------------------------------------
(* A loaded config never knows more than the files *)

LEMMA LoadedFitsStep == TypeOK /\ LoadedFits /\ [Next]_vars => LoadedFits'
<1> SUFFICES ASSUME TypeOK, LoadedFits, [Next]_vars PROVE LoadedFits' OBVIOUS
<1>0. cycle \in Cycles /\ overlay \in Lists BY DEF TypeOK, Cycles
<1>1. CASE UNCHANGED <<loaded, overlay, missed>> BY <1>1 DEF LoadedFits
<1>2. CASE WriteOverlay
  <2>1. CASE missed' = TRUE BY <2>1 DEF LoadedFits
  <2>2. CASE overlay' = Merge(overlay, cycle.new) /\ UNCHANGED <<loaded, missed>>
    <3>1. \A t \in TypeNames : overlay[t] \subseteq overlay'[t]
      BY <1>0, <2>2, MergeLists DEF Cycles
    <3> QED BY <2>2, <3>1 DEF LoadedFits
  <2> QED BY <1>1, <1>2, <2>1, <2>2, WriteEffect
<1>3. CASE Load /\ UNCHANGED overlay
  <2>1. CASE missed' = TRUE BY <2>1 DEF LoadedFits
  <2>2. CASE loaded' = Merge(Base, overlay) /\ UNCHANGED overlay
    BY <1>0, <2>2, BaseLists, MergeLists DEF LoadedFits
  <2> QED BY <1>3, <2>1, <2>2 DEF Load
<1>4. CASE Reload BY <1>1, <1>3, <1>4 DEF Reload
<1>5. CASE Restart BY <1>3, <1>5 DEF Restart
<1>6. StartCycle \/ InsertCandidate \/ Approve \/ EndChoice \/ UNCHANGED vars
        => UNCHANGED <<loaded, overlay, missed>>
  BY DEF StartCycle, InsertCandidate, Approve, EndChoice, vars, history
<1>7. \A o \in Orgs : ChooseCluster(o) \/ Sighted(o)
        => UNCHANGED <<loaded, overlay, missed>>
  BY DEF ChooseCluster, Sighted, history
<1> QED BY <1>1, <1>2, <1>4, <1>5, <1>6, <1>7 DEF Next, CycleStep
-----------------------------------------------------------------------------
(* The class of a name only moves up *)

LEMMA ClassesStep ==
    TypeOK /\ TypeOK' /\ LoadedFits /\ [Next]_vars
        => \A o \in Orgs : Place(loaded', o) <= Place(loaded, o) \/ missed \/ missed'
<1> SUFFICES ASSUME TypeOK, TypeOK', LoadedFits, [Next]_vars, ~ missed, ~ missed',
                    NEW o \in Orgs
             PROVE  Place(loaded', o) <= Place(loaded, o)
  OBVIOUS
<1>0. loaded \in Lists /\ loaded' \in Lists /\ overlay \in Lists BY DEF TypeOK
<1>1. CASE UNCHANGED loaded BY <1>0, <1>1, PlaceMonotone
<1>2. CASE Load
  <2>1. loaded' = Merge(Base, overlay) BY <1>2 DEF Load
  <2>2. \A t \in TypeNames : loaded[t] \subseteq loaded'[t]
    BY <1>0, <2>1, BaseLists, MergeLists DEF LoadedFits
  <2> QED BY <1>0, <2>2, PlaceMonotone
<1>3. CASE Reload BY <1>1, <1>2, <1>3 DEF Reload
<1>4. CASE Restart BY <1>2, <1>4 DEF Restart
<1>5. StartCycle \/ InsertCandidate \/ Approve \/ EndChoice \/ WriteOverlay
        \/ UNCHANGED vars => UNCHANGED loaded
  BY DEF StartCycle, InsertCandidate, Approve, EndChoice, WriteOverlay, vars
<1>6. \A p \in Orgs : ChooseCluster(p) \/ Sighted(p) => UNCHANGED loaded
  BY DEF ChooseCluster, Sighted
<1> QED BY <1>1, <1>3, <1>4, <1>5, <1>6 DEF Next, CycleStep
-----------------------------------------------------------------------------
(* The theorems *)

\* The inductive invariant holds in every behaviour of the learning cycle.
THEOREM Invariance == Spec => []IInv
<1>1. Init => IInv
  <2>1. Init => ApprovedIsKept BY DEF Init, ApprovedIsKept
  <2>2. Init => LoadedFits BY DEF Init, LoadedFits
  <2> QED BY TypeInit, SourcedInit, CarriedInit, <2>1, <2>2 DEF IInv
<1>2. IInv /\ [Next]_vars => IInv'
  BY TypeStep, SourcedStep, CarriedStep, KeptStep, LoadedFitsStep DEF IInv
<1> QED BY <1>1, <1>2, PTL DEF Spec

\* Every variable keeps its type, whichever calls fail and whenever the process
\* restarts (autolearner.go:564).
THEOREM TypeCorrect == Spec => []TypeOK
<1>1. IInv => TypeOK BY DEF IInv
<1> QED BY <1>1, Invariance, PTL

\* The classifier and the overlay file hold no word beyond providers.yaml but
\* those of approved candidates (autolearner.go:678).
THEOREM LearnedApproved == Spec => []LearnedWasApproved
<1>1. IInv => LearnedWasApproved
  BY MergeLists DEF IInv, TypeOK, Sourced, Approvals, LearnedWasApproved
<1> QED BY <1>1, Invariance, PTL

\* An approved candidate's word is missing from the overlay only if the call that
\* stored its approval failed, the write after it failed, a restart came before the
\* write, or a write that could not read the file removed that very word
\* (autolearner.go:564).
THEOREM ApprovedKept == Spec => []ApprovedIsKept
<1>1. IInv => ApprovedIsKept BY DEF IInv
<1> QED BY <1>1, Invariance, PTL

\* Learning, reloads and restarts never take a recognised name to a lower place
\* in the order of priorities but in the load that fails to read the
\* overlay or the one after a failed read of it (loader.go:129).
THEOREM ClassesUp == Spec => ClassesMoveUp
<1>1. IInv /\ IInv' /\ [Next]_vars
        => [\A o \in Orgs : Place(loaded, o)' <= Place(loaded, o) \/ missed \/ missed']_vars
  <2>1. \A o \in Orgs : Place(loaded, o)' = Place(loaded', o) BY DEF Place
  <2> QED BY <2>1, ClassesStep DEF IInv
<1> QED BY <1>1, Invariance, PTL DEF Spec, ClassesMoveUp
=============================================================================
