----------------------------- MODULE AutoLearner -----------------------------
(***************************************************************************)
(* The learning cycle over PostgreSQL statistics: organisations the        *)
(* classifier does not know are clustered, classified, stored as           *)
(* candidates, approved, written to the overlay file and loaded.           *)
(*                                                                         *)
(* The cycle is one goroutine, but it crosses four stores that fail apart: *)
(* the statistics, the candidate table, the file and the loaded config,    *)
(* which the classifier reads at any time.  A name is what the matching    *)
(* code tells apart in it; keyword lists are sets.                         *)
(***************************************************************************)
EXTENDS Naturals, FiniteSets

CONSTANTS
    Orgs,           \* organisation names of user_connections
    Keywords,       \* words of keyword lists
    Name,           \* what matching sees in a name, see Names
    Similar,        \* Similar[o]: names whose Jaccard similarity to o is 0.7 or more
    Types,          \* classificationPriorityOrder
    Base,           \* Base[t]: keywords of providers.yaml
    MinConfidence,  \* rank of AUTO_LEARNING_MIN_CONFIDENCE
    MaxAdds,        \* maxAddsPerRun
    MaxFaults,      \* bound: failed calls
    MaxCrashes      \* bound: restarts

None == "none"

TypeNames == {Types[n] : n \in DOMAIN Types}

\* matches: keywords whose tokens are all tokens of the name; within: keywords
\* that occur in it as text; hint: type of a heuristic word; keyword: what
\* extractKeyword makes of it; seen: 0 below 100 connections, 1 below 1000, else
\* 2; caida: whether CAIDA knows the ASN, and what is within its name.
Names == [matches : SUBSET Keywords, within : SUBSET Keywords,
          hint : TypeNames \cup {None}, keyword : Keywords \cup {None}, seen : 0..2,
          caida : BOOLEAN, caidaWithin : SUBSET Keywords,
          caidaHint : TypeNames \cup {None}]

ASSUME AutoLearnerAssumption ==
    /\ IsFiniteSet(TypeNames) /\ DOMAIN Types = 1..Cardinality(TypeNames)
    /\ {"isp", "hosting"} \subseteq TypeNames
    /\ None \notin Keywords \cup TypeNames
    /\ None \notin Orgs
    /\ Name \in [Orgs -> Names]
    /\ Similar \in [Orgs -> SUBSET Orgs]
    /\ Base \in [TypeNames -> SUBSET Keywords]
    /\ MinConfidence \in 1..3
    /\ MaxAdds \in Nat \ {0}
    /\ MaxFaults \in Nat
    /\ MaxCrashes \in Nat

VARIABLES
    stats,      \* names with enough distinct users
    candidates, \* names with a row in learning_candidates
    approved,   \* those with an approved row
    overlay,    \* keywords of the overlay file, by type
    loaded,     \* GeoDataLoader.providers, by type
    cycle,      \* position and locals of the learning cycle
    faults, crashes,
    missed,     \* history: a read of the overlay failed, and no load succeeded since
    unwritten,  \* history: names whose approval was stored but whose word no write
                \* of the overlay followed
    dropped     \* history: names whose word a write removed, unable to read the file

vars == <<stats, candidates, approved, overlay, loaded, cycle, faults, crashes,
          missed, unwritten, dropped>>
history == <<missed, unwritten, dropped>>
bounds == <<faults, crashes>>
-----------------------------------------------------------------------------
Lists == [TypeNames -> SUBSET Keywords]
NoWords == [t \in TypeNames |-> {}]
Merge(a, b) == [t \in TypeNames |-> a[t] \cup b[t]]
Words(lists) == UNION {lists[t] : t \in TypeNames}

Idle == [pc |-> "idle", todo |-> {}, org |-> None, type |-> None, rank |-> 0,
         new |-> NoWords, names |-> {}, added |-> 0]

TypeOK ==
    /\ stats \subseteq Orgs /\ candidates \subseteq Orgs /\ approved \subseteq Orgs
    /\ overlay \in Lists /\ loaded \in Lists
    /\ cycle \in [pc : {"idle", "choose", "insert", "approve", "write", "reload"},
                  todo : SUBSET Orgs, org : Orgs \cup {None},
                  type : TypeNames \cup {None}, rank : 0..3, new : Lists,
                  names : SUBSET Orgs, added : 0..MaxAdds]
    /\ faults \in 0..MaxFaults
    /\ crashes \in 0..MaxCrashes
    /\ missed \in BOOLEAN
    /\ unwritten \subseteq Orgs /\ dropped \subseteq Orgs

\* The service starts with the statistics and the files of earlier days.
Init ==
    /\ stats \in SUBSET Orgs
    /\ candidates = {} /\ approved = {}
    /\ overlay = NoWords
    /\ loaded = Base
    /\ cycle = Idle
    /\ faults = 0 /\ crashes = 0
    /\ missed = FALSE
    /\ unwritten = {} /\ dropped = {}
-----------------------------------------------------------------------------
(* Classification *)

\* GetProviderTypeWithCountry: the place of the first type a keyword matches;
\* past the end, the name is unknown.
Place(lists, o) ==
    LET matching == {n \in DOMAIN Types : lists[Types[n]] \cap Name[o].matches # {}} IN
    IF matching = {} THEN Cardinality(TypeNames) + 1
    ELSE CHOOSE n \in matching : \A k \in matching : n <= k

\* A heuristic word makes a name known too.
Known(o) == Place(loaded, o) <= Cardinality(TypeNames) \/ Name[o].hint # None

\* suggestProviderType over text: a word of vpn_proxy or hosting decides at once
\* and with rank 3; else the type with most words, any of them on a tie.
Verdict(type, rank) == [type |-> type, rank |-> rank]

Suggestions(within, hint) ==
    LET hits(t) == loaded[t] \cap within
        Skipped == {"education", "cdn", "satellite"}
        strong == {t \in TypeNames \cap {"vpn_proxy", "hosting"} : hits(t) # {}}
        weak == {t \in TypeNames \ Skipped : hits(t) # {}}
        most == {t \in weak : \A s \in weak : Cardinality(hits(s)) <= Cardinality(hits(t))}
    IN CASE strong # {} -> {Verdict(IF "vpn_proxy" \in strong THEN "vpn_proxy" ELSE "hosting", 3)}
         [] strong = {} /\ weak # {} -> {Verdict(t, 2) : t \in most}
         [] weak = {} /\ hint # None -> {Verdict(hint, 1)}
         [] OTHER -> {Verdict("isp", 0)}

\* classifyProvider: the name CAIDA has, where it says more.
Classified(o) ==
    LET own == Suggestions(Name[o].within, Name[o].hint)
        caida == Suggestions(Name[o].caidaWithin, Name[o].caidaHint)
        better(a, b) == IF Name[o].caida /\ b.rank > a.rank THEN b ELSE a
    IN {better(a, b) : a \in own, b \in caida}

\* boostConfidenceByCount
Boosted(rank, seen) ==
    CASE seen = 2 -> 3
      [] seen = 1 /\ rank < 2 -> 2
      [] OTHER -> rank

\* What is skipped: default evidence without CAIDA, low confidence, no keyword
\* or one that exists in any list.
Worth(o, verdict) ==
    /\ verdict.rank > 0 \/ Name[o].caida
    /\ Boosted(verdict.rank, Name[o].seen) >= MinConfidence
    /\ Name[o].keyword # None
    /\ Name[o].keyword \notin Words(loaded)
-----------------------------------------------------------------------------
(* performPostgresLearningCycle *)

Fault ==
    /\ faults < MaxFaults
    /\ faults' = faults + 1
    /\ UNCHANGED crashes

Goto(pc) == cycle' = [cycle EXCEPT !.pc = pc]

\* The rows of GetASNOrgStats that classify as unknown; an error ends the cycle.
StartCycle ==
    /\ cycle.pc = "idle"
    /\ \E o \in stats : ~ Known(o)
    /\ cycle' = [Idle EXCEPT !.pc = "choose", !.todo = {o \in stats : ~ Known(o)}]
    /\ UNCHANGED <<stats, candidates, approved, overlay, loaded, bounds, history>>

\* Mutant of MayAdd: the check counts one name too few.
MayAddLate == cycle.added <= MaxAdds

MayAdd == cycle.added < MaxAdds

\* groupSimilarOrgs and one turn of the loop: the first name left, in whatever
\* order the query returned them, stands for all names similar to it.
ChooseCluster(o) ==
    /\ cycle.pc = "choose" /\ MayAdd
    /\ o \in cycle.todo
    /\ LET rest == cycle.todo \ ({o} \cup Similar[o]) IN
       \E v \in Classified(o) :
           \/ /\ ~ Worth(o, v)
              /\ cycle' = [cycle EXCEPT !.todo = rest]
           \/ /\ Worth(o, v)
              /\ cycle' = [cycle EXCEPT !.pc = "insert", !.todo = rest, !.org = o,
                     !.type = v.type, !.rank = Boosted(v.rank, Name[o].seen)]
    /\ UNCHANGED <<stats, candidates, approved, overlay, loaded, bounds, history>>

\* The next turn of the loop.
Continue == [cycle EXCEPT !.pc = "choose", !.org = None, !.type = None, !.rank = 0]

\* Only high confidence, 0.9, reaches the auto-approve threshold of 0.8.  A call
\* that fails may have stored its row.
InsertCandidate ==
    /\ cycle.pc = "insert"
    /\ \/ /\ candidates' = candidates \cup {cycle.org}
          /\ IF cycle.rank = 3 THEN Goto("approve") ELSE cycle' = Continue
          /\ UNCHANGED bounds
       \/ /\ Fault
          /\ candidates' \in {candidates, candidates \cup {cycle.org}}
          /\ cycle' = Continue
    /\ UNCHANGED <<stats, approved, overlay, loaded, history>>

Learned == [Continue EXCEPT !.added = @ + 1,
                !.new[cycle.type] = @ \cup {Name[cycle.org].keyword},
                !.names = @ \cup {cycle.org}]

\* Mutant of Approve: a failed update still learns the keyword.
ApproveAnyway ==
    /\ cycle.pc = "approve"
    /\ \/ approved' = approved \cup {cycle.org} /\ UNCHANGED bounds
       \/ Fault /\ UNCHANGED approved
    /\ cycle' = Learned
    /\ UNCHANGED <<stats, candidates, overlay, loaded, history>>

\* An update that fails teaches no word, and may have been stored all the same.
Approve ==
    /\ cycle.pc = "approve"
    /\ \/ /\ approved' = approved \cup {cycle.org}
          /\ cycle' = Learned
          /\ UNCHANGED <<bounds, unwritten>>
       \/ /\ Fault
          /\ cycle' = Continue
          /\ UNCHANGED <<approved, unwritten>>
       \/ /\ Fault
          /\ cycle' = Continue
          /\ approved' = approved \cup {cycle.org}
          /\ unwritten' = unwritten \cup {cycle.org}
    /\ UNCHANGED <<stats, candidates, overlay, loaded, missed, dropped>>

\* Mutant of EndChoice: a full cycle ends without writing.
EndChoiceFull ==
    /\ cycle.pc = "choose"
    /\ cycle.todo = {} \/ ~ MayAdd
    /\ cycle' = IF cycle.added \in {0, MaxAdds} THEN Idle ELSE [cycle EXCEPT !.pc = "write"]
    /\ UNCHANGED <<stats, candidates, approved, overlay, loaded, bounds, history>>

EndChoice ==
    /\ cycle.pc = "choose"
    /\ cycle.todo = {} \/ ~ MayAdd
    /\ cycle' = IF cycle.added = 0 THEN Idle ELSE [cycle EXCEPT !.pc = "write"]
    /\ UNCHANGED <<stats, candidates, approved, overlay, loaded, bounds, history>>

\* Mutant of WriteOverlay: the overlay is replaced.
WriteOverlayReplace ==
    /\ cycle.pc = "write"
    /\ overlay' = cycle.new
    /\ Goto("reload")
    /\ UNCHANGED <<stats, candidates, approved, loaded, bounds, history>>

\* writeOverlay: the new words join those of the file, which the rename replaces
\* at once; a file that cannot be read or parsed counts as empty, so that the
\* rename removes its words.
WriteOverlay ==
    /\ cycle.pc = "write"
    /\ \/ /\ overlay' = Merge(overlay, cycle.new)
          /\ unwritten' = unwritten \ cycle.names
          /\ dropped' = dropped \ cycle.names
          /\ Goto("reload")
          /\ UNCHANGED <<bounds, missed>>
       \/ /\ Fault
          /\ overlay' = cycle.new
          /\ unwritten' = unwritten \ cycle.names
          /\ dropped' = (dropped \ cycle.names) \cup
                 {o \in approved : Name[o].keyword \in Words(overlay) \ Words(cycle.new)}
          /\ missed' = TRUE
          /\ Goto("reload")
       \/ /\ Fault
          /\ unwritten' = unwritten \cup cycle.names
          /\ cycle' = Idle
          /\ UNCHANGED <<overlay, missed, dropped>>
    /\ UNCHANGED <<stats, candidates, approved, loaded>>

\* loadProvidersWithOverlay: base and overlay, or only the base when the overlay
\* cannot be read or parsed, which is no error.
Load ==
    \/ /\ loaded' = Merge(Base, overlay)
       /\ missed' = FALSE
       /\ UNCHANGED faults
    \/ /\ faults < MaxFaults
       /\ faults' = faults + 1
       /\ loaded' = Base
       /\ missed' = TRUE

\* ReloadProviders: without a readable base nothing changes.
Reload ==
    /\ cycle.pc = "reload"
    /\ cycle' = Idle
    /\ \/ Load /\ UNCHANGED crashes
       \/ Fault /\ UNCHANGED <<loaded, missed>>
    /\ UNCHANGED <<stats, candidates, approved, overlay, unwritten, dropped>>

CycleStep ==
    \/ StartCycle
    \/ \E o \in Orgs : ChooseCluster(o)
    \/ InsertCandidate
    \/ Approve
    \/ EndChoice
    \/ WriteOverlay
    \/ Reload
-----------------------------------------------------------------------------
(* Traffic, retention and the process *)

\* Connections of enough users are stored; a cycle reads them when it starts.
Sighted(o) ==
    /\ cycle.pc = "idle"
    /\ stats' = stats \cup {o}
    /\ UNCHANGED <<candidates, approved, overlay, loaded, cycle, bounds, history>>

\* CleanupGarbageIPs: a start deletes the rows of unspecified addresses, which
\* may leave names with too few users.
Cleanup == stats' \in SUBSET stats

\* A restart loads the files; the locals of the cycle are gone.  A start without
\* a readable base ends at once, which is no start.
Restart ==
    /\ crashes < MaxCrashes
    /\ crashes' = crashes + 1
    /\ Cleanup
    /\ Load
    /\ cycle' = Idle
    /\ unwritten' = IF cycle.pc = "reload" THEN unwritten
                    ELSE unwritten \cup cycle.names
    /\ UNCHANGED <<candidates, approved, overlay, dropped>>

Next == CycleStep \/ (\E o \in Orgs : Sighted(o)) \/ Restart

Spec == Init /\ [][Next]_vars

\* The ticker keeps starting cycles, and every call has a timeout.
Fairness == WF_vars(CycleStep)

FairSpec == Spec /\ Fairness
-----------------------------------------------------------------------------
(* Properties *)

\* A word the classifier uses beyond providers.yaml comes from the name of an
\* approved candidate (autolearner.go:678).
LearnedWasApproved ==
    Words(Merge(loaded, overlay)) \subseteq
        Words(Base) \cup {Name[o].keyword : o \in approved}

\* An approved candidate's word is in the overlay or on its way there.  What can
\* part them is known name by name: its approval was stored by a call that failed,
\* the write after it failed or the process ended before it, or a later write could
\* not read the file and removed that word (autolearner.go:564).
ApprovedIsKept ==
    \A o \in approved :
        \/ Name[o].keyword \in Words(overlay)
        \/ o \in cycle.names
        \/ o \in unwritten
        \/ o \in dropped

\* Learning, reloads and restarts move the class of a name only up in the order
\* of priorities: no provider that was recognised becomes unknown or is taken
\* for a less specific one, but in the load after a failed read of the overlay,
\* or in the load whose own read of it fails.
ClassesMoveUp ==
    [][\A o \in Orgs : Place(loaded, o)' <= Place(loaded, o) \/ missed \/ missed']_vars

\* A name with a thousand connections and some evidence, whose keyword matches
\* it and which no similar name can stand for.
Learnable(o) ==
    /\ Name[o].seen = 2
    /\ Name[o].caida \/ Name[o].hint # None \/ Words(Base) \cap Name[o].within # {}
    /\ Name[o].keyword \in Name[o].matches
    /\ Similar[o] = {}

\* Such a name is known in the end if its users stay, however many additions a
\* cycle may make and whichever of its steps failed before.
Learns ==
    \A o \in Orgs : Learnable(o) => (<>[](o \in stats) => []<>Known(o))
=============================================================================
