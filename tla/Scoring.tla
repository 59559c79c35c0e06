------------------------------- MODULE Scoring -------------------------------
(***************************************************************************)
(* The score of a user with a new provider, from the addresses in its hot  *)
(* window to the action taken: classification of the providers, four       *)
(* features, two modifiers, thresholds, and the evidence of Remnawave that *)
(* may lower the result.                                                   *)
(*                                                                         *)
(* The code computes in floating point; here a point is Scale units, which *)
(* makes every quotient exact for up to four providers.  Confidences are   *)
(* percentages and modifiers tenths.                                       *)
(***************************************************************************)
EXTENDS Integers, FiniteSetsExt

CONSTANTS
    ASNs,
    Types,            \* provider types of providers.yaml
    Modifier,         \* their modifiers, in tenths
    Counts,           \* bound: how many addresses of an ASN are in the window
    Places,           \* locations of addresses
    CountryOf, CityOf, AgglomerationOf,
    None,             \* the city or agglomeration of a place that has none
    FarApart,         \* pairs of places more than 1000 km apart
    Spreads,          \* bound: the sets of places considered
    MonitorAt, WarnAt, SoftAt, TempAt, HardAt   \* ScoreThresholds, in points

ASSUME ScoringAssumption ==
    /\ IsFiniteSet(ASNs)
    /\ Modifier \in [Types -> Nat]
    /\ Counts \subseteq Nat
    /\ IsFiniteSet(Places) /\ Spreads \subseteq SUBSET Places
    /\ {MonitorAt, WarnAt, SoftAt, TempAt, HardAt} \subseteq Int

VARIABLES
    nets,     \* the ASNs in the window: classification and number of addresses
    places,   \* where these addresses are
    geo,      \* whether GeoIP is enabled
    pc,
    score,    \* FinalScore, in units
    confidence,
    action

vars == <<nets, places, geo, pc, score, confidence, action>>
input == <<nets, places, geo>>
-----------------------------------------------------------------------------
Scale == 22500
Points(n) == n * Scale

\* Mutant of Clamp: no upper limit.
ClampBelow(x) == IF x < 0 THEN 0 ELSE x

Clamp(x) == IF x < 0 THEN 0 ELSE IF x > Points(100) THEN Points(100) ELSE x

Actions == {"none", "monitor", "warn", "soft_challenge", "temp_disable", "hard_disable"}
Severity == [none |-> 0, monitor |-> 1, warn |-> 2, soft_challenge |-> 3,
             temp_disable |-> 4, hard_disable |-> 5]

HighRisk == {"vpn_proxy", "hosting"}
Mobile == {"mobile", "mobile_isp"}
Wired == {"isp", "fixed", "regional_isp"}

\* What a classification may be: a keyword of a type matched, a pattern in the name
\* did, or nothing, which makes an unknown provider an ISP.
Classes ==
    {[type |-> t, modifier |-> Modifier[t], confidence |-> IF t \in HighRisk THEN 90 ELSE 80] :
        t \in Types}
    \cup {[type |-> t, modifier |-> Modifier[t], confidence |-> 50] :
            t \in Types \cap {"hosting", "mobile_isp", "isp"}}
    \cup {[type |-> "isp", modifier |-> 10, confidence |-> 30]}

Net == [class : Classes, ips : Counts]
Windows == UNION {[S -> Net] : S \in (SUBSET ASNs) \ {{}}}

TypeOK ==
    /\ nets \in Windows /\ places \in SUBSET Places /\ geo \in BOOLEAN
    /\ pc \in {"input", "scored", "done"}
    /\ score \in 0..Points(100) /\ confidence \in 0..100
    /\ action \in Actions

Total(f) == Cardinality(UNION {{a} \X (1..f[a]) : a \in DOMAIN f})

\* Every place is that of some address, and known only with GeoIP.
Init ==
    /\ nets \in Windows
    /\ places \in Spreads
    /\ geo \in BOOLEAN /\ (~ geo => places = {})
    /\ Cardinality(places) <= Total([a \in DOMAIN nets |-> nets[a].ips])
    /\ pc = "input" /\ score = 0 /\ confidence = 100 /\ action = "none"
-----------------------------------------------------------------------------
(* Features *)

Class(a) == nets[a].class
OfType(S) == {a \in DOMAIN nets : Class(a).type \in S}
Size == Cardinality(DOMAIN nets)

\* (average - 0.3) / 1.5 of 100, where 100 / 15 = 20 / 3
ASNScore ==
    LET sum == Total([a \in DOMAIN nets |-> Class(a).modifier])
    IN  Clamp(((sum - 3 * Size) * ((20 * Scale) \div 3)) \div Size)

ASNConfidences == {Class(a).confidence : a \in DOMAIN nets}

Countries == {CountryOf[p] : p \in places}
Cities == {CityOf[p] : p \in places} \ {None}
Agglomerations == {AgglomerationOf[p] : p \in places} \ {None}
LongDistance == \E p, q \in places : <<p, q>> \in FarApart

\* Mutant of GeoScore: four cities are many.
GeoScoreFour ==
    IF Cardinality(Agglomerations) = 1 THEN 0
    ELSE (IF Cardinality(Countries) >= 3 THEN 30
          ELSE IF Cardinality(Countries) = 2 THEN 15 ELSE 0)
         + (IF Cardinality(Countries) = 1 /\ Cardinality(Cities) > 1 THEN 5 ELSE 0)
         + (IF Cardinality(Cities) >= 4 THEN 20 ELSE 0)
         + (IF LongDistance THEN 10 ELSE 0)

\* One agglomeration among the cities is enough for a zero, whatever the others are.
GeoScore ==
    IF Cardinality(Agglomerations) = 1 THEN 0
    ELSE (IF Cardinality(Countries) >= 3 THEN 30
          ELSE IF Cardinality(Countries) = 2 THEN 15 ELSE 0)
         + (IF Cardinality(Countries) = 1 /\ Cardinality(Cities) > 1 THEN 5 ELSE 0)
         + (IF Cardinality(Cities) >= 5 THEN 20 ELSE 0)
         + (IF LongDistance THEN 10 ELSE 0)

GeoConfidence ==
    IF ~ geo THEN 30 ELSE IF Cardinality(Countries) > 1 THEN 90 ELSE 70

\* Addresses of mobile providers do not count.
Dense == {a \in DOMAIN nets : Class(a).modifier > 6}

\* 100 at 50 / modifier addresses
Density(a) == Clamp(nets[a].ips * Class(a).modifier * (Scale \div 5))

\* The loop over a map ends at any of the densest ASNs.
Densest == {a \in Dense : \A b \in Dense : Density(b) <= Density(a)}

DensityConfidence(n) == IF n >= 20 THEN 90 ELSE IF n >= 10 THEN 80 ELSE 60

Weighted(points, percent) == (points * percent) \div 100

\* The weighted sum of the features.
RawScore(density) ==
    Weighted(ASNScore, 30) + (IF geo THEN Weighted(Points(GeoScore), 55) ELSE 0)
        + Weighted(density, 15)

Dominated == 2 * Cardinality(OfType(HighRisk)) > Size
MobileHome == OfType(Mobile) # {} /\ OfType(Wired) # {} /\ OfType(HighRisk) = {}

\* Mutant of Modified: the floor holds for a user with nothing else.
ModifiedPure(raw) ==
    Clamp(IF Cardinality(OfType(HighRisk)) = Size /\ raw < Points(50) THEN Points(50)
          ELSE IF MobileHome THEN (raw * 3) \div 5 ELSE raw)

\* ProviderMixFeature sets a floor, or recognises a user at home and on the road.
Modified(raw) ==
    Clamp(IF Dominated /\ raw < Points(50) THEN Points(50)
          ELSE IF MobileHome THEN (raw * 3) \div 5 ELSE raw)
-----------------------------------------------------------------------------
(* Thresholds *)

ByThreshold(x) ==
    IF x < Points(MonitorAt) THEN "none"
    ELSE IF x < Points(WarnAt) THEN "monitor"
    ELSE IF x < Points(SoftAt) THEN "warn"
    ELSE IF x < Points(TempAt) THEN "soft_challenge"
    ELSE IF x < Points(HardAt) THEN "temp_disable" ELSE "hard_disable"

Downgrade == [hard_disable |-> "temp_disable", temp_disable |-> "warn",
              soft_challenge |-> "warn", warn |-> "monitor", monitor |-> "none",
              none |-> "none"]

LowConfidence(c) == c < 30

DetermineAction(x, c) == IF LowConfidence(c) THEN Downgrade[ByThreshold(x)] ELSE ByThreshold(x)

\* Scorer.Calculate with density d at confidence c; 80 is that of ProviderMixFeature.
Result(d, c) ==
    /\ confidence' = Min(ASNConfidences \cup {GeoConfidence, c, 80})
    /\ score' = Modified(RawScore(d))
    /\ action' = DetermineAction(score', confidence')

Calculate ==
    /\ pc = "input"
    /\ \/ Dense = {} /\ Result(0, 80)
       \/ \E a \in Densest : Result(Density(a), DensityConfidence(nets[a].ips))
    /\ pc' = "scored"
    /\ UNCHANGED input
-----------------------------------------------------------------------------
(* applyRemnawaveEvidence *)

\* HWID devices, subscription requests and what differs among them.
Evidence ==
    {e \in [devices : 0..3, requests : 0..3, ips : 0..3, agents : 0..3, current : BOOLEAN] :
        e.ips <= e.requests /\ e.agents <= e.requests /\ (e.current => e.ips > 0)}

Consistent(e) == e.devices = 1 /\ e.requests > 0 /\ e.agents <= 1 /\ e.current

FewDevices(e) ==
    e.devices > 0 /\ e.requests > 0 /\ e.devices <= 2 /\ e.agents <= 2 /\ e.ips <= 2

Reduced(e) ==
    IF Consistent(e) THEN (score * 3) \div 5
    ELSE IF FewDevices(e) THEN (score * 4) \div 5 ELSE score

\* Without a signal that lowers the score the result stays as it is.
ApplyEvidence(e) ==
    /\ pc = "scored"
    /\ pc' = "done"
    /\ score' = Clamp(Reduced(e))
    /\ action' = IF Consistent(e) \/ FewDevices(e) THEN DetermineAction(score', confidence)
                 ELSE action
    /\ UNCHANGED <<input, confidence>>

\* The panel did not answer, or knows nothing of the user.
NoEvidence ==
    /\ pc = "scored"
    /\ pc' = "done"
    /\ UNCHANGED <<input, score, confidence, action>>

\* The decision is taken.
Rest == pc = "done" /\ UNCHANGED vars

Next == Calculate \/ (\E e \in Evidence : ApplyEvidence(e)) \/ NoEvidence \/ Rest

Spec == Init /\ [][Next]_vars
-----------------------------------------------------------------------------
(* Properties *)

Blocking == {"temp_disable", "hard_disable"}

\* No single signal disables a user: with the shipped weights, modifiers and
\* thresholds a block needs addresses in three countries and five cities a long way
\* apart and no agglomeration to excuse them, a majority of VPN or hosting
\* providers, and an ASN with tens of addresses.
BlockNeedsAllSignals ==
    action \in Blocking =>
        /\ geo /\ Cardinality(Countries) >= 3 /\ Cardinality(Cities) >= 5
        /\ LongDistance /\ Cardinality(Agglomerations) # 1
        /\ Dominated
        /\ \E a \in Dense : nets[a].ips > 20

\* A user on VPN and hosting providers for the most part is warned about, and the best
\* evidence does not take it out of sight.
HighRiskWatched ==
    Dominated =>
        /\ pc = "scored" => Severity[action] >= Severity["warn"]
        /\ pc = "done" => Severity[action] >= Severity["monitor"]

\* The classifier's least confidence is 0.3 and so is that of missing data, the
\* gate is below 0.3: whatever the window holds, the downgrade of scorer.go:130 is
\* never applied and an unknown provider is judged like a known one.
DowngradeUnused == pc # "input" => action = ByThreshold(score)

\* The features cannot sum up to more than 78 points: with the shipped threshold
\* (85) no user is ever hard disabled.
HardDisableUnreached == action # "hard_disable"

\* README.md:84 "These evidence signals do not add an extra penalty": neither the
\* score nor the action gets worse, whatever the panel answers.
EvidenceNeverHarsher ==
    [][pc = "scored" => score' <= score /\ Severity[action'] <= Severity[action]]_vars
=============================================================================
