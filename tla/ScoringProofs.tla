---------------------------- MODULE ScoringProofs ----------------------------
(***************************************************************************)
(* Proofs about Scoring for every set of ASNs, places and provider types,  *)
(* every modifier and every threshold; where a theorem needs something of  *)
(* a threshold it says so.                                                 *)
(*                                                                         *)
(* The bounds of the score are those of the features: 30 for the ASNs, 33  *)
(* for the geography and 15 for the density.                               *)
(***************************************************************************)
EXTENDS Scoring, FiniteSetTheorems, FunctionTheorems, TLAPS

\* Every confidence of a classification or a feature.
Confidences == {30, 50, 60, 70, 80, 90}

Confident == pc # "input" => confidence \in Confidences

Undecided == pc = "input" => action = "none"

ScoreBounded == score <= Points(78)

Floored ==
    Dominated => /\ pc = "scored" => score >= Points(50)
                 /\ pc = "done" => score >= Points(30)

IInv ==
    /\ TypeOK /\ Undecided /\ Confident /\ DowngradeUnused /\ ScoreBounded /\ Floored
-----------------------------------------------------------------------------
(* The operators *)

LEMMA TotalType ==
    ASSUME NEW S, IsFiniteSet(S), NEW f \in [S -> Nat]
    PROVE  Total(f) \in Nat
<1> DEFINE Pairs(a) == {a} \X (1..f[a])
           g == [a \in S |-> Pairs(a)]
           T == {Pairs(a) : a \in S}
<1>1. \A a \in S : IsFiniteSet(Pairs(a))
  <2> TAKE a \in S
  <2>1. IsFiniteSet({a}) BY FS_Singleton
  <2>2. IsFiniteSet(1..f[a]) BY FS_Interval
  <2> QED BY <2>1, <2>2, FS_Product
<1>2. IsFiniteSet(T)
  <2>1. g \in Surjection(S, T) BY DEF Surjection
  <2> QED BY <2>1, FS_Surjection
<1>3. IsFiniteSet(UNION T) BY <1>1, <1>2, FS_UNION
<1>4. DOMAIN f = S OBVIOUS
<1>5. Total(f) = Cardinality(UNION T) BY <1>4 DEF Total
<1> HIDE DEF T
<1> QED BY <1>3, <1>5, FS_CardinalityType

LEMMA ScaleType == Scale \in Nat
BY DEF Scale

LEMMA ScalePositive == Scale > 0
BY DEF Scale

LEMMA PointsAre ==
    /\ Points(15) = 15 * Scale /\ Points(30) = 30 * Scale /\ Points(33) = 33 * Scale
    /\ Points(50) = 50 * Scale /\ Points(60) = 60 * Scale /\ Points(78) = 78 * Scale
    /\ Points(100) = 100 * Scale
    /\ \A n \in Int : Points(n) \in Int
BY ScaleType DEF Points

LEMMA ClampType ==
    ASSUME NEW x \in Int
    PROVE  /\ Clamp(x) \in 0..Points(100)
           /\ x <= Points(78) => Clamp(x) <= Points(78)
           /\ x >= Points(30) => Clamp(x) >= Points(30)
           /\ x >= Points(50) => Clamp(x) >= Points(50)
BY ScaleType, PointsAre DEF Clamp

LEMMA WeightedType ==
    ASSUME NEW x \in 0..Points(100)
    PROVE  /\ Weighted(x, 30) \in 0..Points(30)
           /\ Weighted(x, 15) \in 0..Points(15)
           /\ x <= Points(60) => Weighted(x, 55) \in 0..Points(33)
<1>1. x \in 0..(100 * Scale) BY ScaleType, PointsAre
<1>2. (x * 30) \div 100 \in 0..(30 * Scale) BY <1>1, ScaleType
<1>3. (x * 15) \div 100 \in 0..(15 * Scale) BY <1>1, ScaleType
<1>4. x <= 60 * Scale => (x * 55) \div 100 \in 0..(33 * Scale) BY <1>1, ScaleType
<1> QED BY <1>2, <1>3, <1>4, PointsAre DEF Weighted

LEMMA GeoScoreType == GeoScore \in 0..60
<1> DEFINE countries == IF Cardinality(Countries) >= 3 THEN 30
                        ELSE IF Cardinality(Countries) = 2 THEN 15 ELSE 0
           within == IF Cardinality(Countries) = 1 /\ Cardinality(Cities) > 1 THEN 5 ELSE 0
           cities == IF Cardinality(Cities) >= 5 THEN 20 ELSE 0
           far == IF LongDistance THEN 10 ELSE 0
<1>1. countries \in {0, 15, 30} OBVIOUS
<1>2. within \in {0, 5} /\ (within = 5 => countries # 30) 
  <2>1. CASE Cardinality(Countries) = 1 BY <2>1
  <2>2. CASE Cardinality(Countries) # 1 BY <2>2
  <2> QED BY <2>1, <2>2
<1>3. cities \in {0, 20} /\ far \in {0, 10} OBVIOUS
<1>4. GeoScore = IF Cardinality(Agglomerations) = 1 THEN 0
                 ELSE countries + within + cities + far
  BY DEF GeoScore
<1> HIDE DEF countries, within, cities, far
<1> QED BY <1>1, <1>2, <1>3, <1>4

LEMMA LeastConfidence ==
    ASSUME NEW S \in SUBSET Confidences, S # {}
    PROVE  Min(S) \in S
<1>1. \E x \in S : \A y \in S : x <= y
  <2>1. CASE 30 \in S BY <2>1 DEF Confidences
  <2>2. CASE 30 \notin S /\ 50 \in S BY <2>2 DEF Confidences
  <2>3. CASE 30 \notin S /\ 50 \notin S /\ 60 \in S BY <2>3 DEF Confidences
  <2>4. CASE S \cap {30, 50, 60} = {} /\ 70 \in S BY <2>4 DEF Confidences
  <2>5. CASE S \cap {30, 50, 60, 70} = {} /\ 80 \in S BY <2>5 DEF Confidences
  <2>6. CASE S \subseteq {90}
    <3>1. 90 \in S /\ \A y \in S : y = 90 BY <2>6
    <3> QED BY <3>1
  <2> QED BY <2>1, <2>2, <2>3, <2>4, <2>5, <2>6 DEF Confidences
<1> QED BY <1>1 DEF Min

\* A lower score never falls into a harsher band, in whatever order the thresholds are.
LEMMA ByThresholdMonotone ==
    ASSUME NEW x \in Int, NEW y \in Int, y <= x
    PROVE  Severity[ByThreshold(y)] <= Severity[ByThreshold(x)]
<1> DEFINE S(a) == Severity[a]
<1>1. /\ S("none") = 0 /\ S("monitor") = 1 /\ S("warn") = 2 /\ S("soft_challenge") = 3
      /\ S("temp_disable") = 4 /\ S("hard_disable") = 5
  BY DEF Severity
<1>2. \A t \in {MonitorAt, WarnAt, SoftAt, TempAt, HardAt} : Points(t) \in Int
  BY ScoringAssumption DEF Points, Scale
<1> QED BY <1>1, <1>2 DEF ByThreshold

LEMMA ByThresholdType == ASSUME NEW x PROVE ByThreshold(x) \in Actions
BY DEF ByThreshold, Actions

\* No confidence is low.
LEMMA NoDowngrade ==
    ASSUME NEW x, NEW c \in Confidences
    PROVE  DetermineAction(x, c) = ByThreshold(x)
BY DEF DetermineAction, LowConfidence, Confidences
-----------------------------------------------------------------------------
(* The features of a window *)

LEMMA WindowType ==
    ASSUME nets \in Windows
    PROVE  /\ IsFiniteSet(DOMAIN nets) /\ Size \in Nat \ {0}
           /\ \A a \in DOMAIN nets :
                /\ Class(a).modifier \in Nat /\ Class(a).confidence \in Confidences
                /\ nets[a].ips \in Nat
<1>1. PICK S \in (SUBSET ASNs) \ {{}} : nets \in [S -> Net] BY DEF Windows
<1>2. S \in SUBSET ASNs /\ S # {} /\ DOMAIN nets = S BY <1>1
<1>3. IsFiniteSet(S) BY <1>2, ScoringAssumption, FS_Subset
<1>4. Size \in Nat \ {0} BY <1>2, <1>3, FS_CardinalityType, FS_EmptySet DEF Size
<1>5. ASSUME NEW c \in Classes
      PROVE  c.modifier \in Nat /\ c.confidence \in Confidences
  BY ScoringAssumption DEF Classes, Confidences
<1>6. \A a \in S : nets[a].class \in Classes /\ nets[a].ips \in Nat
  BY <1>1, ScoringAssumption DEF Net
<1> QED BY <1>2, <1>3, <1>4, <1>5, <1>6 DEF Class

LEMMA ASNScoreType ==
    ASSUME nets \in Windows
    PROVE  ASNScore \in 0..Points(100)
<1> DEFINE sum == Total([a \in DOMAIN nets |-> Class(a).modifier])
           rise == (sum - 3 * Size) * ((20 * Scale) \div 3)
<1>1. sum \in Nat
  <2> [a \in DOMAIN nets |-> Class(a).modifier] \in [DOMAIN nets -> Nat] BY WindowType
  <2> QED BY WindowType, TotalType
<1>2. Size \in Nat \ {0} BY WindowType
<1>3. rise \in Int
  <2> HIDE DEF sum
  <2>1. (20 * Scale) \div 3 \in Int BY ScaleType
  <2>2. sum - 3 * Size \in Int BY <1>1, <1>2
  <2> QED BY <2>1, <2>2
<1>4. ASNScore = Clamp(rise \div Size) BY DEF ASNScore
<1> HIDE DEF rise
<1>5. rise \div Size \in Int BY <1>2, <1>3
<1> QED BY <1>4, <1>5, ClampType

LEMMA DensityType ==
    ASSUME nets \in Windows, NEW a \in DOMAIN nets
    PROVE  Density(a) \in 0..Points(100)
<1>1. nets[a].ips * Class(a).modifier \in Nat BY WindowType
<1>2. Scale \div 5 \in Int BY ScaleType
<1>3. nets[a].ips * Class(a).modifier * (Scale \div 5) \in Int BY <1>1, <1>2
<1> QED BY <1>3, ClampType DEF Density

LEMMA RawScoreType ==
    ASSUME nets \in Windows, NEW d \in 0..Points(100)
    PROVE  RawScore(d) \in 0..Points(78)
<1>1. Weighted(ASNScore, 30) \in 0..Points(30) BY ASNScoreType, WeightedType
<1>2. Weighted(d, 15) \in 0..Points(15) BY WeightedType
<1>3. Points(GeoScore) \in 0..Points(60)
  <2>1. \A n \in 0..60 : 0 <= n * Scale /\ n * Scale <= 60 * Scale BY ScaleType
  <2>2. 0 <= GeoScore * Scale /\ GeoScore * Scale <= 60 * Scale BY <2>1, GeoScoreType
  <2>3. Points(GeoScore) = GeoScore * Scale BY DEF Points
  <2>4. Points(GeoScore) \in Int BY GeoScoreType, PointsAre
  <2> QED BY <2>2, <2>3, <2>4, PointsAre
<1>4. Weighted(Points(GeoScore), 55) \in 0..Points(33)
  <2> Points(GeoScore) \in 0..Points(100) /\ Points(GeoScore) <= Points(60)
    BY <1>3, ScaleType, PointsAre
  <2> QED BY WeightedType
<1> QED BY <1>1, <1>2, <1>4, ScaleType, PointsAre DEF RawScore

LEMMA ModifiedType ==
    ASSUME nets \in Windows, NEW raw \in 0..Points(78)
    PROVE  /\ Modified(raw) \in 0..Points(78)
           /\ Dominated => Modified(raw) >= Points(50)
<1> DEFINE final == IF Dominated /\ raw < Points(50) THEN Points(50)
                    ELSE IF MobileHome THEN (raw * 3) \div 5 ELSE raw
<1>1. final \in 0..Points(78)
  <2>1. raw \in 0..(78 * Scale) BY ScaleType, PointsAre
  <2>2. (raw * 3) \div 5 \in 0..(78 * Scale) BY <2>1, ScaleType
  <2> QED BY <2>1, <2>2, ScaleType, PointsAre
<1>2. ~ (Dominated /\ MobileHome)
  <2>1. CASE OfType(HighRisk) = {}
    <3>1. Cardinality(OfType(HighRisk)) = 0 BY <2>1, FS_EmptySet
    <3>2. Size \in Nat BY WindowType
    <3> QED BY <3>1, <3>2 DEF Dominated
  <2>2. CASE OfType(HighRisk) # {} BY <2>2 DEF MobileHome
  <2> QED BY <2>1, <2>2
<1>3. Dominated => final >= Points(50) BY <1>2, ScaleType, PointsAre
<1>4. Modified(raw) = Clamp(final) BY DEF Modified
<1> HIDE DEF final
<1>5. final \in Int BY <1>1, ScaleType, PointsAre
<1>6. final <= Points(78) BY <1>1, ScaleType, PointsAre
<1> QED BY <1>3, <1>4, <1>5, <1>6, ClampType, ScaleType, PointsAre

LEMMA ReducedType ==
    ASSUME NEW e, score \in 0..Points(100)
    PROVE  /\ Reduced(e) \in 0..score
           /\ score >= Points(50) => Reduced(e) >= Points(30)
           /\ Clamp(Reduced(e)) = Reduced(e)
<1>1. score \in 0..(100 * Scale) BY ScaleType, PointsAre
<1>2. (score * 3) \div 5 \in 0..score /\ (score * 4) \div 5 \in 0..score
  BY <1>1, ScaleType
<1>3. score >= 50 * Scale => /\ (score * 3) \div 5 >= 30 * Scale
                             /\ (score * 4) \div 5 >= 30 * Scale
  BY <1>1, ScaleType
<1>4. Reduced(e) \in {(score * 3) \div 5, (score * 4) \div 5, score} BY DEF Reduced
<1>5. Reduced(e) \in 0..score BY <1>1, <1>2, <1>4
<1>6. Clamp(Reduced(e)) = Reduced(e) BY <1>1, <1>5, ScaleType, PointsAre DEF Clamp
<1> QED BY <1>1, <1>3, <1>4, <1>5, <1>6, ScaleType, PointsAre
-----------------------------------------------------------------------------
(* The invariant *)

\* What Scorer.Calculate gives.
LEMMA ResultType ==
    ASSUME nets \in Windows, NEW d \in 0..Points(100), NEW c \in Confidences, Result(d, c)
    PROVE  /\ score' \in 0..Points(78) /\ (Dominated => score' >= Points(50))
           /\ confidence' \in Confidences
           /\ action' = ByThreshold(score')
<1> DEFINE all == ASNConfidences \cup {GeoConfidence, c, 80}
<1>1. all \in SUBSET Confidences
  <2>1. ASNConfidences \subseteq Confidences BY WindowType DEF ASNConfidences
  <2>2. GeoConfidence \in Confidences BY DEF GeoConfidence, Confidences
  <2> QED BY <2>1, <2>2 DEF Confidences
<1>2. confidence' \in Confidences
  <2>1. Min(all) \in all BY <1>1, LeastConfidence
  <2> QED BY <1>1, <2>1 DEF Result
<1>3. score' = Modified(RawScore(d)) BY DEF Result
<1>4. action' = DetermineAction(score', confidence') BY DEF Result
<1> QED BY <1>2, <1>3, <1>4, RawScoreType, ModifiedType, NoDowngrade

LEMMA CalculateStep ==
    ASSUME IInv, Calculate
    PROVE  /\ score' \in 0..Points(78) /\ (Dominated => score' >= Points(50))
           /\ confidence' \in Confidences
           /\ action' = ByThreshold(score')
<1> USE DEF IInv, TypeOK
<1>1. CASE Dense = {} /\ Result(0, 80)
  <2>1. 0 \in 0..Points(100) BY ScaleType, PointsAre
  <2>2. 80 \in Confidences BY DEF Confidences
  <2> QED BY <1>1, <2>1, <2>2, ResultType
<1>2. CASE \E a \in Densest : Result(Density(a), DensityConfidence(nets[a].ips))
  <2>1. PICK a \in Densest : Result(Density(a), DensityConfidence(nets[a].ips)) BY <1>2
  <2>2. a \in DOMAIN nets BY DEF Densest, Dense
  <2>3. Density(a) \in 0..Points(100) BY <2>2, DensityType
  <2>4. DensityConfidence(nets[a].ips) \in Confidences
    BY DEF DensityConfidence, Confidences
  <2> QED BY <2>1, <2>3, <2>4, ResultType
<1> QED BY <1>1, <1>2 DEF Calculate

LEMMA EvidenceStep ==
    ASSUME IInv, NEW e \in Evidence, ApplyEvidence(e)
    PROVE  /\ score' \in 0..score /\ (score >= Points(50) => score' >= Points(30))
           /\ confidence' = confidence
           /\ action' = ByThreshold(score')
<1>1. score \in 0..Points(100) /\ confidence \in Confidences /\ action = ByThreshold(score)
  BY DEF IInv, TypeOK, Confident, DowngradeUnused, ApplyEvidence
<1>2. score' = Reduced(e) BY <1>1, ReducedType DEF ApplyEvidence
<1>3. confidence' = confidence BY DEF ApplyEvidence
<1>4. action' = ByThreshold(score')
  <2>1. CASE Consistent(e) \/ FewDevices(e) BY <1>1, <2>1, NoDowngrade DEF ApplyEvidence
  <2>2. CASE ~ (Consistent(e) \/ FewDevices(e))
    <3>1. score' = score BY <1>2, <2>2 DEF Reduced
    <3>2. action' = action BY <2>2 DEF ApplyEvidence
    <3> QED BY <1>1, <3>1, <3>2
  <2> QED BY <2>1, <2>2
<1> QED BY <1>1, <1>2, <1>3, <1>4, ReducedType

LEMMA Initially == Init => IInv
<1> SUFFICES ASSUME Init PROVE IInv OBVIOUS
<1>1. TypeOK
  <2>1. places \in SUBSET Places BY ScoringAssumption DEF Init
  <2>2. 0 \in 0..Points(100) BY ScaleType, PointsAre
  <2> QED BY <2>1, <2>2 DEF Init, TypeOK, Actions
<1>2. Undecided /\ Confident /\ DowngradeUnused /\ Floored
  BY DEF Init, Undecided, Confident, DowngradeUnused, Floored
<1>3. ScoreBounded BY ScaleType, PointsAre DEF Init, ScoreBounded
<1> QED BY <1>1, <1>2, <1>3 DEF IInv

LEMMA Step == IInv /\ [Next]_vars => IInv'
<1> SUFFICES ASSUME IInv, [Next]_vars PROVE IInv' OBVIOUS
<1>1. ASSUME Calculate PROVE IInv'
  <2>1. pc' = "scored" /\ UNCHANGED input BY <1>1 DEF Calculate
  <2>2. /\ score' \in 0..Points(78) /\ (Dominated => score' >= Points(50))
        /\ confidence' \in Confidences /\ action' = ByThreshold(score')
    BY <1>1, CalculateStep
  <2>3. TypeOK'
    <3>1. score' \in 0..Points(100) BY <2>2, ScaleType, PointsAre
    <3>2. confidence' \in 0..100 BY <2>2 DEF Confidences
    <3>3. action' \in Actions BY <2>2, ByThresholdType
    <3> QED BY <2>1, <3>1, <3>2, <3>3 DEF IInv, TypeOK, input
  <2>4. Undecided' /\ Confident' /\ DowngradeUnused'
    BY <2>1, <2>2 DEF Undecided, Confident, DowngradeUnused, ByThreshold
  <2>5. ScoreBounded'
    <3>1. score' <= Points(78) BY <2>2, ScaleType, PointsAre
    <3> QED BY <3>1 DEF ScoreBounded, Points, Scale
  <2>6. Floored'
    <3>1. Dominated' = Dominated BY <2>1 DEF input, Dominated, OfType, Class, Size
    <3>2. Dominated => score' >= Points(50) BY <2>2
    <3>3. pc' # "done" BY <2>1
    <3> QED BY <3>1, <3>2, <3>3 DEF Floored, Points, Scale
  <2> QED BY <2>3, <2>4, <2>5, <2>6 DEF IInv
<1>2. ASSUME NEW e \in Evidence, ApplyEvidence(e) PROVE IInv'
  <2>1. pc = "scored" /\ pc' = "done" /\ UNCHANGED input BY <1>2 DEF ApplyEvidence
  <2>2. /\ score' \in 0..score /\ (score >= Points(50) => score' >= Points(30))
        /\ confidence' = confidence /\ action' = ByThreshold(score')
    BY <1>2, EvidenceStep
  <2>3. score \in 0..Points(100) /\ score <= Points(78) /\ confidence \in 0..100
    BY DEF IInv, TypeOK, ScoreBounded
  <2>4. TypeOK'
    <3>1. score' \in 0..Points(100) BY <2>2, <2>3, ScaleType, PointsAre
    <3>2. action' \in Actions BY <2>2, ByThresholdType
    <3> QED BY <2>1, <2>2, <2>3, <3>1, <3>2 DEF IInv, TypeOK, input
  <2>5. Undecided' /\ Confident' /\ DowngradeUnused'
    BY <2>1, <2>2 DEF IInv, Undecided, Confident, DowngradeUnused, ByThreshold
  <2>6. ScoreBounded'
    <3>1. score' <= Points(78) BY <2>2, <2>3, ScaleType, PointsAre
    <3> QED BY <3>1 DEF ScoreBounded, Points, Scale
  <2>7. Floored'
    <3>1. Dominated' = Dominated BY <2>1 DEF input, Dominated, OfType, Class, Size
    <3> QED BY <2>1, <2>2, <3>1 DEF IInv, Floored, Points, Scale
  <2> QED BY <2>4, <2>5, <2>6, <2>7 DEF IInv
<1>3. ASSUME NoEvidence PROVE IInv'
  <2>1. /\ pc = "scored" /\ pc' = "done"
        /\ UNCHANGED <<input, score, confidence, action>> BY <1>3 DEF NoEvidence
  <2>2. TypeOK' BY <2>1 DEF IInv, TypeOK, input
  <2>3. Undecided' /\ Confident' /\ DowngradeUnused' /\ ScoreBounded'
    BY <2>1 DEF IInv, Undecided, Confident, DowngradeUnused, ScoreBounded, ByThreshold
  <2>4. Floored'
    <3>1. Dominated' = Dominated BY <2>1 DEF input, Dominated, OfType, Class, Size
    <3>2. score \in Int BY ScaleType, PointsAre DEF IInv, TypeOK
    <3>3. score >= Points(50) => score >= Points(30) BY <3>2, ScaleType, PointsAre
    <3> QED BY <2>1, <3>1, <3>3 DEF IInv, Floored
  <2> QED BY <2>2, <2>3, <2>4 DEF IInv
<1>4. ASSUME UNCHANGED vars PROVE IInv'
  BY <1>4 DEF vars, IInv, TypeOK, Undecided, Confident, DowngradeUnused, ByThreshold,
    ScoreBounded, Floored, Dominated, OfType, Class, Size
<1> QED BY <1>1, <1>2, <1>3, <1>4 DEF Next, Rest
-----------------------------------------------------------------------------
(* Theorems *)

LEMMA Invariance == Spec => []IInv
BY Initially, Step, PTL DEF Spec

\* The type invariant of the score, for every window.
THEOREM TypeCorrect == Spec => []TypeOK
<1>1. IInv => TypeOK BY DEF IInv
<1> QED BY <1>1, Invariance, PTL

\* The downgrade of scorer.go:130 is never applied: no classification, no geography and
\* no density makes the confidence fall below 0.3.
THEOREM NeverDowngraded == Spec => []DowngradeUnused
<1>1. IInv => DowngradeUnused BY DEF IInv
<1> QED BY <1>1, Invariance, PTL

\* With a threshold above 78 no user is hard disabled, whatever the other thresholds.
THEOREM NeverHardDisabled ==
    ASSUME HardAt > 78
    PROVE  Spec => []HardDisableUnreached
<1>1. Points(78) < Points(HardAt)
  <2>1. HardAt \in Int BY ScoringAssumption
  <2> QED BY <2>1 DEF Points, Scale
<1>2. IInv => HardDisableUnreached
  <2> SUFFICES ASSUME IInv PROVE action # "hard_disable" BY DEF HardDisableUnreached
  <2>1. CASE pc = "input" BY <2>1 DEF IInv, Undecided
  <2>2. CASE pc # "input"
    <3>1. action = ByThreshold(score) BY <2>2 DEF IInv, DowngradeUnused
    <3>2. /\ score \in Int /\ score <= Points(78)
          /\ Points(78) \in Int /\ Points(HardAt) \in Int
      BY ScoringAssumption, PointsAre DEF IInv, TypeOK, ScoreBounded
    <3>3. score < Points(HardAt) BY <1>1, <3>2
    <3> QED BY <3>1, <3>3 DEF ByThreshold
  <2> QED BY <2>1, <2>2
<1> QED BY <1>2, Invariance, PTL

\* A majority of VPN and hosting providers keeps the user in sight when the floor of 50
\* reaches the warning and what evidence leaves of it, 30, the monitoring.
THEOREM HighRiskStaysWatched ==
    ASSUME MonitorAt <= 30, WarnAt <= 50
    PROVE  Spec => []HighRiskWatched
<1>1. /\ MonitorAt \in Int /\ WarnAt \in Int /\ SoftAt \in Int
      /\ Points(30) >= Points(MonitorAt) /\ Points(50) >= Points(WarnAt)
      /\ Points(50) >= Points(MonitorAt)
  BY ScoringAssumption DEF Points, Scale
<1>2. IInv => HighRiskWatched
  <2> SUFFICES ASSUME IInv, Dominated
               PROVE  /\ pc = "scored" => Severity[action] >= Severity["warn"]
                      /\ pc = "done" => Severity[action] >= Severity["monitor"]
    BY DEF HighRiskWatched
  <2>1. score \in Int BY PointsAre DEF IInv, TypeOK
  <2>2. /\ Points(MonitorAt) \in Int /\ Points(WarnAt) \in Int
        /\ Points(30) \in Int /\ Points(50) \in Int
    BY <1>1, PointsAre
  <2>3. CASE pc = "scored"
    <3>1. score >= Points(50) /\ action = ByThreshold(score)
      BY <2>3 DEF IInv, Floored, DowngradeUnused
    <3>2. ~ (score < Points(MonitorAt)) /\ ~ (score < Points(WarnAt))
      BY <1>1, <2>1, <2>2, <3>1
    <3>3. action \in {"warn", "soft_challenge", "temp_disable", "hard_disable"}
      BY <3>1, <3>2 DEF ByThreshold
    <3> QED BY <2>3, <3>3 DEF Severity
  <2>4. CASE pc = "done"
    <3>1. score >= Points(30) /\ action = ByThreshold(score)
      BY <2>4 DEF IInv, Floored, DowngradeUnused
    <3>2. ~ (score < Points(MonitorAt)) BY <1>1, <2>1, <2>2, <3>1
    <3>3. action \in {"monitor", "warn", "soft_challenge", "temp_disable", "hard_disable"}
      BY <3>1, <3>2 DEF ByThreshold
    <3> QED BY <2>4, <3>3 DEF Severity
  <2> QED BY <2>3, <2>4
<1> QED BY <1>2, Invariance, PTL

\* Evidence lowers the score and the action or leaves them, for every thresholds.
THEOREM EvidenceMitigates == Spec => EvidenceNeverHarsher
<1>1. IInv /\ [Next]_vars =>
        [pc = "scored" => score' <= score /\ Severity[action'] <= Severity[action]]_vars
  <2> SUFFICES ASSUME IInv, Next, pc = "scored"
               PROVE  score' <= score /\ Severity[action'] <= Severity[action]
    OBVIOUS
  <2>1. score \in Int /\ action = ByThreshold(score)
    BY ScaleType, PointsAre DEF IInv, TypeOK, DowngradeUnused
  <2>2. Severity[action] \in Int
    BY DEF IInv, TypeOK, Actions, Severity
  <2>3. ASSUME NEW e \in Evidence, ApplyEvidence(e)
        PROVE  score' <= score /\ Severity[action'] <= Severity[action]
    <3>1. score' \in 0..score /\ action' = ByThreshold(score') BY <2>3, EvidenceStep
    <3>2. score' \in Int /\ score' <= score BY <2>1, <3>1
    <3> QED BY <2>1, <3>1, <3>2, ByThresholdMonotone
  <2>4. CASE NoEvidence BY <2>1, <2>2, <2>4 DEF NoEvidence
  <2> QED BY <2>3, <2>4 DEF Next, Calculate, Rest
<1> QED BY <1>1, Invariance, PTL DEF Spec, EvidenceNeverHarsher
-----------------------------------------------------------------------------
(***************************************************************************)
(* What a block takes.  Of the 78 points the features can give, a score of *)
(* 75 leaves out too few for any of them to be weak.                       *)
(***************************************************************************)

\* What the theorem below needs of providers.yaml (1.8 for VPN and proxies, at most
\* 1.3 for those that are not high-risk) and of the thresholds (75).
ShippedTable ==
    /\ TempAt >= 75
    /\ \A t \in Types : Modifier[t] <= 18 /\ (t \notin HighRisk => Modifier[t] <= 14)

AllSignals ==
    /\ geo /\ Cardinality(Countries) >= 3 /\ Cardinality(Cities) >= 5
    /\ LongDistance /\ Cardinality(Agglomerations) # 1
    /\ Dominated
    /\ \E a \in Dense : nets[a].ips > 20

HighScoreExplained == pc # "input" /\ score >= Points(75) => AllSignals

LEMMA DivBound ==
    ASSUME NEW x \in Int, NEW n \in Nat \ {0}, NEW c \in Int, x <= c * n
    PROVE  x \div n <= c
OBVIOUS

LEMMA RiseBound ==
    ASSUME NEW s \in Nat, NEW n \in Nat \ {0}, NEW k \in Nat, NEW c \in Nat,
           s <= 16 * n, 13 * k <= c
    PROVE  (s - 3 * n) * k <= c * n
<1>1. (s - 3 * n) * k <= (13 * n) * k
  <2>1. s - 3 * n \in Int /\ 13 * n \in Int /\ s - 3 * n <= 13 * n OBVIOUS
  <2>2. \A x \in Int, y \in Int : x <= y => x * k <= y * k OBVIOUS
  <2> QED BY <2>1, <2>2
<1>2. (13 * n) * k = (13 * k) * n OBVIOUS
<1>3. (13 * k) * n <= c * n
  <2>1. 13 * k \in Nat OBVIOUS
  <2>2. \A x \in Nat, y \in Nat : x <= y => x * n <= y * n OBVIOUS
  <2> QED BY <2>1, <2>2
<1>4. (s - 3 * n) * k \in Int /\ (13 * n) * k \in Int /\ c * n \in Int OBVIOUS
<1> QED BY <1>1, <1>2, <1>3, <1>4

LEMMA ClassModifiers ==
    ASSUME ShippedTable, nets \in Windows, NEW a \in DOMAIN nets
    PROVE  /\ Class(a).modifier \in Nat /\ Class(a).modifier <= 18
           /\ a \notin OfType(HighRisk) => Class(a).modifier <= 14
<1>1. PICK S \in (SUBSET ASNs) \ {{}} : nets \in [S -> Net] BY DEF Windows
<1>2. Class(a) \in Classes BY <1>1 DEF Net, Class
<1>3. ASSUME NEW c \in Classes
      PROVE  /\ c.modifier \in Nat /\ c.modifier <= 18
             /\ c.type \notin HighRisk => c.modifier <= 14
  <2>1. CASE c.type \in Types /\ c.modifier = Modifier[c.type]
    BY <2>1, ScoringAssumption DEF ShippedTable
  <2>2. CASE c.modifier = 10 BY <2>2
  <2> QED BY <2>1, <2>2 DEF Classes
<1> QED BY <1>2, <1>3 DEF OfType

\* A sum over the providers, most of which are not high-risk.
LEMMA OrdinarySum ==
    ASSUME ShippedTable, nets \in Windows, ~ Dominated
    PROVE  Total([a \in DOMAIN nets |-> Class(a).modifier]) <= 16 * Size
<1> DEFINE D == DOMAIN nets
           H == OfType(HighRisk)
           f == [a \in D |-> Class(a).modifier]
           A == H \X (1..18)
           B == (D \ H) \X (1..14)
           P == UNION {{a} \X (1..f[a]) : a \in D}
<1>1. IsFiniteSet(D) /\ H \in SUBSET D BY WindowType DEF OfType
<1>2. IsFiniteSet(H) /\ IsFiniteSet(D \ H) BY <1>1, FS_Subset
<1>3. Cardinality(D \ H) = Cardinality(D) - Cardinality(H)
  <2>1. Cardinality(D \ H) = Cardinality(D) - Cardinality(D \cap H) BY <1>1, FS_Difference
  <2>2. D \cap H = H BY <1>1
  <2> QED BY <2>1, <2>2
<1>4. /\ IsFiniteSet(1..18) /\ Cardinality(1..18) = 18
      /\ IsFiniteSet(1..14) /\ Cardinality(1..14) = 14
  <2>1. ASSUME NEW n \in Nat PROVE IsFiniteSet(1..n) /\ Cardinality(1..n) = n
    <3>1. /\ IsFiniteSet(1..n)
          /\ Cardinality(1..n) = IF 1 > n THEN 0 ELSE n - 1 + 1
      BY FS_Interval
    <3> QED BY <3>1
  <2> QED BY <2>1
<1>5. /\ IsFiniteSet(A) /\ Cardinality(A) = Cardinality(H) * 18
      /\ IsFiniteSet(B) /\ Cardinality(B) = Cardinality(D \ H) * 14
  <2>1. IsFiniteSet(A) /\ Cardinality(A) = Cardinality(H) * Cardinality(1..18)
    BY <1>2, <1>4, FS_Product
  <2>2. IsFiniteSet(B) /\ Cardinality(B) = Cardinality(D \ H) * Cardinality(1..14)
    BY <1>2, <1>4, FS_Product
  <2> HIDE DEF A, B
  <2> QED BY <1>4, <2>1, <2>2
<1>6. P \in SUBSET (A \cup B)
  <2> SUFFICES ASSUME NEW a \in D, NEW i \in 1..f[a] PROVE <<a, i>> \in A \cup B
    OBVIOUS
  <2>1. /\ f[a] \in Nat /\ f[a] <= 18 /\ (a \notin H => f[a] <= 14)
    BY ClassModifiers
  <2>2. i \in 1..18 /\ (a \notin H => i \in 1..14) BY <2>1
  <2> QED BY <2>2
<1>7. IsFiniteSet(A \cup B) /\ Cardinality(A \cup B) <= Cardinality(A) + Cardinality(B)
  <2>1. /\ IsFiniteSet(A \cup B)
        /\ Cardinality(A \cup B) = Cardinality(A) + Cardinality(B) - Cardinality(A \cap B)
    BY <1>5, FS_Union
  <2>2. IsFiniteSet(A \cap B) BY <1>5, FS_Subset
  <2>3. Cardinality(A \cap B) \in Nat /\ Cardinality(A) \in Nat /\ Cardinality(B) \in Nat
    BY <1>5, <2>2, FS_CardinalityType
  <2> HIDE DEF A, B
  <2> QED BY <2>1, <2>3
<1>8. IsFiniteSet(P) /\ Cardinality(P) <= Cardinality(A \cup B) BY <1>6, <1>7, FS_Subset
<1>9. Total(f) = Cardinality(P) BY DEF Total
<1>10. /\ Cardinality(D) \in Nat /\ Cardinality(H) \in Nat /\ Cardinality(P) \in Nat
       /\ Cardinality(A \cup B) \in Nat
  BY <1>1, <1>2, <1>7, <1>8, FS_CardinalityType
<1>11. 2 * Cardinality(H) <= Cardinality(D) /\ Size = Cardinality(D)
  BY <1>10 DEF Dominated, Size
<1> HIDE DEF D, H, A, B, P
<1>12. Cardinality(P) <= 16 * Cardinality(D) BY <1>3, <1>5, <1>7, <1>8, <1>10, <1>11
<1> QED BY <1>9, <1>11, <1>12 DEF D

\* Without a majority of high-risk providers their feature gives less than 27 points.
LEMMA OrdinaryScore ==
    ASSUME ShippedTable, nets \in Windows, ~ Dominated
    PROVE  Weighted(ASNScore, 30) < 27 * Scale
<1> DEFINE sum == Total([a \in DOMAIN nets |-> Class(a).modifier])
           rise == (sum - 3 * Size) * ((20 * Scale) \div 3)
<1>1. sum \in Nat
  <2> [a \in DOMAIN nets |-> Class(a).modifier] \in [DOMAIN nets -> Nat] BY WindowType
  <2> QED BY WindowType, TotalType
<1>2. Size \in Nat \ {0} BY WindowType
<1>3. sum <= 16 * Size BY OrdinarySum
<1> HIDE DEF sum
<1>4. (20 * Scale) \div 3 \in Nat /\ 13 * ((20 * Scale) \div 3) <= 87 * Scale BY ScaleType
<1>5. rise \in Int /\ rise <= (87 * Scale) * Size
  <2> DEFINE k == (20 * Scale) \div 3
  <2>1. 87 * Scale \in Nat BY ScaleType
  <2> HIDE DEF k
  <2>2. k \in Nat /\ 13 * k <= 87 * Scale BY <1>4 DEF k
  <2>3. (sum - 3 * Size) * k <= (87 * Scale) * Size BY <1>1, <1>2, <1>3, <2>1, <2>2, RiseBound
  <2>4. (sum - 3 * Size) * k \in Int BY <1>1, <1>2, <2>2
  <2> QED BY <2>3, <2>4 DEF k
<1>6. ASNScore = Clamp(rise \div Size) BY DEF ASNScore, sum
<1> DEFINE quotient == rise \div Size
<1> HIDE DEF rise
<1>7. quotient \in Int /\ quotient <= 87 * Scale BY <1>2, <1>5, ScaleType, DivBound
<1> HIDE DEF quotient
<1>8. ASNScore = Clamp(quotient) BY <1>6 DEF quotient
<1>9. ASNScore \in 0..(87 * Scale) BY <1>7, <1>8, ScaleType, PointsAre DEF Clamp
<1>10. \A x \in 0..(87 * Scale) : (x * 30) \div 100 < 27 * Scale
  BY ScaleType, ScalePositive
<1>11. (ASNScore * 30) \div 100 < 27 * Scale BY <1>9, <1>10
<1> QED BY <1>11 DEF Weighted

\* Three countries, five cities and a long distance, or at most 50 points.
LEMMA FarSpread ==
    ASSUME GeoScore > 50
    PROVE  /\ Cardinality(Countries) >= 3 /\ Cardinality(Cities) >= 5
           /\ LongDistance /\ Cardinality(Agglomerations) # 1
<1> DEFINE countries == IF Cardinality(Countries) >= 3 THEN 30
                        ELSE IF Cardinality(Countries) = 2 THEN 15 ELSE 0
           within == IF Cardinality(Countries) = 1 /\ Cardinality(Cities) > 1 THEN 5 ELSE 0
           cities == IF Cardinality(Cities) >= 5 THEN 20 ELSE 0
           far == IF LongDistance THEN 10 ELSE 0
<1>1. /\ countries \in {0, 15, 30} /\ within \in {0, 5} /\ (within = 5 => countries # 30)
      /\ countries = 30 => Cardinality(Countries) >= 3
  <2>1. CASE Cardinality(Countries) = 1 BY <2>1
  <2>2. CASE Cardinality(Countries) # 1 BY <2>2
  <2> QED BY <2>1, <2>2
<1>2. /\ cities \in {0, 20} /\ (cities = 20 => Cardinality(Cities) >= 5)
      /\ far \in {0, 10} /\ (far = 10 => LongDistance)
  OBVIOUS
<1>3. GeoScore = IF Cardinality(Agglomerations) = 1 THEN 0
                 ELSE countries + within + cities + far
  BY DEF GeoScore
<1> HIDE DEF countries, within, cities, far
<1>4. Cardinality(Agglomerations) # 1 /\ countries + within + cities + far > 50 BY <1>3
<1>5. countries = 30 /\ cities = 20 /\ far = 10 BY <1>1, <1>2, <1>4
<1> QED BY <1>1, <1>2, <1>4, <1>5

\* A raw score of 75 leaves no feature weak: with one of the other three at its most,
\* the ASNs give 27 points, the geography 30 and the density 12.
LEMMA HighRaw ==
    ASSUME nets \in Windows, NEW d \in 0..Points(100), RawScore(d) >= Points(75)
    PROVE  /\ geo /\ Weighted(ASNScore, 30) >= 27 * Scale
           /\ GeoScore > 50
           /\ Weighted(d, 15) >= 12 * Scale
<1> DEFINE x == Weighted(ASNScore, 30)
           y == IF geo THEN Weighted(Points(GeoScore), 55) ELSE 0
           z == Weighted(d, 15)
<1>1. x \in 0..Points(30) BY ASNScoreType, WeightedType
<1>2. z \in 0..Points(15) BY WeightedType
<1>3. GeoScore \in 0..60 BY GeoScoreType
<1>4. Weighted(Points(GeoScore), 55) = (GeoScore * Scale * 55) \div 100
  BY <1>3 DEF Weighted, Points
<1>5. \A n \in 0..60 : /\ (n * Scale * 55) \div 100 \in 0..(33 * Scale)
                       /\ n <= 50 => (n * Scale * 55) \div 100 <= 28 * Scale
  <2> TAKE n \in 0..60
  <2>1. n * Scale \in 0..(60 * Scale) /\ (n <= 50 => n * Scale <= 50 * Scale) BY ScaleType
  <2>2. \A p \in 0..(60 * Scale) : (p * 55) \div 100 \in 0..(33 * Scale)
                                  /\ (p <= 50 * Scale => (p * 55) \div 100 <= 28 * Scale)
    BY ScaleType
  <2> QED BY <2>1, <2>2
<1>6. y \in 0..(33 * Scale) /\ (~ geo => y = 0) /\ (GeoScore <= 50 => y <= 28 * Scale)
  <2>1. 0 \in 0..(33 * Scale) /\ 0 <= 28 * Scale BY ScaleType
  <2> QED BY <1>3, <1>4, <1>5, <2>1
<1>7. RawScore(d) = x + y + z BY DEF RawScore
<1> HIDE DEF x, y, z
<1>8. x + y + z >= 75 * Scale BY <1>7 DEF Points
<1>9. x \in 0..(30 * Scale) /\ z \in 0..(15 * Scale) /\ Scale \in Nat /\ Scale > 0
  BY <1>1, <1>2, PointsAre, ScaleType, ScalePositive
<1>10. x >= 27 * Scale /\ z >= 12 * Scale /\ y >= 30 * Scale BY <1>6, <1>8, <1>9
<1>11. ~ (y <= 28 * Scale) /\ y # 0 BY <1>6, <1>9, <1>10
<1>12. geo /\ GeoScore > 50 BY <1>3, <1>6, <1>11
<1> QED BY <1>10, <1>12 DEF x, z

\* Neither modifier lifts a score to 75.
LEMMA HighModified ==
    ASSUME NEW raw \in 0..Points(78), Modified(raw) >= Points(75)
    PROVE  raw >= Points(75)
<1>1. raw \in 0..(78 * Scale) /\ Scale \in Nat /\ Scale > 0
  BY PointsAre, ScaleType, ScalePositive
<1>2. /\ Points(50) = 50 * Scale /\ Points(75) = 75 * Scale /\ Points(100) = 100 * Scale
  BY DEF Points
<1>3. (raw * 3) \div 5 \in 0..(47 * Scale)
  BY <1>1
<1> DEFINE final == IF Dominated /\ raw < Points(50) THEN Points(50)
                    ELSE IF MobileHome THEN (raw * 3) \div 5 ELSE raw
<1>4. final = raw \/ final \in 0..(50 * Scale) BY <1>1, <1>2, <1>3
<1>5. Modified(raw) = Clamp(final) BY DEF Modified
<1> HIDE DEF final
<1>6. final \in 0..(78 * Scale) BY <1>1, <1>4
<1>7. Clamp(final) = final BY <1>1, <1>2, <1>6 DEF Clamp
<1>8. ~ (final \in 0..(50 * Scale)) BY <1>1, <1>2, <1>5, <1>7
<1> QED BY <1>4, <1>5, <1>7, <1>8

\* Twenty addresses at the highest modifier give less than 80 points of density.
LEMMA HighDensity ==
    ASSUME ShippedTable, nets \in Windows, NEW a \in DOMAIN nets,
           Weighted(Density(a), 15) >= 12 * Scale
    PROVE  nets[a].ips > 20
<1> DEFINE n == nets[a].ips
           m == Class(a).modifier
<1>1. n \in Nat /\ m \in Nat /\ m <= 18 BY WindowType, ClassModifiers
<1>2. SUFFICES ASSUME n <= 20 PROVE FALSE BY <1>1
<1> HIDE DEF n, m
<1>3. n * m \in 0..360
  <2>1. \A i \in 0..20, j \in 0..18 : i * j \in 0..360
    <3> TAKE i \in 0..20, j \in 0..18
    <3>1. i * j <= 20 * j BY SMT
    <3> QED BY <3>1
  <2> QED BY <1>1, <1>2, <2>1
<1>4. Scale \in Nat /\ Scale > 0 /\ Scale \div 5 \in Nat /\ 5 * (Scale \div 5) = Scale
  BY DEF Scale
<1>5. n * m * (Scale \div 5) \in 0..(72 * Scale)
  <2> DEFINE k == Scale \div 5
             p == n * m
  <2>1. k \in Nat /\ p \in 0..360 /\ 5 * k = Scale BY <1>3, <1>4
  <2> HIDE DEF k, p
  <2>2. p * k \in Int /\ 0 <= p * k /\ p * k <= 360 * k BY <2>1
  <2>3. p * k \in 0..(72 * Scale) BY <2>1, <2>2
  <2> QED BY <2>3 DEF k, p
<1>6. Density(a) = Clamp(n * m * (Scale \div 5)) BY DEF Density, n, m
<1>7. Density(a) \in 0..(72 * Scale)
  <2> DEFINE r == n * m * (Scale \div 5)
  <2>1. r \in 0..(72 * Scale) BY <1>5
  <2> HIDE DEF r
  <2>2. Clamp(r) = r BY <1>4, <2>1, PointsAre DEF Clamp
  <2> QED BY <1>6, <2>1, <2>2 DEF r
<1>8. \A x \in 0..(72 * Scale) : (x * 15) \div 100 < 12 * Scale BY <1>4
<1>9. (Density(a) * 15) \div 100 < 12 * Scale BY <1>7, <1>8
<1> QED BY <1>4, <1>7, <1>9 DEF Weighted

\* What a result of 75 points or more says of the window.
LEMMA HighResult ==
    ASSUME ShippedTable, nets \in Windows, NEW d \in 0..Points(100), NEW c, Result(d, c),
           d = 0 \/ \E a \in Dense : d = Density(a),
           score' >= Points(75)
    PROVE  AllSignals
<1>1. RawScore(d) \in 0..Points(78) /\ Modified(RawScore(d)) >= Points(75)
  BY RawScoreType DEF Result
<1>2. RawScore(d) >= Points(75) BY <1>1, HighModified
<1>3. /\ geo /\ Weighted(ASNScore, 30) >= 27 * Scale
      /\ GeoScore > 50
      /\ Weighted(d, 15) >= 12 * Scale
  BY <1>2, HighRaw
<1>4. Dominated
  <2>1. Weighted(ASNScore, 30) \in Int /\ Scale \in Nat BY ASNScoreType, WeightedType, ScaleType
  <2>2. ~ (Weighted(ASNScore, 30) < 27 * Scale) BY <1>3, <2>1
  <2> QED BY <2>2, OrdinaryScore
<1>5. d # 0
  <2>1. Weighted(0, 15) = 0 BY DEF Weighted
  <2>2. ~ (0 >= 12 * Scale) BY DEF Scale
  <2> QED BY <1>3, <2>1, <2>2
<1>6. PICK a \in Dense : d = Density(a) BY <1>5
<1>7. nets[a].ips > 20 BY <1>3, <1>6, HighDensity DEF Dense
<1> QED BY <1>3, <1>4, <1>6, <1>7, FarSpread DEF AllSignals

LEMMA HighScoreStep ==
    ShippedTable /\ IInv /\ HighScoreExplained /\ [Next]_vars => HighScoreExplained'
<1> SUFFICES ASSUME ShippedTable, IInv, HighScoreExplained, [Next]_vars,
                    pc' # "input", score' >= Points(75)
             PROVE  AllSignals'
  BY DEF HighScoreExplained, Points, Scale
<1>1. UNCHANGED input => (AllSignals' <=> AllSignals)
  BY DEF input, AllSignals, Countries, Cities, Agglomerations, LongDistance, Dominated,
     OfType, Class, Size, Dense
<1>2. UNCHANGED input
  BY DEF Next, Calculate, ApplyEvidence, NoEvidence, Rest, vars, input
<1>3. CASE Calculate
  <2>1. nets \in Windows /\ 0 \in 0..Points(100)
    BY ScaleType, PointsAre DEF IInv, TypeOK
  <2>2. CASE Result(0, 80) BY <1>1, <1>2, <2>1, <2>2, HighResult
  <2>3. CASE \E a \in Densest : Result(Density(a), DensityConfidence(nets[a].ips))
    <3>1. PICK a \in Densest : Result(Density(a), DensityConfidence(nets[a].ips)) BY <2>3
    <3>2. a \in Dense /\ a \in DOMAIN nets BY DEF Densest, Dense
    <3>3. Density(a) \in 0..Points(100) BY <2>1, <3>2, DensityType
    <3>4. AllSignals BY <2>1, <3>1, <3>2, <3>3, HighResult
    <3> QED BY <1>1, <1>2, <3>4
  <2> QED BY <1>3, <2>2, <2>3 DEF Calculate
<1>4. ASSUME pc # "input", score' <= score PROVE AllSignals'
  <2>1. score \in Int /\ score' <= score /\ Points(75) \in Int
    BY <1>4, PointsAre DEF IInv, TypeOK
  <2>2. score' \in Int BY Step, PointsAre DEF IInv, TypeOK
  <2>3. score >= Points(75) BY <2>1, <2>2
  <2> QED BY <1>1, <1>2, <1>4, <2>3 DEF HighScoreExplained
<1>5. ASSUME NEW e \in Evidence, ApplyEvidence(e) PROVE AllSignals'
  <2>1. pc = "scored" BY <1>5 DEF ApplyEvidence
  <2>2. score \in Int BY PointsAre DEF IInv, TypeOK
  <2>3. score' \in 0..score BY <1>5, EvidenceStep
  <2> QED BY <1>4, <2>1, <2>2, <2>3
<1>6. CASE NoEvidence \/ UNCHANGED vars
  <2>1. score' = score /\ pc # "input" BY <1>6 DEF NoEvidence, vars
  <2>2. score \in Int BY PointsAre DEF IInv, TypeOK
  <2> QED BY <1>4, <2>1, <2>2
<1> QED BY <1>3, <1>5, <1>6 DEF Next, Rest

\* A block takes every signal at once, for every window, geography and evidence: with
\* modifiers and threshold like those shipped, three countries and five cities far
\* apart without one agglomeration, a majority of VPN and hosting providers, and more
\* than twenty addresses on one ASN.
THEOREM BlockIsEarned ==
    ASSUME ShippedTable
    PROVE  Spec => []BlockNeedsAllSignals
<1>1. Init => HighScoreExplained BY DEF Init, HighScoreExplained
<1>2. IInv /\ HighScoreExplained => BlockNeedsAllSignals
  <2> SUFFICES ASSUME IInv, HighScoreExplained, action \in Blocking PROVE AllSignals
    BY DEF BlockNeedsAllSignals, AllSignals
  <2>1. pc # "input" BY DEF IInv, Undecided, Blocking
  <2>2. action = ByThreshold(score) BY <2>1 DEF IInv, DowngradeUnused
  <2>3. ~ (score < Points(TempAt)) BY <2>2 DEF ByThreshold, Blocking
  <2>4. Points(TempAt) >= Points(75)
    <3>1. TempAt \in Int /\ TempAt >= 75 BY ScoringAssumption DEF ShippedTable
    <3> QED BY <3>1, ScaleType DEF Points
  <2>5. score \in Int /\ Points(TempAt) \in Int /\ Points(75) \in Int
    BY ScoringAssumption, PointsAre DEF IInv, TypeOK
  <2>6. score >= Points(75) BY <2>3, <2>4, <2>5
  <2> QED BY <2>1, <2>6 DEF HighScoreExplained
<1> QED BY <1>1, <1>2, Initially, Step, HighScoreStep, PTL DEF Spec
=============================================================================
