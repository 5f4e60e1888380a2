--------------------------- MODULE AnalysisProofs ---------------------------
(***************************************************************************)
(* For any observations, thresholds and numbers of levels and sessions:    *)
(* what knee_report may claim of a curve (KneeIsWarranted), and that       *)
(* evidence once lost is not regained (LostEvidenceIsNotRegained).         *)
(***************************************************************************)
EXTENDS Analysis, FiniteSetTheorems, WellFoundedInduction, TLAPS

Less == {p \in Nat \X Nat : p[1] < p[2]}

LEMMA LessWellFounded == IsWellFoundedOn(Less, Nat)
BY Zenon, NatLessThanWellFounded DEF Less, OpToRel

\* The least and the greatest member, where there is one.
LEMMA MinOfNats ==
  ASSUME NEW S, S \subseteq Nat, S # {}
  PROVE  Min(S) \in S /\ \A y \in S : Min(S) <= y
<1>1. PICK x \in S : \A y \in S : ~(<<y, x>> \in Less)
  BY LessWellFounded, WFMin
<1>2. \A y \in S : ~(y < x)
  BY <1>1 DEF Less
<1>3. \A y \in S : x <= y
  BY <1>2
<1> QED
  BY <1>3 DEF Min

LEMMA MaxOfBounded ==
  ASSUME NEW n \in Nat, NEW S, S \subseteq 1..n, S # {}
  PROVE  Max(S) \in S /\ \A y \in S : Max(S) >= y
<1> DEFINE Bounds == {m \in Nat : \A y \in S : y <= m}
<1>1. Bounds \subseteq Nat /\ n \in Bounds
  OBVIOUS
<1>2. Min(Bounds) \in Bounds /\ \A m \in Bounds : Min(Bounds) <= m
  BY <1>1, MinOfNats
<1>3. PICK least \in Nat : (\A y \in S : y <= least) /\ \A m \in Bounds : least <= m
  BY <1>1, <1>2
<1>4. PICK z \in S : TRUE
  OBVIOUS
<1>5. least - 1 \in Nat
  BY <1>3, <1>4
<1>6. least - 1 \notin Bounds
  BY <1>3, <1>5
<1>7. PICK y \in S : ~(y <= least - 1)
  BY <1>5, <1>6
<1>8. \A w \in S : y >= w
  BY <1>3, <1>7
<1> QED
  BY <1>8 DEF Max

-----------------------------------------------------------------------------
(* The evidence *)

LevelType == [successful : Nat, p95 : Nat, disturbed : BOOLEAN, contaminated : BOOLEAN]

EvidenceOK ==
  /\ stats \in Seq(LevelType)
  /\ seen \in BOOLEAN /\ usage \in BOOLEAN
  /\ sessions \in [Verdicts -> Nat]

\* A level is contaminated if it or one before it was disturbed.
TaintOK ==
  /\ seen <=> \E d \in DOMAIN stats : stats[d].disturbed
  /\ \A c \in DOMAIN stats : stats[c].contaminated <=> \E d \in 1..c : stats[d].disturbed

AnalysisInv == EvidenceOK /\ TaintOK

\* What one turn of aggregate's loop adds.
LEMMA LevelAdded ==
  ASSUME EvidenceOK, AggregateLevel
  PROVE  /\ stats' \in Seq(LevelType) /\ Len(stats') = Len(stats) + 1
         /\ \A c \in 1..Len(stats) : stats'[c] = stats[c]
         /\ seen' = (seen \/ stats'[Len(stats) + 1].disturbed)
         /\ stats'[Len(stats) + 1].contaminated = seen'
<1>1. PICK o \in Observations, disturbed \in BOOLEAN :
        /\ seen' = Contaminates(disturbed)
        /\ stats' = Append(stats, [successful |-> o.successful, p95 |-> o.p95,
                                   disturbed |-> disturbed, contaminated |-> seen'])
  BY DEF AggregateLevel
<1> DEFINE level == [successful |-> o.successful, p95 |-> o.p95,
                     disturbed |-> disturbed, contaminated |-> seen']
<1>2. o.successful \in Nat /\ o.p95 \in Nat
  BY EvidenceAssumption
<1>3. seen' \in BOOLEAN /\ seen' = (seen \/ disturbed)
  BY <1>1 DEF EvidenceOK, Contaminates
<1>4. level \in LevelType /\ level.disturbed = disturbed /\ level.contaminated = seen'
  BY <1>2, <1>3 DEF LevelType
<1>5. stats' = Append(stats, level)
  BY <1>1
<1> HIDE DEF level
<1>6. /\ stats' \in Seq(LevelType) /\ Len(stats') = Len(stats) + 1
      /\ \A c \in 1..Len(stats) : stats'[c] = stats[c]
      /\ stats'[Len(stats) + 1] = level
  BY <1>4, <1>5 DEF EvidenceOK
<1> QED
  BY <1>3, <1>4, <1>6

LEMMA InitEvidence == Init => AnalysisInv
<1> SUFFICES ASSUME Init PROVE AnalysisInv
  OBVIOUS
<1>1. stats = <<>> /\ seen = FALSE /\ usage = TRUE /\ sessions = [v \in Verdicts |-> 0]
  BY DEF Init
<1>2. stats \in Seq(LevelType) /\ DOMAIN stats = {}
  BY <1>1
<1>3. EvidenceOK
  BY <1>1, <1>2 DEF EvidenceOK
<1>4. TaintOK
  BY <1>1, <1>2 DEF TaintOK
<1> QED
  BY <1>3, <1>4 DEF AnalysisInv

LEMMA NextEvidence == AnalysisInv /\ [Next]_vars => AnalysisInv'
<1> SUFFICES ASSUME AnalysisInv, [Next]_vars PROVE AnalysisInv'
  OBVIOUS
<1>1. CASE AggregateLevel
  <2>1. /\ stats' \in Seq(LevelType) /\ Len(stats') = Len(stats) + 1
        /\ \A c \in 1..Len(stats) : stats'[c] = stats[c]
        /\ seen' = (seen \/ stats'[Len(stats) + 1].disturbed)
        /\ stats'[Len(stats) + 1].contaminated = seen'
    BY <1>1, LevelAdded DEF AnalysisInv
  <2>2. Len(stats) \in Nat /\ DOMAIN stats = 1..Len(stats) /\ DOMAIN stats' = 1..(Len(stats) + 1)
    BY <2>1 DEF AnalysisInv, EvidenceOK
  <2>3. stats'[Len(stats) + 1] \in LevelType
    BY <2>1, <2>2
  <2>4. stats'[Len(stats) + 1].disturbed \in BOOLEAN
    BY <2>3 DEF LevelType
  <2>5. seen' <=> \E d \in 1..(Len(stats) + 1) : stats'[d].disturbed
    BY <2>1, <2>2, <2>4 DEF AnalysisInv, TaintOK, EvidenceOK
  <2>6. \A c \in 1..Len(stats) : stats'[c].contaminated <=> \E d \in 1..c : stats'[d].disturbed
    BY <2>1, <2>2 DEF AnalysisInv, TaintOK
  <2>7. TaintOK'
    BY <2>1, <2>2, <2>5, <2>6 DEF TaintOK
  <2>8. EvidenceOK'
    BY <1>1, <2>1, <2>4 DEF AggregateLevel, AnalysisInv, EvidenceOK
  <2> QED
    BY <2>7, <2>8 DEF AnalysisInv
<1>2. CASE EndSession
  BY <1>2 DEF EndSession, AnalysisInv, EvidenceOK, TaintOK, Verdicts
<1>3. CASE LoseUsage
  BY <1>3 DEF LoseUsage, AnalysisInv, EvidenceOK, TaintOK
<1>4. CASE UNCHANGED vars
  BY <1>4 DEF vars, AnalysisInv, EvidenceOK, TaintOK
<1> QED
  BY <1>1, <1>2, <1>3, <1>4 DEF Next

\* Contamination is passed on to every later level, for any number of levels.
THEOREM EvidenceInvariant == Spec => []AnalysisInv
<1>1. Init => AnalysisInv
  BY InitEvidence
<1>2. AnalysisInv /\ [Next]_vars => AnalysisInv'
  BY NextEvidence
<1> QED
  BY <1>1, <1>2, PTL DEF Spec

-----------------------------------------------------------------------------
(* Lost evidence *)

\* A level that is measured stays what it is, and so does one that is not.
LEMMA LevelsKept ==
  ASSUME AnalysisInv, [Next]_vars
  PROVE  \A c \in DOMAIN stats : c \in DOMAIN stats' /\ stats'[c] = stats[c]
<1>1. CASE AggregateLevel
  <2>1. /\ stats' \in Seq(LevelType) /\ Len(stats') = Len(stats) + 1
        /\ \A c \in 1..Len(stats) : stats'[c] = stats[c]
    BY <1>1, LevelAdded DEF AnalysisInv
  <2>2. Len(stats) \in Nat /\ DOMAIN stats = 1..Len(stats) /\ DOMAIN stats' = 1..(Len(stats) + 1)
    BY <2>1 DEF AnalysisInv, EvidenceOK
  <2> QED
    BY <2>1, <2>2
<1>2. CASE ~AggregateLevel
  BY <1>2 DEF Next, EndSession, LoseUsage, vars
<1> QED
  BY <1>1, <1>2

LEMMA LatencyKept ==
  ASSUME AnalysisInv, [Next]_vars
  PROVE  /\ LatencyStatus = "fail" => LatencyStatus' = "fail"
         /\ LatencyStatus = "unknown" /\ stats # <<>> => LatencyStatus' # "pass"
<1>1. \A c \in DOMAIN stats : c \in DOMAIN stats' /\ stats'[c] = stats[c]
  BY LevelsKept
<1>2. \A c \in DOMAIN stats : c \in Usable <=> c \in Usable'
  BY <1>1 DEF Usable, LatencyEligible
<1>3. Usable \subseteq DOMAIN stats
  BY DEF Usable
<1>4. ASSUME LatencyStatus = "fail" PROVE LatencyStatus' = "fail"
  <2>1. PICK c \in Usable : stats[c].p95 > Slo.p95
    BY <1>4 DEF LatencyStatus
  <2>2. c \in Usable' /\ stats'[c].p95 > Slo.p95
    BY <1>1, <1>2, <1>3, <2>1
  <2> QED
    BY <2>2 DEF LatencyStatus
<1>5. ASSUME LatencyStatus = "unknown", stats # <<>> PROVE LatencyStatus' # "pass"
  <2>1. PICK c \in DOMAIN stats : c \notin Usable
    BY <1>3, <1>5 DEF LatencyStatus
  <2>2. c \in DOMAIN stats' /\ c \notin Usable'
    BY <1>1, <1>2, <2>1
  <2> QED
    BY <2>2 DEF LatencyStatus
<1> QED
  BY <1>4, <1>5

LEMMA UnknownKept ==
  ASSUME AnalysisInv, [Next]_vars
  PROVE  /\ sessions["unjudged"] > 0 => ResolutionStatus' = "unknown"
         /\ ~usage => CostStatus' = "unknown"
<1>1. sessions["unjudged"] > 0 => sessions'["unjudged"] > 0
  BY DEF Next, AggregateLevel, EndSession, LoseUsage, vars, AnalysisInv, EvidenceOK, Verdicts
<1>2. ~usage => ~usage'
  BY DEF Next, AggregateLevel, EndSession, LoseUsage, vars
<1> QED
  BY <1>1, <1>2 DEF ResolutionStatus, CostStatus

\* The objectives of kneepoint/slo.py on any evidence: what was lost or
\* breached is not made up for by what comes later.
THEOREM LostEvidence == Spec => LostEvidenceIsNotRegained
<1> DEFINE Kept ==
      /\ LatencyStatus = "fail" => LatencyStatus' = "fail"
      /\ LatencyStatus = "unknown" /\ stats # <<>> => LatencyStatus' # "pass"
      /\ sessions["unjudged"] > 0 => ResolutionStatus' = "unknown" /\ NonPassing'
      /\ ~usage => CostStatus' = "unknown" /\ NonPassing'
<1>1. AnalysisInv /\ [Next]_vars => [Kept]_vars
  <2> SUFFICES ASSUME AnalysisInv, [Next]_vars PROVE Kept
    OBVIOUS
  <2>1. ResolutionStatus' = "unknown" \/ CostStatus' = "unknown" => NonPassing'
    BY DEF NonPassing
  <2> QED
    BY <2>1, LatencyKept, UnknownKept
<1> QED
  BY <1>1, EvidenceInvariant, PTL DEF Spec, LostEvidenceIsNotRegained

-----------------------------------------------------------------------------
(* The knee *)

\* What the levels of a curve are, and its floor.
LEMMA Curve ==
  ASSUME EvidenceOK
  PROVE  /\ Len(stats) \in Nat /\ DOMAIN stats = 1..Len(stats)
         /\ Usable \subseteq 1..Len(stats) /\ Usable \subseteq Nat
         /\ Cardinality(Usable) \in Nat
         /\ \A c \in Usable : stats[c].p95 \in Nat
         /\ Usable # {} => Floor \in Nat /\ \A c \in Usable : Floor <= stats[c].p95
<1>1. Len(stats) \in Nat /\ DOMAIN stats = 1..Len(stats)
  BY DEF EvidenceOK
<1>2. Usable \subseteq 1..Len(stats)
  BY <1>1 DEF Usable
<1>3. Cardinality(Usable) \in Nat
  <2>1. IsFiniteSet(1..Len(stats))
    BY <1>1, FS_Interval
  <2>2. IsFiniteSet(Usable)
    BY <1>2, <2>1, FS_Subset
  <2> QED
    BY <2>2, FS_CardinalityType
<1>4. \A c \in Usable : stats[c].p95 \in Nat
  <2>1. \A c \in 1..Len(stats) : stats[c] \in LevelType
    BY <1>1 DEF EvidenceOK
  <2> QED
    BY <1>2, <2>1 DEF LevelType
<1> DEFINE Measurements == {stats[c].p95 : c \in Usable}
<1>5. Measurements \subseteq Nat
  BY <1>4
<1>6. ASSUME Usable # {} PROVE Floor \in Nat /\ \A c \in Usable : Floor <= stats[c].p95
  <2>1. Measurements # {}
    BY <1>6
  <2>2. Min(Measurements) \in Measurements /\ \A y \in Measurements : Min(Measurements) <= y
    BY <1>5, <2>1, MinOfNats
  <2> QED
    BY <1>5, <2>2 DEF Floor
<1> QED
  BY <1>1, <1>2, <1>3, <1>4, <1>6

\* Where a curve reaches a threshold: at a usable level and at none before.
Reached(percent) == {c \in Usable : 100 * stats[c].p95 >= percent * Floor}

LEMMA CrossingIsFirst ==
  ASSUME EvidenceOK, NEW percent \in Nat, NEW c \in Usable,
         100 * stats[c].p95 >= percent * Floor
  PROVE  /\ CrossingAt(percent) \in Usable
         /\ 100 * stats[CrossingAt(percent)].p95 >= percent * Floor
         /\ \A d \in Usable : 100 * stats[d].p95 >= percent * Floor => CrossingAt(percent) <= d
<1>1. Reached(percent) # {} /\ Reached(percent) \subseteq Nat
  BY Curve DEF Reached
<1>2. CrossingAt(percent) = Min(Reached(percent))
  BY <1>1 DEF CrossingAt, Reached
<1>3. /\ Min(Reached(percent)) \in Reached(percent)
      /\ \A d \in Reached(percent) : Min(Reached(percent)) <= d
  BY <1>1, MinOfNats
<1> QED
  BY <1>2, <1>3 DEF Reached

\* It is the level that reaches it before every other.
LEMMA FirstIsCrossing ==
  ASSUME EvidenceOK, NEW percent \in Nat, NEW c \in Usable,
         100 * stats[c].p95 >= percent * Floor,
         \A d \in Usable : 100 * stats[d].p95 >= percent * Floor => c <= d
  PROVE  CrossingAt(percent) = c
<1>1. CrossingAt(percent) \in Usable /\ CrossingAt(percent) <= c /\ c <= CrossingAt(percent)
  BY CrossingIsFirst
<1> QED
  BY <1>1, Curve

\* The knee is the first level at twice the floor.
LEMMA KneeIsCrossing ==
  ASSUME EvidenceOK, Crossing # None
  PROVE  /\ Crossing \in Usable /\ stats[Crossing].p95 >= 2 * Floor
         /\ \A c \in Usable : stats[c].p95 >= 2 * Floor => Crossing <= c
<1>1. Doubled # {} /\ Doubled \subseteq Nat /\ Crossing = Min(Doubled)
  BY Curve DEF Crossing, Doubled
<1>2. Min(Doubled) \in Doubled /\ \A c \in Doubled : Min(Doubled) <= c
  BY <1>1, MinOfNats
<1> QED
  BY <1>1, <1>2 DEF Doubled

LEMMA Ends ==
  ASSUME EvidenceOK, Usable # {}
  PROVE  /\ Min(Usable) \in Usable /\ \A c \in Usable : Min(Usable) <= c
         /\ Max(Usable) \in Usable /\ \A c \in Usable : c <= Max(Usable)
<1>1. Usable \subseteq Nat
  BY Curve
<1>2. Min(Usable) \in Usable /\ \A c \in Usable : Min(Usable) <= c
  BY <1>1, MinOfNats
<1>3. Max(Usable) \in Usable /\ \A c \in Usable : Max(Usable) >= c
  BY Curve, MaxOfBounded
<1> QED
  BY <1>1, <1>2, <1>3

LEMMA NoHoles ==
  ASSUME EvidenceOK, Usable # {}, Gaps = {}
  PROVE  \A c \in Min(Usable)..Max(Usable) : LatencyEligible(stats[c])
<1> SUFFICES ASSUME NEW c \in Min(Usable)..Max(Usable) PROVE LatencyEligible(stats[c])
  OBVIOUS
<1>1. /\ Min(Usable) \in 1..Len(stats) /\ Max(Usable) \in 1..Len(stats)
      /\ Min(Usable) \in Usable /\ Max(Usable) \in Usable
      /\ Len(stats) \in Nat /\ DOMAIN stats = 1..Len(stats)
  BY Ends, Curve
<1>2. c \in DOMAIN stats /\ c \in Nat
  BY <1>1
<1>3. CASE c \in Usable
  BY <1>3 DEF Usable
<1>4. CASE c \notin Usable
  <2>1. Min(Usable) < c /\ c < Max(Usable)
    BY <1>1, <1>2, <1>4
  <2>2. c \in Gaps
    BY <1>1, <1>2, <1>4, <2>1 DEF Gaps
  <2> QED
    BY <2>2
<1> QED
  BY <1>3, <1>4

\* The range: its low end is where a threshold lower by 15% is reached.
LEMMA RangeOfKnee ==
  ASSUME EvidenceOK, Crossing # None
  PROVE  LET knee == Crossing  low == Min(Candidates(Crossing))
             high == Max(Candidates(Crossing)) IN
         /\ Candidates(knee) \subseteq Usable /\ knee \in Candidates(knee)
         /\ low \in Candidates(knee) /\ low <= knee /\ knee <= high
         /\ \A c \in Candidates(knee) : low <= c /\ c <= high
<1> DEFINE later == {c \in Usable : c > Crossing}
<1>1. /\ Crossing \in Usable /\ Crossing \in Nat /\ Len(stats) \in Nat
      /\ Usable \subseteq 1..Len(stats) /\ Usable \subseteq Nat
  BY KneeIsCrossing, Curve
<1>2. later # {} => Min(later) \in later
  <2>1. later \subseteq Nat
    BY <1>1
  <2> QED
    BY <2>1, MinOfNats
<1>3. Candidates(Crossing) \subseteq Usable /\ Crossing \in Candidates(Crossing)
  BY <1>1, <1>2 DEF Candidates, NearThreshold
<1>4. Candidates(Crossing) # {} /\ Candidates(Crossing) \subseteq Nat
      /\ Candidates(Crossing) \subseteq 1..Len(stats)
  BY <1>1, <1>3
<1>5. /\ Min(Candidates(Crossing)) \in Candidates(Crossing)
      /\ \A c \in Candidates(Crossing) : Min(Candidates(Crossing)) <= c
  BY <1>4, MinOfNats
<1>6. /\ Max(Candidates(Crossing)) \in Candidates(Crossing)
      /\ \A c \in Candidates(Crossing) : Max(Candidates(Crossing)) >= c
  BY <1>1, <1>4, MaxOfBounded
<1> QED
  BY <1>3, <1>4, <1>5, <1>6

LEMMA LowEnd ==
  ASSUME EvidenceOK, Crossing # None, Floor > 0
  PROVE  Min(Candidates(Crossing)) = CrossingAt(170)
<1> DEFINE low == Min(Candidates(Crossing))
<1>1. /\ Crossing \in Usable /\ stats[Crossing].p95 >= 2 * Floor
      /\ \A c \in Usable : stats[c].p95 >= 2 * Floor => Crossing <= c
  BY KneeIsCrossing
<1>2. /\ Usable \subseteq Nat /\ Crossing \in Nat /\ Floor \in Nat
      /\ \A c \in Usable : stats[c].p95 \in Nat
  BY <1>1, Curve
<1>3. /\ Candidates(Crossing) \subseteq Usable /\ low \in Candidates(Crossing)
      /\ low \in Nat /\ low <= Crossing /\ \A c \in Candidates(Crossing) : low <= c
  BY <1>2, RangeOfKnee
<1> HIDE DEF low
<1>4. low \in Usable /\ 100 * stats[low].p95 >= 170 * Floor
  <2>1. CASE low = Crossing
    BY <1>1, <1>2, <2>1
  <2>2. CASE low < Crossing
    <3>1. low \in NearThreshold
      <4> DEFINE later == {c \in Usable : c > Crossing}
      <4>1. later \subseteq Nat /\ \A c \in later : c > Crossing
        BY <1>2
      <4>2. later # {} => Min(later) \in later
        BY <4>1, MinOfNats
      <4>3. \/ low = Crossing
            \/ low \in {c \in NearThreshold : c < Crossing}
            \/ low \in IF Crossing \in NearThreshold /\ later # {} THEN {Min(later)} ELSE {}
        BY <1>3 DEF Candidates
      <4> QED
        BY <1>1, <1>2, <2>2, <4>1, <4>2, <4>3
    <3> QED
      BY <3>1 DEF NearThreshold
  <2> QED
    BY <1>1, <1>2, <1>3, <2>1, <2>2
<1>5. ASSUME NEW d \in Usable, 100 * stats[d].p95 >= 170 * Floor PROVE low <= d
  <2>1. CASE d >= Crossing
    BY <1>1, <1>2, <1>3, <2>1
  <2>2. CASE d < Crossing
    <3>1. ~(stats[d].p95 >= 2 * Floor)
      BY <1>1, <1>2, <2>2
    <3>2. 100 * stats[d].p95 <= 230 * Floor
      BY <1>2, <3>1
    <3>3. d \in Candidates(Crossing)
      BY <1>5, <2>2, <3>2 DEF Candidates, NearThreshold
    <3> QED
      BY <1>3, <3>3
  <2> QED
    BY <1>1, <1>2, <2>1, <2>2
<1>6. CrossingAt(170) = low
  BY <1>4, <1>5, FirstIsCrossing
<1> QED
  BY <1>6 DEF low

\* A range of one level below the top: the knee at any threshold within 15%.
LEMMA OneCandidate ==
  ASSUME EvidenceOK, Crossing # None, Crossing # Max(Usable),
         Min(Candidates(Crossing)) = Max(Candidates(Crossing)),
         NEW percent \in {170, 185, 200, 215, 230}
  PROVE  CrossingAt(percent) = Crossing
<1>1. /\ Crossing \in Usable /\ stats[Crossing].p95 >= 2 * Floor
      /\ \A c \in Usable : stats[c].p95 >= 2 * Floor => Crossing <= c
  BY KneeIsCrossing
<1>2. /\ Usable \subseteq Nat /\ Crossing \in Nat /\ Floor \in Nat
      /\ \A c \in Usable : stats[c].p95 \in Nat
  BY <1>1, Curve
<1>3. \A c \in Candidates(Crossing) : c = Crossing
  <2> SUFFICES ASSUME NEW c \in Candidates(Crossing) PROVE c = Crossing
    OBVIOUS
  <2>1. /\ Candidates(Crossing) \subseteq Usable /\ Crossing \in Candidates(Crossing)
        /\ \A d \in Candidates(Crossing) : /\ Min(Candidates(Crossing)) <= d
                                          /\ d <= Max(Candidates(Crossing))
        /\ Min(Candidates(Crossing)) \in Candidates(Crossing)
    BY RangeOfKnee
  <2>2. c \in Nat /\ Min(Candidates(Crossing)) \in Nat
    BY <1>2, <2>1
  <2> QED
    BY <1>2, <2>1, <2>2
<1>4. CASE Floor = 0
  <2>1. \A c \in Usable : Crossing <= c
    BY <1>1, <1>2, <1>4
  <2> QED
    BY <1>1, <1>2, <1>4, <2>1, FirstIsCrossing
<1>5. CASE Floor > 0
  <2> DEFINE later == {c \in Usable : c > Crossing}
  <2>1. later # {} /\ later \subseteq Nat
    <3>1. Max(Usable) \in Usable /\ Crossing <= Max(Usable)
      BY <1>1, Ends
    <3>2. Max(Usable) \in Nat
      BY <1>2, <3>1
    <3>3. Max(Usable) > Crossing
      BY <1>2, <3>1, <3>2
    <3> QED
      BY <1>2, <3>1, <3>3
  <2>2. Min(later) \in later
    BY <2>1, MinOfNats
  <2>3. Crossing \notin NearThreshold
    <3>1. ASSUME Crossing \in NearThreshold PROVE Min(later) \in Candidates(Crossing)
      BY <2>1, <3>1 DEF Candidates
    <3> QED
      BY <1>1, <1>2, <1>3, <2>2, <3>1
  <2>4. 100 * stats[Crossing].p95 > 230 * Floor
    BY <1>1, <1>2, <1>5, <2>3 DEF NearThreshold
  <2>5. ASSUME NEW d \in Usable, 100 * stats[d].p95 >= percent * Floor PROVE Crossing <= d
    <3>1. SUFFICES ASSUME d < Crossing PROVE FALSE
      BY <1>1, <1>2
    <3>2. ~(stats[d].p95 >= 2 * Floor)
      BY <1>1, <1>2, <3>1
    <3>3. 170 * Floor <= percent * Floor
      BY <1>2
    <3>4. 170 * Floor <= 100 * stats[d].p95 /\ 100 * stats[d].p95 <= 230 * Floor
      BY <1>2, <2>5, <3>2, <3>3
    <3>5. d \in Candidates(Crossing)
      BY <1>5, <3>1, <3>4 DEF Candidates, NearThreshold
    <3> QED
      BY <1>1, <1>2, <1>3, <3>1, <3>5
  <2>6. 100 * stats[Crossing].p95 >= percent * Floor
    BY <1>1, <1>2, <2>4
  <2> QED
    BY <1>1, <2>5, <2>6, FirstIsCrossing
<1> QED
  BY <1>1, <1>2, <1>4, <1>5

LEMMA NoContamination ==
  ASSUME EvidenceOK, TaintOK
  PROVE  Contaminated = {c \in DOMAIN stats : \E d \in 1..c : stats[d].disturbed}
BY DEF TaintOK, Contaminated

\* What knee_report claims, claim by claim.
LEMMA KneeReported ==
  ASSUME EvidenceOK, NEW curvature, KneeReport(curvature).knee # None
  PROVE  LET r == KneeReport(curvature) IN
         /\ Cardinality(Usable) >= 3 /\ Gaps = {} /\ Crossing # None
         /\ r.knee = Crossing
         /\ r.low = Min(Candidates(Crossing)) /\ r.high = Max(Candidates(Crossing))
         /\ r.confidence = "high" =>
              /\ r.low = r.high /\ Crossing # Max(Usable) /\ Contaminated = {}
              /\ Kneedle(curvature) \in {None, Crossing}
<1>1. NoKnee.knee = None
  BY DEF NoKnee
<1>2. ~(Cardinality(Usable) < 3 \/ Gaps # {} \/ Crossing = None)
  BY <1>1 DEF KneeReport
<1>3. Cardinality(Usable) >= 3
  BY <1>2, Curve
<1> QED
  BY <1>2, <1>3 DEF KneeReport

\* Whatever is seen of a curve, and whatever the locator says of it.
LEMMA Warranted ==
  ASSUME AnalysisInv
  PROVE  KneeIsWarranted
<1>1. EvidenceOK /\ Contaminated = {c \in DOMAIN stats : \E d \in 1..c : stats[d].disturbed}
  BY NoContamination DEF AnalysisInv
<1>2. ASSUME NEW curvature \in Usable \cup {None}, KneeReport(curvature).knee # None
      PROVE  LET r == KneeReport(curvature) IN
             /\ Cardinality(Usable) >= 3
             /\ \A c \in Min(Usable)..Max(Usable) : LatencyEligible(stats[c])
             /\ r.knee = CrossingAt(200) /\ (Floor > 0 => FindKnee(curvature) = CrossingAt(170))
             /\ r.low <= r.knee /\ r.knee <= r.high
             /\ r.confidence = "high" =>
                  /\ \A percent \in {170, 185, 200, 215, 230} : CrossingAt(percent) = r.knee
                  /\ \E c \in Usable : c > r.knee
                  /\ \A c \in DOMAIN stats : ~stats[c].disturbed
                  /\ curvature \in {None, r.knee, Max(Usable)}
  <2> DEFINE r == KneeReport(curvature)
  <2>1. /\ Cardinality(Usable) >= 3 /\ Gaps = {} /\ Crossing # None
        /\ r.knee = Crossing
        /\ r.low = Min(Candidates(Crossing)) /\ r.high = Max(Candidates(Crossing))
        /\ r.confidence = "high" =>
             /\ r.low = r.high /\ Crossing # Max(Usable) /\ Contaminated = {}
             /\ Kneedle(curvature) \in {None, Crossing}
    BY <1>1, <1>2, KneeReported
  <2>2. FindKnee(curvature) = r.low
    BY DEF FindKnee
  <2> HIDE DEF r
  <2>3. /\ Crossing \in Usable /\ stats[Crossing].p95 >= 2 * Floor
        /\ \A c \in Usable : stats[c].p95 >= 2 * Floor => Crossing <= c
    BY <1>1, <2>1, KneeIsCrossing
  <2>4. /\ Usable \subseteq Nat /\ Crossing \in Nat /\ Floor \in Nat /\ Len(stats) \in Nat
        /\ DOMAIN stats = 1..Len(stats) /\ \A c \in Usable : stats[c].p95 \in Nat
    BY <1>1, <2>3, Curve
  <2>5. \A c \in Min(Usable)..Max(Usable) : LatencyEligible(stats[c])
    BY <1>1, <2>1, <2>3, NoHoles
  <2>6. CrossingAt(200) = Crossing
    <3>1. 100 * stats[Crossing].p95 >= 200 * Floor
      BY <2>3, <2>4
    <3>2. \A c \in Usable : 100 * stats[c].p95 >= 200 * Floor => Crossing <= c
      BY <2>3, <2>4
    <3> QED
      BY <1>1, <2>3, <3>1, <3>2, FirstIsCrossing
  <2>7. Floor > 0 => FindKnee(curvature) = CrossingAt(170)
    BY <1>1, <2>1, <2>2, LowEnd
  <2>8. r.low <= r.knee /\ r.knee <= r.high
    BY <1>1, <2>1, RangeOfKnee
  <2>9. ASSUME r.confidence = "high"
        PROVE  /\ \A percent \in {170, 185, 200, 215, 230} : CrossingAt(percent) = r.knee
               /\ \E c \in Usable : c > r.knee
               /\ \A c \in DOMAIN stats : ~stats[c].disturbed
               /\ curvature \in {None, r.knee, Max(Usable)}
    <3>1. /\ Min(Candidates(Crossing)) = Max(Candidates(Crossing)) /\ Contaminated = {}
          /\ Crossing # Max(Usable) /\ Kneedle(curvature) \in {None, Crossing}
      BY <2>1, <2>9
    <3>2. \A percent \in {170, 185, 200, 215, 230} : CrossingAt(percent) = r.knee
      BY <1>1, <2>1, <3>1, OneCandidate
    <3>3. \E c \in Usable : c > r.knee
      <4>1. Max(Usable) \in Usable /\ Crossing <= Max(Usable)
        BY <1>1, <2>3, Ends
      <4>2. Max(Usable) \in Nat
        BY <2>4, <4>1
      <4>3. Max(Usable) > Crossing
        BY <2>4, <3>1, <4>1, <4>2
      <4> QED
        BY <2>1, <4>1, <4>3
    <3>4. \A c \in DOMAIN stats : ~stats[c].disturbed
      <4> SUFFICES ASSUME NEW c \in DOMAIN stats, stats[c].disturbed PROVE FALSE
        OBVIOUS
      <4>1. c \in Contaminated
        BY <1>1, <2>4
      <4> QED
        BY <3>1, <4>1
    <3>5. curvature \in {None, r.knee, Max(Usable)}
      BY <2>1, <3>1 DEF Kneedle
    <3> QED
      BY <3>2, <3>3, <3>4, <3>5
  <2> QED
    BY <2>1, <2>5, <2>6, <2>7, <2>8, <2>9 DEF r
<1> QED
  BY <1>1, <1>2 DEF KneeIsWarranted

\* The knee report of kneepoint/analyze/knee.py on any curve: what it may
\* claim, with what confidence, and which number to size by.
THEOREM KneeWarranted == Spec => []KneeIsWarranted
<1>1. AnalysisInv => KneeIsWarranted
  BY Warranted
<1> QED
  BY <1>1, EvidenceInvariant, PTL
=============================================================================
