------------------------------ MODULE Analysis ------------------------------
(***************************************************************************)
(* kneepoint/analyze: what is concluded from a run's evidence.  The        *)
(* evidence grows by a level, a session or an attempt without usage at a   *)
(* time; the conclusions are operators on it: knee_report (knee.py), the   *)
(* three service level objectives (slo.py, analyze/slo.py) on resolution   *)
(* (resolution.py) and cost (cost.py).  A percentile is a member of a set, *)
(* levels are numbered in the order of their concurrency.                  *)
(***************************************************************************)
EXTENDS Integers, Sequences, FiniteSets, FiniteSetsExt

CONSTANTS
  Observations, \* [successful, p95] a level may have; p95 is 0 without success
  MinSamples,   \* min_samples
  Slo,          \* [p95, resolution, cost]: limits, the resolution in percent
  MaxLevels, MaxSessions \* bounds on the evidence

ASSUME EvidenceAssumption ==
  /\ \A o \in Observations : o.successful \in Nat /\ o.p95 \in Nat
  /\ MinSamples \in Nat /\ MaxLevels \in Nat /\ MaxSessions \in Nat
  /\ \A limit \in {"p95", "resolution", "cost"} : Slo[limit] \in Nat

VARIABLES
  stats,    \* the LevelStats, from the lowest level up
  seen,     \* aggregate's seen_contamination
  sessions, \* how many sessions have which verdict
  usage     \* every attempt reported its token usage

vars == <<stats, seen, sessions, usage>>

None == 0
Verdicts == {"resolved", "unresolved", "unjudged"}

Init ==
  /\ stats = <<>> /\ seen = FALSE
  /\ sessions = [v \in Verdicts |-> 0]
  /\ usage = TRUE

\* One turn of aggregate's loop.
\* Mutant: a level is contaminated by what it abandoned itself.
OwnContamination(disturbed) == disturbed
Contaminates(disturbed) == seen \/ disturbed

AggregateLevel ==
  /\ Len(stats) < MaxLevels
  /\ \E o \in Observations, disturbed \in BOOLEAN :
       /\ seen' = Contaminates(disturbed)
       /\ stats' = Append(stats, [successful |-> o.successful, p95 |-> o.p95,
                                  disturbed |-> disturbed, contaminated |-> seen'])
  /\ UNCHANGED <<sessions, usage>>

\* A session without a verdict is one the sampled judge failed for, or left out.
Judged == sessions["resolved"] + sessions["unresolved"]
EndSession ==
  /\ Judged + sessions["unjudged"] < MaxSessions
  /\ \E v \in Verdicts : sessions' = [sessions EXCEPT ![v] = @ + 1]
  /\ UNCHANGED <<stats, seen, usage>>

LoseUsage ==
  /\ usage /\ stats # <<>> /\ usage' = FALSE
  /\ UNCHANGED <<stats, seen, sessions>>

Next == AggregateLevel \/ EndSession \/ LoseUsage

Spec == Init /\ [][Next]_vars

-----------------------------------------------------------------------------
(* knee_report *)

LatencyEligible(level) == level.successful > 0 /\ level.successful >= MinSamples
Usable == {c \in DOMAIN stats : LatencyEligible(stats[c])}

\* Ineligible levels between the first and the last usable one.
Gaps == {c \in DOMAIN stats \ Usable : \E l, u \in Usable : l < c /\ c < u}

Floor == Min({stats[c].p95 : c \in Usable})
\* KNEE_RATIO, and CONFIDENCE_BAND around it.  Over a floor of 0 every ratio
\* is infinite.
Doubled == LET floor == Floor IN {c \in Usable : stats[c].p95 >= 2 * floor}
NearThreshold ==
  LET floor == Floor IN
  {c \in Usable : /\ floor > 0
                  /\ 170 * floor <= 100 * stats[c].p95 /\ 100 * stats[c].p95 <= 230 * floor}

\* _kneedle refuses the top of the ramp, whatever curvature the locator found.
Kneedle(curvature) == IF curvature = Max(Usable) THEN None ELSE curvature

\* _p95_doubling
Crossing == IF Doubled = {} THEN None ELSE Min(Doubled)

\* Every level the crossing may be at: those below it that nearly crossed
\* and, if it barely did itself, the next one.
\* Mutant: the level that crossed and none else.
CrossingAlone(knee) == {knee}
Candidates(knee) ==
  LET later == {c \in Usable : c > knee}
      near == NearThreshold IN
  {knee} \cup {c \in near : c < knee}
         \cup IF knee \in near /\ later # {} THEN {Min(later)} ELSE {}

Contaminated == {c \in DOMAIN stats : stats[c].contaminated}

NoKnee == [knee |-> None, low |-> None, high |-> None, lowerBound |-> FALSE,
           confidence |-> IF Usable # {} /\ NearThreshold # {} THEN "low" ELSE "none"]

\* knee_report, on what kneed's locator answers (external): a usable level
\* or none.
KneeReport(curvature) ==
  IF Cardinality(Usable) < 3 \/ Gaps # {} \/ Crossing = None THEN NoKnee
  ELSE LET low == Min(Candidates(Crossing))
           high == Max(Candidates(Crossing))
           disputed == Kneedle(curvature) \notin {None, Crossing}
           top == Crossing = Max(Usable)
       IN [knee |-> Crossing, low |-> low, high |-> high, lowerBound |-> top,
           confidence |-> IF low = high /\ ~disputed /\ ~top /\ Contaminated = {}
                          THEN "high" ELSE "low"]

\* find_knee: the low end of the range, for callers that size something by it.
FindKnee(curvature) == KneeReport(curvature).low

-----------------------------------------------------------------------------
(* evaluate_run_slo *)

Measured(passed) == IF passed THEN "pass" ELSE "fail"

\* A breach at an eligible level is one whatever the other levels lack; a
\* level that lacks samples leaves a pass unknown.
\* Mutant: thin levels are left out.
EligibleAlone ==
  IF Usable = {} THEN "unknown" ELSE Measured(\A c \in Usable : stats[c].p95 <= Slo.p95)
LatencyStatus ==
  IF \E c \in Usable : stats[c].p95 > Slo.p95 THEN "fail"
  ELSE IF stats = <<>> \/ Usable # DOMAIN stats THEN "unknown" ELSE "pass"

\* ResolutionSummary.slo_resolution: every recorded session has a verdict.
ResolutionStatus ==
  IF Judged = 0 \/ sessions["unjudged"] > 0 THEN "unknown"
  ELSE Measured(100 * sessions["resolved"] >= Slo.resolution * Judged)

\* incomplete_cost_note suppresses the summary; nothing resolved, no cost per
\* resolution.  A level's attempts cost 1.
CostStatus ==
  IF ~usage \/ sessions["resolved"] = 0 THEN "unknown"
  ELSE Measured(Len(stats) <= Slo.cost * sessions["resolved"])

NonPassing == {LatencyStatus, ResolutionStatus, CostStatus} # {"pass"}

-----------------------------------------------------------------------------
(* Properties *)

\* Where the crossing would be with another threshold, in percent.
CrossingAt(percent) ==
  LET floor == Floor
      reached == {c \in Usable : 100 * stats[c].p95 >= percent * floor}
  IN IF reached = {} THEN None ELSE Min(reached)

\* A knee is claimed only of a curve without holes, at the first level whose
\* p95 is twice the lowest; the one number callers size by is where the
\* crossing would be had run noise lowered the threshold by 15%; and a knee
\* of high confidence is the one at every threshold within 15%, with a level
\* above it to confirm it, with no contaminated level anywhere on the curve
\* (that is, none that abandoned work, and none after one) and not disputed.
KneeIsWarranted ==
  \A curvature \in Usable \cup {None} : LET r == KneeReport(curvature) IN
    /\ r.knee # None =>
         /\ Cardinality(Usable) >= 3
         /\ \A c \in Min(Usable)..Max(Usable) : LatencyEligible(stats[c])
         /\ r.knee = CrossingAt(200) /\ (Floor > 0 => FindKnee(curvature) = CrossingAt(170))
         /\ r.low <= r.knee /\ r.knee <= r.high
         /\ r.confidence = "high" =>
              /\ \A percent \in {170, 185, 200, 215, 230} : CrossingAt(percent) = r.knee
              /\ \E c \in Usable : c > r.knee
              /\ \A c \in DOMAIN stats : ~stats[c].disturbed
              /\ curvature \in {None, r.knee, Max(Usable)}
    /\ Contaminated = {c \in DOMAIN stats : \E d \in 1..c : stats[d].disturbed}

\* Evidence that is missing or bad is not made up for by more of it: a breach
\* of the latency objective stays one, and an objective that is unknown for
\* want of samples, of a verdict or of token usage never passes later.
LostEvidenceIsNotRegained ==
  [][/\ LatencyStatus = "fail" => LatencyStatus' = "fail"
     /\ LatencyStatus = "unknown" /\ stats # <<>> => LatencyStatus' # "pass"
     /\ sessions["unjudged"] > 0 => ResolutionStatus' = "unknown" /\ NonPassing'
     /\ ~usage => CostStatus' = "unknown" /\ NonPassing']_vars
=============================================================================
