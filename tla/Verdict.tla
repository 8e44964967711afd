------------------------------- MODULE Verdict ------------------------------
(***************************************************************************)
(* How the MB3R exporter turns Sheaft's report into the figures and the    *)
(* verdict of the dashboard (src/mb3r/exporter/exporter.py:458-620): every *)
(* profile is reduced to the expected journeys, those that are unavailable *)
(* or absent count zero, and the policy is applied again.                  *)
(*                                                                         *)
(* Availabilities and thresholds are whole numbers, Full for 1.0; shares   *)
(* and means are compared without dividing.                                *)
(***************************************************************************)
EXTENDS Integers, FiniteSets, FiniteSetsExt

CONSTANTS
  Journeys,          \* the expected endpoints
  Weight,            \* their weights
  Full,
  EndpointThreshold, AggregateThreshold, CrossProfileThreshold,
  ProfileThreshold,  \* thresholds of some profiles, by name
  Mode               \* "warn" or "fail"

ASSUME PolicyAssumption ==
  /\ IsFiniteSet(Journeys) /\ Journeys # {}
  /\ Weight \in [Journeys -> Nat \ {0}]
  /\ Full \in Nat
  /\ EndpointThreshold \in 1 .. Full

\* What a profile says of an endpoint; a threshold of 0 stands for none.
Results == [availability : 0 .. Full, threshold : 0 .. Full]

\* A report gives each of its profiles, by name, results for some endpoints;
\* one without profiles may give results for all of them together.
Profiles(report) ==
  IF DOMAIN report.profiles # {} THEN report.profiles
  ELSE IF DOMAIN report.results # {} THEN [name \in {"default"} |-> report.results]
  ELSE report.profiles

Availability(results, unavailable, j) ==
  IF j \in DOMAIN results \ unavailable THEN results[j].availability ELSE 0

Threshold(results, j) ==
  IF j \in DOMAIN results /\ results[j].threshold # 0
  THEN results[j].threshold ELSE EndpointThreshold

BelowThreshold(results, unavailable) ==
  {j \in Journeys : Availability(results, unavailable, j) < Threshold(results, j)}

TotalWeight == MapThenSumSet(LAMBDA j : Weight[j], Journeys)

\* The weighted aggregate of a profile, times TotalWeight.
Aggregate(results, unavailable) ==
  MapThenSumSet(LAMBDA j : Weight[j] * Availability(results, unavailable, j), Journeys)

\* The mean of the aggregates is below a threshold.
PostureBelow(threshold, profiles, unavailable) ==
  MapThenSumSet(LAMBDA name : Aggregate(profiles[name], unavailable), DOMAIN profiles)
    < threshold * TotalWeight * Cardinality(DOMAIN profiles)

Below(threshold, results, unavailable) ==
  Aggregate(results, unavailable) < threshold * TotalWeight

SevereBreach(profiles, unavailable) ==
  \/ PostureBelow(AggregateThreshold, profiles, unavailable)
  \/ \E name \in DOMAIN profiles :
       \/ Below(AggregateThreshold, profiles[name], unavailable)
       \/ BelowThreshold(profiles[name], unavailable) # {}

ThresholdOf(name) ==
  IF name \in DOMAIN ProfileThreshold THEN ProfileThreshold[name] ELSE AggregateThreshold

MildBreach(profiles, unavailable) ==
  \/ PostureBelow(CrossProfileThreshold, profiles, unavailable)
  \/ \E name \in DOMAIN profiles : Below(ThresholdOf(name), profiles[name], unavailable)

\* modeled_decision; without profiles it is Sheaft's own.
Decision(profiles, unavailable, source) ==
  IF DOMAIN profiles = {} THEN source
  ELSE IF SevereBreach(profiles, unavailable) THEN "fail"
  ELSE IF MildBreach(profiles, unavailable) THEN (IF Mode = "warn" THEN "warn" ELSE "fail")
  ELSE "pass"
=============================================================================
