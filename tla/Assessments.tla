---------------------------- MODULE Assessments -----------------------------
(***************************************************************************)
(* What iceberg-sentry computes from the figures of one table without      *)
(* reading anything more: its write pattern, its health score and its cost *)
(* timeline.  They share no state: a behaviour is about one of them.       *)
(***************************************************************************)
EXTENDS WritePattern, HealthScore, CostTimeline

VARIABLE subject  \* which of them

vars == <<subject, patternVars, healthVars, timelineVars>>

Init ==
    /\ subject \in {"pattern", "health", "cost"}
    /\ PatternInit /\ HealthInit /\ TimelineInit

Next ==
    /\ UNCHANGED subject
    /\ \/ subject = "pattern" /\ PatternNext /\ UNCHANGED <<healthVars, timelineVars>>
       \/ subject = "health" /\ HealthNext /\ UNCHANGED <<patternVars, timelineVars>>
       \/ subject = "cost" /\ TimelineNext /\ UNCHANGED <<patternVars, healthVars>>

Spec == Init /\ [][Next]_vars
=============================================================================
