--------------------------- MODULE MCAssessments ----------------------------
(* A small instance of Assessments for TLC.                                *)
EXTENDS Assessments

(* The defaults with counts and ages scaled to 1 and 2; sizes and ratios   *)
(* as they are.                                                            *)
MCBase ==
    [minFileSize |-> 128, warnManifests |-> 1, critManifests |-> 2, warnAge |-> 1, critAge |-> 2,
     warnSnapshots |-> 1, critSnapshots |-> 2, warnRatio |-> 10, critRatio |-> 25]

(* A policy with every field, and one for a raw zone whose warning is      *)
(* above the default's failure.                                            *)
MCPolicies ==
    {NoPolicy,
     [minFileSize |-> 32, manifests |-> 1, age |-> 1, warnRatio |-> 5, critRatio |-> 15],
     [NoPolicy EXCEPT !.warnRatio = 30]}

(* None, one or four files of 40 MB and of 256 MB each.                    *)
MCFileSets ==
    {{[size |-> 40, id |-> n] : n \in 1..a} \cup {[size |-> 256, id |-> n] : n \in 1..b} :
        a \in {0, 1, 4}, b \in {0, 1, 4}}

(* Unpartitioned, one partition, even, nearly even, skewed, very skewed.   *)
MCPartitionSizes == {<<>>, <<100>>, <<100, 100>>, <<100, 104>>, <<30, 90>>, <<1, 1, 90>>}

(* Ten seconds back, together and ten seconds on; 5 minutes, an hour, and  *)
(* ten seconds less than each, which alternate to a little spread.         *)
MCSteps == {-1, 0, 1, 29, 30, 359, 360}

(* In order, at the same instant, and with the clock of one writer behind. *)
MCTimeSteps == {-1, 0, 1}
=============================================================================
