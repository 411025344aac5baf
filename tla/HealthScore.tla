---------------------------- MODULE HealthScore -----------------------------
(***************************************************************************)
(* The composite score of a table (internal/health/score.go, types.go)     *)
(* from the figures a scan collects (internal/scan/scan.go) under the      *)
(* thresholds of a policy (internal/policy/policy.go).  Between two scans  *)
(* the table is written to and maintained, and the policy file is edited.  *)
(***************************************************************************)
EXTENDS Naturals, FiniteSets, NewtonRoot

CONSTANTS
    Base,           \* health.Defaults(), scaled to small figures
    Policies,       \* the policies that may apply; 0 is a field not given
    FileSets,       \* the sets of data files a table may have, sizes in MB
    MaxFigure,      \* bound: the other figures are at most this
    PartitionSizes  \* the lists of partition sizes a table may have, in MB

MB == 1048576

ASSUME HealthAssumption ==
    /\ Base \in [{"minFileSize", "warnManifests", "critManifests", "warnAge", "critAge",
                 "warnSnapshots", "critSnapshots", "warnRatio", "critRatio"} -> Nat]
    /\ Policies \subseteq [{"minFileSize", "manifests", "age", "warnRatio", "critRatio"} -> Nat]
    /\ \A S \in FileSets : IsFiniteSet(S) /\ \A f \in S : f.size \in Nat
    /\ MaxFigure \in Nat
    /\ \A sizes \in PartitionSizes : sizes \in Seq(Nat)

VARIABLES
    files,   \* the live data files, each with its size
    rest,    \* the other figures of Stats
    policy   \* the policy of the table

healthVars == <<files, rest, policy>>

-----------------------------------------------------------------------------
(* Stats: the live files are counted in scanManifest, small ones apart.    *)

FilesBelow(limit) == Cardinality({f \in files : f.size < limit})
DataFileCount == Cardinality(files)

Stats ==
    [version |-> rest.version, deletes |-> rest.deletes, manifests |-> rest.manifests,
     age |-> rest.age, snapshots |-> rest.snapshots, partitions |-> rest.partitions,
     dataFiles |-> DataFileCount, small |-> FilesBelow(128)]

(* ApplyThresholds: what the policy gives replaces the default.            *)
Thresholds ==
    [minFileSize |-> IF policy.minFileSize > 0 THEN policy.minFileSize ELSE Base.minFileSize,
     warnManifests |-> IF policy.manifests > 0 THEN policy.manifests ELSE Base.warnManifests,
     critManifests |-> IF policy.manifests > 0 THEN policy.manifests * 2 ELSE Base.critManifests,
     warnAge |-> IF policy.age > 0 THEN policy.age ELSE Base.warnAge,
     critAge |-> IF policy.age > 0 THEN policy.age * 3 ELSE Base.critAge,
     warnSnapshots |-> Base.warnSnapshots,
     critSnapshots |-> Base.critSnapshots,
     warnRatio |-> IF policy.warnRatio > 0 THEN policy.warnRatio ELSE Base.warnRatio,
     critRatio |-> IF policy.critRatio > 0 THEN policy.critRatio ELSE Base.critRatio]

-----------------------------------------------------------------------------
(* The dimensions, each with its severity and score.  A definition         *)
(* preceded by a variant of its name: the variant is a slip that a         *)
(* property below would notice, and no action uses it.                     *)

Dimension(severity, score, max) == [severity |-> severity, score |-> score, max |-> max]

FileSize(s) ==
    LET Share(percent) == 100 * s.small >= percent * s.dataFiles
    IN  IF s.dataFiles = 0 THEN Dimension("OK", 20, 20)
        ELSE IF Share(50) THEN Dimension("CRITICAL", 8, 20)
        ELSE IF Share(25) THEN Dimension("WARNING", 12, 20)
        ELSE Dimension("OK", 20, 20)

(* The ratio in percent; v1 tables have no delete files.                   *)
NoDeletes(s) == s.version < 2 \/ s.deletes = 0 \/ s.dataFiles = 0
Ratio(s, percent) == 100 * s.deletes >= percent * s.dataFiles
DeleteAmplificationWarnFirst(s, t) ==
    IF NoDeletes(s) THEN Dimension("OK", 20, 20)
    ELSE IF Ratio(s, t.warnRatio) THEN Dimension("WARNING", 12, 20)
    ELSE IF Ratio(s, t.critRatio) THEN Dimension("CRITICAL", 6, 20)
    ELSE Dimension("OK", 20, 20)
DeleteAmplification(s, t) ==
    IF NoDeletes(s) THEN Dimension("OK", 20, 20)
    ELSE IF Ratio(s, t.critRatio) THEN Dimension("CRITICAL", 6, 20)
    ELSE IF Ratio(s, t.warnRatio) THEN Dimension("WARNING", 12, 20)
    ELSE Dimension("OK", 20, 20)

ManifestDensity(s, t) ==
    IF s.manifests >= t.critManifests THEN Dimension("CRITICAL", 5, 15)
    ELSE IF s.manifests >= t.warnManifests THEN Dimension("WARNING", 9, 15)
    ELSE Dimension("OK", 15, 15)

Snapshot(s, t) ==
    IF s.age >= t.critAge \/ s.snapshots >= t.critSnapshots THEN Dimension("CRITICAL", 5, 15)
    ELSE IF s.age >= t.warnAge \/ s.snapshots >= t.warnSnapshots THEN Dimension("WARNING", 10, 15)
    ELSE Dimension("OK", 15, 15)

(* cv is sqrtNonNeg of the variance over the mean, in bytes.               *)
PartitionSkewOfThree(s) ==
    IF Len(s.partitions) < 3 THEN Dimension("OK", 15, 15)
    ELSE IF CVAtLeast(s.partitions, MB, 1, 1) THEN Dimension("CRITICAL", 5, 15)
    ELSE IF CVAtLeast(s.partitions, MB, 1, 2) THEN Dimension("WARNING", 9, 15)
    ELSE Dimension("OK", 15, 15)
PartitionSkew(s) ==
    IF Len(s.partitions) < 2 THEN Dimension("OK", 15, 15)
    ELSE IF CVAtLeast(s.partitions, MB, 1, 1) THEN Dimension("CRITICAL", 5, 15)
    ELSE IF CVAtLeast(s.partitions, MB, 1, 2) THEN Dimension("WARNING", 9, 15)
    ELSE Dimension("OK", 15, 15)

FormatVersion(s) ==
    IF s.version \in {2, 3} THEN Dimension("OK", 5, 5) ELSE Dimension("INFO", 3, 5)

Rank(severity) ==
    CASE severity = "CRITICAL" -> 4 [] severity = "WARNING" -> 3
      [] severity = "INFO" -> 2 [] severity = "OK" -> 1

(* The sums of the six and the worst severity among them.                  *)
Composite(dims) ==
    LET Sum(field) == dims[1][field] + dims[2][field] + dims[3][field]
                         + dims[4][field] + dims[5][field] + dims[6][field]
        worst == CHOOSE i \in DOMAIN dims :
                    \A j \in DOMAIN dims : Rank(dims[j].severity) <= Rank(dims[i].severity)
    IN  [score |-> Sum("score"), max |-> Sum("max"), worst |-> dims[worst].severity]

(* The relaxed minimum of a streaming table reaches a summary text only.   *)
Score(s, t) ==
    Composite(<<FileSize(s), DeleteAmplification(s, t), ManifestDensity(s, t), Snapshot(s, t),
              PartitionSkew(s), FormatVersion(s)>>)

-----------------------------------------------------------------------------
(* External: what happens to a table and its policy between two scans.     *)

Figures ==
    [version : 1..3, deletes : 0..MaxFigure, manifests : 0..MaxFigure, age : 0..MaxFigure,
     snapshots : 0..MaxFigure, partitions : PartitionSizes]

(* A table just created, with no policy of its own.                        *)
NoPolicy == [minFileSize |-> 0, manifests |-> 0, age |-> 0, warnRatio |-> 0, critRatio |-> 0]
HealthInit ==
    /\ files = {}
    /\ rest = [version |-> 2, deletes |-> 0, manifests |-> 0, age |-> 0, snapshots |-> 0,
               partitions |-> <<>>]
    /\ policy = NoPolicy

WriteFiles(S) == files' = S /\ UNCHANGED <<rest, policy>>

Change(figure, value) ==
    /\ value # rest[figure]
    /\ rest' = [rest EXCEPT ![figure] = value]
    /\ UNCHANGED <<files, policy>>

EditPolicy(p) == policy' = p /\ UNCHANGED <<files, rest>>

Numbers == {"deletes", "manifests", "age", "snapshots"}
HealthNext ==
    \/ \E S \in FileSets : WriteFiles(S)
    \/ \E f \in Numbers, n \in 0..MaxFigure : Change(f, n)
    \/ \E n \in 1..3 : Change("version", n)
    \/ \E sizes \in PartitionSizes : Change("partitions", sizes)
    \/ \E p \in Policies : EditPolicy(p)

-----------------------------------------------------------------------------
(* Properties                                                              *)

Report == Score(Stats, Thresholds)

(* A table with more delete files, more manifests, older or more snapshots *)
(* and otherwise the same never scores better, nor does it get a better    *)
(* severity, under any policy: a CI gate is not passed by neglect.         *)
NoGainFromNeglect ==
    \A f \in Numbers :
        LET neglected == Score([Stats EXCEPT ![f] = @ + 1], Thresholds)
        IN  neglected.score <= Report.score /\ Rank(neglected.worst) >= Rank(Report.worst)

(* site/docs/concepts.html:134: partition_skew is CRITICAL at a            *)
(* coefficient of variation of 1.0, WARNING at 0.5.  No skewed table gets  *)
(* a better severity than that.                                            *)
SkewNeverMissed ==
    Len(rest.partitions) >= 2 =>
       /\ TrueCVAtLeast(rest.partitions, 1, 1) => PartitionSkew(Stats).severity = "CRITICAL"
       /\ TrueCVAtLeast(rest.partitions, 1, 2) => PartitionSkew(Stats).severity # "OK"
=============================================================================
