-------------------------- MODULE AssessmentsProofs -------------------------
(***************************************************************************)
(* What holds of the health score, the cost timeline and the window of the *)
(* write pattern for every policy, every figure and every history.         *)
(***************************************************************************)
EXTENDS Assessments, FiniteSetTheorems, SequenceTheorems, WellFoundedInduction,
        TLAPS

(* A set of naturals has a least element.                                  *)
LEMMA LeastNatural ==
    ASSUME NEW T \in SUBSET Nat, T # {}
    PROVE  \E x \in T : \A y \in T : x <= y
  <1>1. PICK x \in T : \A y \in T : ~ (<<y, x>> \in OpToRel(<, Nat))
    BY NatLessThanWellFounded, WFMin
  <1>2. \A y \in T : ~ (y < x)
    BY <1>1 DEF OpToRel
  <1>3. QED
    BY <1>2

(* Induction along a range, for a set that is given.                       *)
LEMMA Upwards ==
    ASSUME NEW n \in Nat, NEW T, 0 \in T, \A k \in 1..n : k - 1 \in T => k \in T
    PROVE  0..n \subseteq T
  <1> DEFINE bad == {k \in 0..n : k \notin T}
  <1> SUFFICES ASSUME bad # {}
               PROVE  FALSE
    OBVIOUS
  <1>1. PICK x \in bad : \A y \in bad : x <= y
    <2>1. bad \in SUBSET Nat
      OBVIOUS
    <2>2. QED
      BY <2>1, LeastNatural
  <1>2. x \in 1..n
    BY <1>1
  <1>3. x - 1 \in 0..n /\ ~ (x <= x - 1)
    BY <1>2
  <1>4. x - 1 \in T
    BY <1>1, <1>3
  <1>5. QED
    BY <1>1, <1>2, <1>4

(* A loop over a range has a result: the values of its one variable before *)
(* the first and after every turn are a function.                          *)
Runs(f, S, start, n, turn) ==
    f \in [0..n -> S] /\ f[0] = start /\ \A k \in 1..n : f[k] = turn[k][f[k - 1]]

LEMMA LoopExists ==
    ASSUME NEW S, NEW start \in S, NEW n \in Nat, NEW turn \in [1..n -> [S -> S]]
    PROVE  \E f : Runs(f, S, start, n, turn)
  <1> DEFINE Upto(m, f) == f[0] = start /\ \A k \in 1..m : f[k] = turn[k][f[k - 1]]
             T == {m \in 0..n : \E f \in [0..n -> S] : Upto(m, f)}
  <1>1. 0 \in T
    <2>1. [k \in 0..n |-> start] \in [0..n -> S] /\ Upto(0, [k \in 0..n |-> start])
      OBVIOUS
    <2>2. 0 \in 0..n
      OBVIOUS
    <2>3. QED
      BY <2>1, <2>2
  <1>2. ASSUME NEW m \in 1..n, m - 1 \in T
        PROVE  m \in T
    <2>1. PICK f \in [0..n -> S] : Upto(m - 1, f)
      BY <1>2
    <2> DEFINE g == [f EXCEPT ![m] = turn[m][f[m - 1]]]
    <2>2. turn[m][f[m - 1]] \in S
      <3>1. m - 1 \in 0..n
        OBVIOUS
      <3>2. f[m - 1] \in S
        BY <2>1, <3>1
      <3>3. turn[m] \in [S -> S]
        OBVIOUS
      <3>4. QED
        BY <3>2, <3>3
    <2>3. g \in [0..n -> S] /\ g[m] = turn[m][f[m - 1]]
      <3>1. m \in 0..n
        OBVIOUS
      <3>2. QED
        BY <2>1, <2>2, <3>1
    <2>4. \A k \in 0..n : k # m => g[k] = f[k]
      BY <2>1
    <2>5. Upto(m, g)
      <3>1. g[0] = start
        BY <2>1, <2>4
      <3>2. ASSUME NEW k \in 1..m
            PROVE  g[k] = turn[k][g[k - 1]]
        <4>1. k - 1 # m /\ k - 1 \in 0..n
          OBVIOUS
        <4>2. CASE k = m
          BY <2>3, <2>4, <4>1, <4>2
        <4>3. CASE k # m
          <5>1. k \in 1..(m - 1) /\ k \in 0..n
            BY <4>3
          <5>2. f[k] = turn[k][f[k - 1]]
            BY <2>1, <5>1
          <5>3. QED
            BY <2>4, <4>1, <4>3, <5>1, <5>2
        <4>4. QED
          BY <4>2, <4>3
      <3>3. QED
        BY <3>1, <3>2
    <2>6. m \in 0..n
      OBVIOUS
    <2> HIDE DEF g, Upto
    <2>7. QED
      BY <2>3, <2>5, <2>6
  <1>3. n \in T
    <2> HIDE DEF T
    <2>1. 0..n \subseteq T
      BY <1>1, <1>2, Upwards
    <2>2. QED
      BY <2>1
  <1>4. QED
    BY <1>3 DEF Runs

-----------------------------------------------------------------------------
(* The health score: the figures are numbers, so are those of the policy.  *)

HealthInv ==
    /\ files \in FileSets \cup {{}}
    /\ rest \in [version : Nat, deletes : Nat, manifests : Nat, age : Nat, snapshots : Nat,
                 partitions : PartitionSizes \cup {<<>>}]
    /\ policy \in [{"minFileSize", "manifests", "age", "warnRatio", "critRatio"} -> Nat]

LEMMA HealthInvInit == HealthInit => HealthInv
  <1>1. SUFFICES ASSUME HealthInit
                 PROVE  HealthInv
    OBVIOUS
  <1>2. NoPolicy \in [{"minFileSize", "manifests", "age", "warnRatio", "critRatio"} -> Nat]
    BY DEF NoPolicy
  <1>3. QED
    BY <1>1, <1>2 DEF HealthInit, HealthInv

LEMMA HealthInvStep == HealthInv /\ HealthNext => HealthInv'
  <1>1. SUFFICES ASSUME HealthInv, HealthNext
                 PROVE  HealthInv'
    OBVIOUS
  <1>2. CASE \E S \in FileSets : WriteFiles(S)
    BY <1>1, <1>2 DEF WriteFiles, HealthInv
  <1>3. CASE \E f \in Numbers, n \in 0..MaxFigure : Change(f, n)
    <2>1. PICK f \in Numbers, n \in 0..MaxFigure : Change(f, n)
      BY <1>3
    <2>2. rest' \in [version : Nat, deletes : Nat, manifests : Nat, age : Nat, snapshots : Nat,
                     partitions : PartitionSizes \cup {<<>>}]
      <3>1. n \in Nat
        BY HealthAssumption
      <3>2. f \in {"deletes", "manifests", "age", "snapshots"}
        BY DEF Numbers
      <3>3. QED
        BY <1>1, <2>1, <3>1, <3>2 DEF Change, HealthInv
    <2>3. QED
      BY <1>1, <2>1, <2>2 DEF Change, HealthInv
  <1>4. CASE \E n \in 1..3 : Change("version", n)
    BY <1>1, <1>4 DEF Change, HealthInv
  <1>5. CASE \E sizes \in PartitionSizes : Change("partitions", sizes)
    BY <1>1, <1>5 DEF Change, HealthInv
  <1>6. CASE \E p \in Policies : EditPolicy(p)
    BY <1>1, <1>6, HealthAssumption DEF EditPolicy, HealthInv
  <1>7. QED
    BY <1>1, <1>2, <1>3, <1>4, <1>5, <1>6 DEF HealthNext

(* The counts of files are numbers.                                        *)
LEMMA CountsAreNumbers ==
    ASSUME HealthInv
    PROVE  DataFileCount \in Nat /\ FilesBelow(128) \in Nat
  <1>1. IsFiniteSet(files)
    BY FS_EmptySet, HealthAssumption DEF HealthInv
  <1>2. {f \in files : f.size < 128} \subseteq files
    OBVIOUS
  <1>3. IsFiniteSet({f \in files : f.size < 128})
    BY <1>1, <1>2, FS_Subset
  <1>4. QED
    BY <1>1, <1>3, FS_CardinalityType DEF DataFileCount, FilesBelow

(* What a table looks like to the score, and what the limits are.          *)
StatsType ==
    [version : Nat, deletes : Nat, manifests : Nat, age : Nat, snapshots : Nat,
     partitions : PartitionSizes \cup {<<>>}, dataFiles : Nat, small : Nat]
Limits == [minFileSize : Nat, warnManifests : Nat, critManifests : Nat, warnAge : Nat,
           critAge : Nat, warnSnapshots : Nat, critSnapshots : Nat, warnRatio : Nat,
           critRatio : Nat]

LEMMA FiguresAreNumbers ==
    ASSUME HealthInv
    PROVE  Stats \in StatsType /\ Thresholds \in Limits
  <1>1. Stats \in StatsType
    BY CountsAreNumbers DEF HealthInv, Stats, StatsType
  <1>2. Thresholds \in Limits
    <2>1. /\ policy.minFileSize \in Nat /\ policy.manifests \in Nat /\ policy.age \in Nat
          /\ policy.warnRatio \in Nat /\ policy.critRatio \in Nat
      BY DEF HealthInv
    <2>2. /\ Base.minFileSize \in Nat /\ Base.warnManifests \in Nat /\ Base.critManifests \in Nat
          /\ Base.warnAge \in Nat /\ Base.critAge \in Nat /\ Base.warnSnapshots \in Nat
          /\ Base.critSnapshots \in Nat /\ Base.warnRatio \in Nat /\ Base.critRatio \in Nat
      BY HealthAssumption
    <2>3. QED
      BY <2>1, <2>2 DEF Thresholds, Limits
  <1>3. QED
    BY <1>1, <1>2

(* One dimension is no better than another: neither its score nor its      *)
(* severity.                                                               *)
NoBetter(d, e) == d.score <= e.score /\ Rank(d.severity) >= Rank(e.severity)
Dimensions == [severity : {"CRITICAL", "WARNING", "INFO", "OK"}, score : Nat, max : Nat]

LEMMA Ranks ==
    /\ Rank("CRITICAL") = 4 /\ Rank("WARNING") = 3 /\ Rank("INFO") = 2 /\ Rank("OK") = 1
  BY DEF Rank

LEMMA DimensionsAre ==
    ASSUME NEW s \in StatsType, NEW t \in Limits
    PROVE  /\ FileSize(s) \in Dimensions /\ DeleteAmplification(s, t) \in Dimensions
           /\ ManifestDensity(s, t) \in Dimensions /\ Snapshot(s, t) \in Dimensions
           /\ PartitionSkew(s) \in Dimensions /\ FormatVersion(s) \in Dimensions
  <1>1. FileSize(s) \in Dimensions
    BY DEF FileSize, Dimension, Dimensions
  <1>2. DeleteAmplification(s, t) \in Dimensions
    BY DEF DeleteAmplification, Dimension, Dimensions
  <1>3. ManifestDensity(s, t) \in Dimensions
    BY DEF ManifestDensity, Dimension, Dimensions
  <1>4. Snapshot(s, t) \in Dimensions
    BY DEF Snapshot, Dimension, Dimensions
  <1>5. PartitionSkew(s) \in Dimensions
    BY DEF PartitionSkew, Dimension, Dimensions
  <1>6. FormatVersion(s) \in Dimensions
    BY DEF FormatVersion, Dimension, Dimensions
  <1>7. QED
    BY <1>1, <1>2, <1>3, <1>4, <1>5, <1>6

(* The dimensions that depend on what is neglected are monotone.           *)
LEMMA MoreDeletesNoBetter ==
    ASSUME NEW s \in StatsType, NEW t \in Limits, NEW n \in StatsType,
           n.deletes = s.deletes + 1, n.version = s.version, n.dataFiles = s.dataFiles
    PROVE  NoBetter(DeleteAmplification(n, t), DeleteAmplification(s, t))
  <1>1. /\ s.deletes \in Nat /\ s.dataFiles \in Nat /\ s.version \in Nat
        /\ t.critRatio \in Nat /\ t.warnRatio \in Nat
    BY DEF StatsType, Limits
  <1>2. NoDeletes(n) => NoDeletes(s)
    BY <1>1 DEF NoDeletes
  <1>3. \A percent \in Nat : Ratio(s, percent) => Ratio(n, percent)
    <2>1. SUFFICES ASSUME NEW percent \in Nat, Ratio(s, percent)
                   PROVE  Ratio(n, percent)
      OBVIOUS
    <2> DEFINE bound == percent * s.dataFiles
    <2>2. bound \in Nat
      BY <1>1
    <2>3. 100 * s.deletes >= bound
      BY <2>1 DEF Ratio
    <2>4. 100 * (s.deletes + 1) >= bound
      <3> HIDE DEF bound
      <3>1. QED
        BY <1>1, <2>2, <2>3
    <2>5. QED
      BY <2>4 DEF Ratio
  <1>4. /\ Ratio(s, t.critRatio) => Ratio(n, t.critRatio)
        /\ Ratio(s, t.warnRatio) => Ratio(n, t.warnRatio)
    BY <1>1, <1>3
  <1>5. QED
    BY <1>2, <1>4, Ranks DEF DeleteAmplification, Dimension, NoBetter

LEMMA MoreManifestsNoBetter ==
    ASSUME NEW s \in StatsType, NEW t \in Limits, NEW n \in StatsType,
           n.manifests = s.manifests + 1
    PROVE  NoBetter(ManifestDensity(n, t), ManifestDensity(s, t))
  <1>1. s.manifests \in Nat /\ t.critManifests \in Nat /\ t.warnManifests \in Nat
    BY DEF StatsType, Limits
  <1>2. QED
    BY <1>1, Ranks DEF ManifestDensity, Dimension, NoBetter

LEMMA OlderOrMoreNoBetter ==
    ASSUME NEW s \in StatsType, NEW t \in Limits, NEW n \in StatsType,
           n.age \in {s.age, s.age + 1}, n.snapshots \in {s.snapshots, s.snapshots + 1}
    PROVE  NoBetter(Snapshot(n, t), Snapshot(s, t))
  <1>1. /\ s.age \in Nat /\ s.snapshots \in Nat /\ t.critAge \in Nat /\ t.warnAge \in Nat
        /\ t.critSnapshots \in Nat /\ t.warnSnapshots \in Nat
    BY DEF StatsType, Limits
  <1>2. QED
    BY <1>1, Ranks DEF Snapshot, Dimension, NoBetter

LEMMA SameIsNoBetter ==
    ASSUME NEW d \in Dimensions
    PROVE  NoBetter(d, d)
  <1>1. d.score \in Nat /\ Rank(d.severity) \in Nat
    BY Ranks DEF Dimensions
  <1>2. QED
    BY <1>1 DEF NoBetter

(* Six dimensions no better than six others make a report no better.       *)
Worst(dims) ==
    CHOOSE i \in DOMAIN dims : \A j \in DOMAIN dims : Rank(dims[j].severity) <= Rank(dims[i].severity)

LEMMA WorstIsWorst ==
    ASSUME NEW a \in Dimensions, NEW b \in Dimensions, NEW c \in Dimensions,
           NEW d \in Dimensions, NEW e \in Dimensions, NEW f \in Dimensions,
           NEW dims, dims = <<a, b, c, d, e, f>>
    PROVE  /\ Worst(dims) \in 1..6
           /\ \A j \in 1..6 : Rank(dims[j].severity) <= Rank(dims[Worst(dims)].severity)
  <1>1. DOMAIN dims = 1..6
    OBVIOUS
  <1> DEFINE r == [j \in 1..6 |-> Rank(dims[j].severity)]
  <1>2. r \in [1..6 -> Nat]
    <2>1. \A j \in 1..6 : dims[j] \in Dimensions
      OBVIOUS
    <2>2. \A j \in 1..6 : Rank(dims[j].severity) \in Nat
      BY <2>1, Ranks DEF Dimensions
    <2>3. QED
      BY <2>2
  <1>3. \E i \in 1..6 : \A j \in 1..6 : r[j] <= r[i]
    <2> HIDE DEF r
    <2> DEFINE larger(i, j) == IF r[i] >= r[j] THEN i ELSE j
    <2>1. \A i, j \in 1..6 : /\ larger(i, j) \in {i, j}
                             /\ r[larger(i, j)] >= r[i] /\ r[larger(i, j)] >= r[j]
      BY <1>2
    <2> DEFINE i2 == larger(1, 2)
               i4 == larger(3, 4)
               i6 == larger(5, 6)
               i3 == larger(i2, i4)
               i1 == larger(i3, i6)
    <2>2. /\ i2 \in 1..6 /\ r[i2] >= r[1] /\ r[i2] >= r[2]
          /\ i4 \in 1..6 /\ r[i4] >= r[3] /\ r[i4] >= r[4]
          /\ i6 \in 1..6 /\ r[i6] >= r[5] /\ r[i6] >= r[6]
      <3> HIDE DEF larger
      <3>1. {1, 2} \subseteq 1..6 /\ {3, 4} \subseteq 1..6 /\ {5, 6} \subseteq 1..6
        OBVIOUS
      <3>2. QED
        BY <2>1, <3>1
    <2>3. i3 \in 1..6 /\ r[i3] >= r[i2] /\ r[i3] >= r[i4]
      <3> HIDE DEF larger, i2, i4
      <3>1. QED
        BY <2>1, <2>2
    <2>4. i1 \in 1..6 /\ r[i1] >= r[i3] /\ r[i1] >= r[i6]
      <3> HIDE DEF larger, i3, i6
      <3>1. QED
        BY <2>1, <2>2, <2>3
    <2>5. \A j \in 1..6 : r[j] <= r[i1]
      <3> HIDE DEF i1, i2, i3, i4, i6
      <3>1. QED
        BY <1>2, <2>2, <2>3, <2>4
    <2>6. QED
      BY <2>4, <2>5
  <1>4. \E i \in 1..6 : \A j \in 1..6 : Rank(dims[j].severity) <= Rank(dims[i].severity)
    BY <1>3
  <1>5. QED
    BY <1>1, <1>4 DEF Worst


LEMMA ReportNoBetter ==
    ASSUME NEW s \in StatsType, NEW n \in StatsType, NEW t \in Limits,
           NoBetter(FileSize(n), FileSize(s)),
           NoBetter(DeleteAmplification(n, t), DeleteAmplification(s, t)),
           NoBetter(ManifestDensity(n, t), ManifestDensity(s, t)),
           NoBetter(Snapshot(n, t), Snapshot(s, t)),
           NoBetter(PartitionSkew(n), PartitionSkew(s)),
           NoBetter(FormatVersion(n), FormatVersion(s))
    PROVE  /\ Score(n, t).score <= Score(s, t).score
           /\ Rank(Score(n, t).worst) >= Rank(Score(s, t).worst)
  <1> DEFINE ds == <<FileSize(s), DeleteAmplification(s, t), ManifestDensity(s, t), Snapshot(s, t),
                     PartitionSkew(s), FormatVersion(s)>>
             dn == <<FileSize(n), DeleteAmplification(n, t), ManifestDensity(n, t), Snapshot(n, t),
                     PartitionSkew(n), FormatVersion(n)>>
  <1>1. \A j \in 1..6 : ds[j] \in Dimensions /\ dn[j] \in Dimensions
    BY DimensionsAre
  <1>2. \A j \in 1..6 : NoBetter(dn[j], ds[j])
    OBVIOUS
  <1>3. /\ Worst(ds) \in 1..6
        /\ \A j \in 1..6 : Rank(ds[j].severity) <= Rank(ds[Worst(ds)].severity)
    BY DimensionsAre, WorstIsWorst
  <1>4. /\ Worst(dn) \in 1..6
        /\ \A j \in 1..6 : Rank(dn[j].severity) <= Rank(dn[Worst(dn)].severity)
    BY DimensionsAre, WorstIsWorst
  <1>5. /\ Score(s, t).score = ds[1].score + ds[2].score + ds[3].score
                                 + ds[4].score + ds[5].score + ds[6].score
        /\ Score(s, t).worst = ds[Worst(ds)].severity
    BY DEF Score, Composite, Worst
  <1>6. /\ Score(n, t).score = dn[1].score + dn[2].score + dn[3].score
                                 + dn[4].score + dn[5].score + dn[6].score
        /\ Score(n, t).worst = dn[Worst(dn)].severity
    BY DEF Score, Composite, Worst
  <1> HIDE DEF ds, dn
  <1>7. \A j \in 1..6 : /\ ds[j].score \in Nat /\ dn[j].score \in Nat
                        /\ Rank(ds[j].severity) \in Nat /\ Rank(dn[j].severity) \in Nat
    BY <1>1, Ranks DEF Dimensions
  <1>8. \A j \in 1..6 : /\ dn[j].score <= ds[j].score
                        /\ Rank(dn[j].severity) >= Rank(ds[j].severity)
    BY <1>2 DEF NoBetter
  <1>9. Score(n, t).score <= Score(s, t).score
    <2>1. /\ 1 \in 1..6 /\ 2 \in 1..6 /\ 3 \in 1..6 /\ 4 \in 1..6 /\ 5 \in 1..6 /\ 6 \in 1..6
      OBVIOUS
    <2>2. QED
      BY <1>5, <1>6, <1>7, <1>8, <2>1
  <1>10. Rank(Score(n, t).worst) >= Rank(Score(s, t).worst)
    BY <1>3, <1>4, <1>5, <1>6, <1>7, <1>8
  <1>11. QED
    BY <1>9, <1>10

LEMMA NeglectGains ==
    ASSUME HealthInv
    PROVE  NoGainFromNeglect
  <1> DEFINE s == Stats
             t == Thresholds
  <1>1. s \in StatsType /\ t \in Limits
    BY FiguresAreNumbers
  <1>2. ASSUME NEW f \in Numbers
        PROVE  LET n == [s EXCEPT ![f] = @ + 1]
               IN  /\ Score(n, t).score <= Score(s, t).score
                   /\ Rank(Score(n, t).worst) >= Rank(Score(s, t).worst)
    <2> DEFINE n == [s EXCEPT ![f] = @ + 1]
    <2> HIDE DEF s, t
    <2>1. f \in {"deletes", "manifests", "age", "snapshots"}
      BY DEF Numbers
    <2>2. n \in StatsType
      BY <1>1, <2>1 DEF StatsType
    <2>3. /\ n.version = s.version /\ n.partitions = s.partitions
          /\ n.dataFiles = s.dataFiles /\ n.small = s.small
      BY <1>1, <2>1 DEF StatsType
    <2>4. /\ f = "deletes" => n.deletes = s.deletes + 1
          /\ f # "deletes" => n.deletes = s.deletes
          /\ f = "manifests" => n.manifests = s.manifests + 1
          /\ f # "manifests" => n.manifests = s.manifests
      BY <1>1, <2>1 DEF StatsType
    <2>5. n.age \in {s.age, s.age + 1} /\ n.snapshots \in {s.snapshots, s.snapshots + 1}
      BY <1>1, <2>1 DEF StatsType
    <2> HIDE DEF n
    <2>6. NoBetter(FileSize(n), FileSize(s))
      <3>1. FileSize(n) = FileSize(s)
        BY <2>3 DEF FileSize
      <3>2. QED
        BY <1>1, <3>1, DimensionsAre, SameIsNoBetter
    <2>7. NoBetter(DeleteAmplification(n, t), DeleteAmplification(s, t))
      <3>1. CASE f = "deletes"
        BY <1>1, <2>2, <2>3, <2>4, <3>1, MoreDeletesNoBetter
      <3>2. CASE f # "deletes"
        <4>1. DeleteAmplification(n, t) = DeleteAmplification(s, t)
          BY <2>3, <2>4, <3>2 DEF DeleteAmplification, NoDeletes, Ratio
        <4>2. QED
          BY <1>1, <4>1, DimensionsAre, SameIsNoBetter
      <3>3. QED
        BY <3>1, <3>2
    <2>8. NoBetter(ManifestDensity(n, t), ManifestDensity(s, t))
      <3>1. CASE f = "manifests"
        BY <1>1, <2>2, <2>4, <3>1, MoreManifestsNoBetter
      <3>2. CASE f # "manifests"
        <4>1. ManifestDensity(n, t) = ManifestDensity(s, t)
          BY <2>4, <3>2 DEF ManifestDensity
        <4>2. QED
          BY <1>1, <4>1, DimensionsAre, SameIsNoBetter
      <3>3. QED
        BY <3>1, <3>2
    <2>9. NoBetter(Snapshot(n, t), Snapshot(s, t))
      BY <1>1, <2>2, <2>5, OlderOrMoreNoBetter
    <2>10. NoBetter(PartitionSkew(n), PartitionSkew(s))
      <3>1. PartitionSkew(n) = PartitionSkew(s)
        BY <2>3 DEF PartitionSkew
      <3>2. QED
        BY <1>1, <3>1, DimensionsAre, SameIsNoBetter
    <2>11. NoBetter(FormatVersion(n), FormatVersion(s))
      <3>1. FormatVersion(n) = FormatVersion(s)
        BY <2>3 DEF FormatVersion
      <3>2. QED
        BY <1>1, <3>1, DimensionsAre, SameIsNoBetter
    <2>12. /\ Score(n, t).score <= Score(s, t).score
           /\ Rank(Score(n, t).worst) >= Rank(Score(s, t).worst)
      BY <1>1, <2>2, <2>6, <2>7, <2>8, <2>9, <2>10, <2>11, ReportNoBetter
    <2>13. QED
      BY <2>12 DEF n
  <1>3. QED
    BY <1>2 DEF NoGainFromNeglect, Report

(* More delete files, more manifests, more or older snapshots never give a *)
(* better score or severity (internal/health/score.go), whatever policy    *)
(* is in force and however its limits and the defaults compare.            *)
THEOREM NeglectNeverPays == Spec => []NoGainFromNeglect
  <1>1. Init => HealthInv
    BY HealthInvInit DEF Init
  <1>2. HealthInv /\ [Next]_vars => HealthInv'
    <2>1. SUFFICES ASSUME HealthInv, [Next]_vars
                   PROVE  HealthInv'
      OBVIOUS
    <2>2. CASE UNCHANGED healthVars
      BY <2>1, <2>2 DEF HealthInv, healthVars
    <2>3. CASE HealthNext
      BY <2>1, <2>3, HealthInvStep
    <2>4. QED
      BY <2>1, <2>2, <2>3 DEF Next, vars
  <1>3. HealthInv => NoGainFromNeglect
    BY NeglectGains
  <1>4. QED
    BY <1>1, <1>2, <1>3, PTL DEF Spec


-----------------------------------------------------------------------------
(* The cost timeline.  The history of a table nobody rolled back, whose    *)
(* commits stated their sizes and had growing times: each snapshot holds   *)
(* what the one before it held, plus and minus what its commit says.       *)

Entries == [at : Int, added : Nat, removed : Nat, bytes : Nat]

InOrder ==
    /\ \A i, j \in DOMAIN history : i < j => history[i].at < history[j].at
    /\ \A i \in DOMAIN history :
          i > 1 => history[i].bytes = history[i - 1].bytes + history[i].added - history[i].removed
    /\ history # <<>> => /\ history[1].bytes >= history[1].added - history[1].removed
                         /\ history[Len(history)].bytes = current

FromTheFirst ==
    IF history = <<>> THEN current = 0
    ELSE history[1].bytes = history[1].added - history[1].removed

TimelineInv ==
    /\ history \in Seq(Entries) /\ current \in Nat
    /\ spoilt \subseteq {"expiry"} => InOrder
    /\ history = <<>> => current = 0
    /\ spoilt = {} => FromTheFirst

LEMMA TimelineInvInit == TimelineInit => TimelineInv
  BY DEF TimelineInit, TimelineInv, InOrder, FromTheFirst

LEMMA CommitKeepsOrder ==
    ASSUME TimelineInv,
           NEW step \in TimeSteps, NEW add \in FileBytes, NEW remove \in FileBytes,
           NEW stated \in BOOLEAN, CommitBytes(step, add, remove, stated)
    PROVE  TimelineInv'
  <1> DEFINE e == [at |-> IF history = <<>> THEN 0 ELSE Last(history).at + step,
                   added |-> IF stated THEN add ELSE 0, removed |-> IF stated THEN remove ELSE 0,
                   bytes |-> current + add - remove]
             n == Len(history)
  <1>1. /\ step \in Int /\ add \in Nat /\ remove \in Nat
        /\ history \in Seq(Entries) /\ n \in Nat /\ current \in Nat
    BY TimelineAssumption DEF TimelineInv
  <1>2. current' = current + add - remove /\ current' \in Nat
    BY <1>1 DEF CommitBytes
  <1>3. history # <<>> => n \in 1..n /\ Last(history) = history[n] /\ history[n] \in Entries
    <2>1. SUFFICES ASSUME history # <<>>
                   PROVE  n \in 1..n /\ Last(history) = history[n] /\ history[n] \in Entries
      OBVIOUS
    <2>2. n \in 1..n
      BY <1>1, <2>1, EmptySeq
    <2>3. QED
      BY <1>1, <2>2, ElementOfSeq DEF Last
  <1>4. e \in Entries
    <2>1. (IF history = <<>> THEN 0 ELSE Last(history).at + step) \in Int
      BY <1>1, <1>3 DEF Entries
    <2>2. (IF stated THEN add ELSE 0) \in Nat /\ (IF stated THEN remove ELSE 0) \in Nat
      BY <1>1
    <2>3. QED
      BY <1>2, <2>1, <2>2 DEF Entries
  <1>5. history' = Append(history, e)
    BY DEF CommitBytes
  <1> HIDE DEF e
  <1>6. /\ history' \in Seq(Entries) /\ Len(history') = n + 1 /\ history' # <<>>
        /\ history'[n + 1] = e /\ \A i \in 1..n : history'[i] = history[i]
    BY <1>1, <1>4, <1>5
  <1>7. DOMAIN history = 1..n /\ DOMAIN history' = 1..(n + 1)
    BY <1>1, <1>6
  <1>8. ASSUME spoilt' \subseteq {"expiry"}
        PROVE  /\ stated /\ step > 0 /\ spoilt' = spoilt
               /\ e.added = add /\ e.removed = remove /\ e.bytes = current'
               /\ history # <<>> => e.at = history[n].at + step
    <2>1. stated
      BY <1>8, Zenon DEF CommitBytes
    <2>2. step > 0
      <3>1. ~ (step > 0) => "clock" \in spoilt'
        BY DEF CommitBytes
      <3>2. QED
        BY <1>8, <3>1
    <2>3. spoilt' = spoilt
      BY <2>1, <2>2 DEF CommitBytes
    <2>4. e.added = add /\ e.removed = remove /\ e.bytes = current'
      BY <1>2, <2>1 DEF e
    <2>5. history # <<>> => e.at = history[n].at + step
      BY <1>3 DEF e
    <2>6. QED
      BY <2>1, <2>2, <2>3, <2>4, <2>5
  <1>9. ASSUME spoilt' \subseteq {"expiry"}
        PROVE  InOrder'
    <2>1. InOrder
      BY <1>8, <1>9 DEF TimelineInv
    <2>2. ASSUME NEW i \in 1..(n + 1), NEW j \in 1..(n + 1), i < j
          PROVE  history'[i].at < history'[j].at
      <3>1. i \in 1..n /\ history'[i] = history[i] /\ history # <<>>
        BY <1>1, <1>6, <2>2, EmptySeq
      <3>2. CASE j \in 1..n
        BY <1>6, <1>7, <2>1, <2>2, <3>1, <3>2 DEF InOrder
      <3>3. CASE j = n + 1
        <4>1. history'[j].at = history[n].at + step
          BY <1>6, <1>8, <1>9, <3>1, <3>3
        <4>2. history[i].at <= history[n].at
          <5>1. /\ i \in 1..n /\ n \in 1..n /\ i \in DOMAIN history /\ n \in DOMAIN history
                /\ history[i].at \in Int /\ history[n].at \in Int
            <6>1. history[i] \in Entries /\ history[n] \in Entries
              BY <1>1, <1>3, <3>1, ElementOfSeq
            <6>2. QED
              BY <1>3, <1>7, <3>1, <6>1 DEF Entries
          <5>2. CASE i = n
            BY <5>1, <5>2
          <5>3. CASE i # n
            <6>1. i < n
              BY <1>1, <5>1, <5>3
            <6>2. history[i].at < history[n].at
              BY <2>1, <5>1, <6>1 DEF InOrder
            <6>3. QED
              BY <5>1, <6>2
          <5>4. QED
            BY <5>2, <5>3
        <4>3. history[i].at \in Int /\ history[n].at \in Int
          <5>1. history[i] \in Entries /\ history[n] \in Entries
            BY <1>1, <1>3, <3>1, ElementOfSeq
          <5>2. QED
            BY <5>1 DEF Entries
        <4>4. QED
          BY <1>1, <1>8, <1>9, <3>1, <4>1, <4>2, <4>3
      <3>4. QED
        BY <1>1, <3>2, <3>3
    <2>3. ASSUME NEW i \in 1..(n + 1), i > 1
          PROVE  history'[i].bytes
                   = history'[i - 1].bytes + history'[i].added - history'[i].removed
      <3>1. i - 1 \in 1..n /\ history'[i - 1] = history[i - 1] /\ history # <<>>
        BY <1>1, <1>6, <2>3, EmptySeq
      <3>2. CASE i \in 1..n
        BY <1>6, <1>7, <2>1, <2>3, <3>1, <3>2 DEF InOrder
      <3>3. CASE i = n + 1
        BY <1>1, <1>2, <1>6, <1>8, <1>9, <2>1, <3>1, <3>3 DEF InOrder
      <3>4. QED
        BY <1>1, <3>2, <3>3
    <2>4. history'[1].bytes >= history'[1].added - history'[1].removed
      <3>1. CASE history = <<>>
        <4>1. n = 0
          BY <3>1
        <4>2. history'[1] = e
          BY <1>6, <4>1
        <4>3. QED
          BY <1>1, <1>2, <1>8, <1>9, <4>2
      <3>2. CASE history # <<>>
        <4>1. history'[1] = history[1]
          BY <1>1, <1>3, <1>6, <3>2
        <4>2. QED
          BY <2>1, <3>2, <4>1 DEF InOrder
      <3>3. QED
        BY <3>1, <3>2
    <2>5. history'[Len(history')].bytes = current'
      BY <1>6, <1>8, <1>9
    <2>6. QED
      BY <1>7, <2>2, <2>3, <2>4, <2>5 DEF InOrder
  <1>10. ASSUME spoilt' = {}
         PROVE  FromTheFirst'
    <2>1. spoilt = {} /\ FromTheFirst
      BY <1>8, <1>10 DEF TimelineInv
    <2>2. CASE history = <<>>
      <3>1. n = 0 /\ current = 0
        BY <2>1, <2>2 DEF FromTheFirst
      <3>2. history'[1] = e
        BY <1>6, <3>1
      <3>3. QED
        BY <1>1, <1>2, <1>6, <1>8, <1>10, <3>1, <3>2 DEF FromTheFirst
    <2>3. CASE history # <<>>
      <3>1. history'[1] = history[1]
        BY <1>1, <1>3, <1>6, <2>3
      <3>2. QED
        BY <1>6, <2>1, <2>3, <3>1 DEF FromTheFirst
    <2>4. QED
      BY <2>2, <2>3
  <1>11. QED
    BY <1>2, <1>6, <1>9, <1>10 DEF TimelineInv

LEMMA ExpiryKeepsOrder ==
    ASSUME TimelineInv, ExpireFirst
    PROVE  TimelineInv'
  <1> DEFINE n == Len(history)
  <1>1. history \in Seq(Entries) /\ n \in Nat /\ n > 1 /\ current \in Nat
    BY DEF TimelineInv, ExpireFirst
  <1>2. history' = Tail(history) /\ current' = current /\ "expiry" \in spoilt' /\ spoilt \subseteq spoilt'
    BY DEF ExpireFirst
  <1>3. /\ history' \in Seq(Entries) /\ Len(history') = n - 1
        /\ \A i \in 1..(n - 1) : history'[i] = history[i + 1]
    BY <1>1, <1>2
  <1>4. DOMAIN history = 1..n /\ DOMAIN history' = 1..(n - 1) /\ history' # <<>>
    BY <1>1, <1>3
  <1>5. ASSUME spoilt' \subseteq {"expiry"}
        PROVE  InOrder'
    <2>1. InOrder
      BY <1>2, <1>5 DEF TimelineInv
    <2>2. \A i, j \in 1..(n - 1) : i < j => history'[i].at < history'[j].at
      <3>1. SUFFICES ASSUME NEW i \in 1..(n - 1), NEW j \in 1..(n - 1), i < j
                     PROVE  history'[i].at < history'[j].at
        OBVIOUS
      <3>2. i + 1 \in 1..n /\ j + 1 \in 1..n /\ i + 1 < j + 1
        BY <1>1, <3>1
      <3>3. QED
        BY <1>3, <1>4, <2>1, <3>2 DEF InOrder
    <2>3. \A i \in 1..(n - 1) :
             i > 1 => history'[i].bytes
                        = history'[i - 1].bytes + history'[i].added - history'[i].removed
      <3>1. SUFFICES ASSUME NEW i \in 1..(n - 1), i > 1
                     PROVE  history'[i].bytes
                              = history'[i - 1].bytes + history'[i].added - history'[i].removed
        OBVIOUS
      <3>2. i + 1 \in 1..n /\ i + 1 > 1 /\ (i + 1) - 1 = i /\ i - 1 \in 1..(n - 1)
        BY <1>1, <3>1
      <3>3. history[i + 1].bytes = history[i].bytes + history[i + 1].added - history[i + 1].removed
        BY <1>4, <2>1, <3>2 DEF InOrder
      <3>4. history'[i] = history[i + 1] /\ history'[i - 1] = history[i]
        BY <1>3, <3>2
      <3>5. QED
        BY <3>3, <3>4
    <2>4. history'[1].bytes >= history'[1].added - history'[1].removed
      <3>1. 1 \in 1..n /\ 2 \in 1..n /\ history'[1] = history[2]
        BY <1>1, <1>3
      <3>2. history[2].bytes = history[1].bytes + history[2].added - history[2].removed
        <4>1. 2 \in DOMAIN history /\ 2 > 1 /\ 2 - 1 = 1
          BY <1>4, <3>1
        <4>2. history[2].bytes = history[2 - 1].bytes + history[2].added - history[2].removed
          BY <2>1, <4>1 DEF InOrder
        <4>3. QED
          BY <4>1, <4>2
      <3>3. history[1].bytes \in Nat /\ history[2].added \in Nat /\ history[2].removed \in Nat
        <4>1. history[1] \in Entries /\ history[2] \in Entries
          BY <1>1, <3>1, ElementOfSeq
        <4>2. QED
          BY <4>1 DEF Entries
      <3>4. QED
        BY <3>1, <3>2, <3>3
    <2>5. history'[Len(history')].bytes = current'
      <3>1. history'[n - 1] = history[n] /\ history # <<>>
        BY <1>1, <1>3
      <3>2. QED
        BY <1>2, <1>3, <2>1, <3>1 DEF InOrder
    <2>6. QED
      BY <1>4, <2>2, <2>3, <2>4, <2>5 DEF InOrder
  <1>6. spoilt' # {} /\ history' # <<>>
    BY <1>2, <1>4
  <1>7. history' \in Seq(Entries) /\ current' \in Nat
    BY <1>1, <1>2, <1>3
  <1>8. QED
    BY <1>5, <1>6, <1>7 DEF TimelineInv

LEMMA TimelineInvStep == TimelineInv /\ TimelineNext => TimelineInv'
  <1>1. SUFFICES ASSUME TimelineInv, TimelineNext
                 PROVE  TimelineInv'
    OBVIOUS
  <1>2. CASE \E step \in TimeSteps, add \in FileBytes, remove \in FileBytes, stated \in BOOLEAN :
                CommitBytes(step, add, remove, stated)
    BY <1>1, <1>2, CommitKeepsOrder
  <1>3. CASE \E i \in DOMAIN history : RollBackTo(i)
    <2>1. PICK i \in DOMAIN history : RollBackTo(i)
      BY <1>3
    <2>2. history \in Seq(Entries) /\ i \in 1..Len(history) /\ history # <<>>
      BY <1>1, <2>1 DEF TimelineInv
    <2>3. history[i].bytes \in Nat
      <3>1. history[i] \in Entries
        BY <2>2, ElementOfSeq
      <3>2. QED
        BY <3>1 DEF Entries
    <2>4. history' = history /\ current' \in Nat /\ "rollback" \in spoilt'
      BY <2>1, <2>3 DEF RollBackTo
    <2>5. ~ (spoilt' \subseteq {"expiry"}) /\ spoilt' # {} /\ history' # <<>>
      BY <2>2, <2>4
    <2>6. QED
      BY <2>2, <2>4, <2>5 DEF TimelineInv
  <1>4. CASE ExpireFirst
    BY <1>1, <1>4, ExpiryKeepsOrder
  <1>5. QED
    BY <1>1, <1>2, <1>3, <1>4 DEF TimelineNext


(* Ascending numbers of a range, as many as it has, are the range.         *)
LEMMA AscendingIsIdentity ==
    ASSUME NEW n \in Nat, NEW p \in [1..n -> 1..n],
           \A i, j \in 1..n : i < j => p[i] < p[j]
    PROVE  \A i \in 1..n : p[i] = i
  <1>1. \A i \in 1..n : p[i] \in 1..n
    OBVIOUS
  <1> DEFINE low == {k \in 0..n : k = 0 \/ p[k] >= k}
             high == {m \in 0..n : m = n \/ p[n - m] <= n - m}
  <1>2. 0..n \subseteq low
    <2>1. 0 \in low
      OBVIOUS
    <2>2. ASSUME NEW k \in 1..n, k - 1 \in low
          PROVE  k \in low
      <3>1. k \in 0..n /\ p[k] \in 1..n
        BY <1>1
      <3>2. CASE k = 1
        BY <3>1, <3>2
      <3>3. CASE k # 1
        <4>1. k - 1 \in 1..n /\ k - 1 < k
          BY <3>3
        <4>2. p[k - 1] < p[k] /\ p[k - 1] >= k - 1
          BY <2>2, <4>1
        <4>3. p[k - 1] \in 1..n
          BY <1>1, <4>1
        <4>4. QED
          BY <3>1, <4>2, <4>3
      <3>4. QED
        BY <3>2, <3>3
    <2> HIDE DEF low
    <2>3. QED
      BY <2>1, <2>2, Upwards
  <1>3. 0..n \subseteq high
    <2>1. 0 \in high
      BY <1>1
    <2>2. ASSUME NEW m \in 1..n, m - 1 \in high
          PROVE  m \in high
      <3>1. CASE m = n
        BY <3>1
      <3>2. CASE m # n
        <4>1. /\ n - m \in 1..n /\ n - (m - 1) \in 1..n /\ n - m < n - (m - 1)
              /\ m - 1 # n /\ m \in 0..n
          BY <3>2
        <4>2. p[n - m] < p[n - (m - 1)] /\ p[n - (m - 1)] <= n - (m - 1)
          BY <2>2, <4>1
        <4>3. p[n - m] \in 1..n /\ p[n - (m - 1)] \in 1..n
          BY <1>1, <4>1
        <4>4. p[n - m] <= n - m
          BY <4>2, <4>3
        <4>5. QED
          BY <4>1, <4>4
      <3>3. QED
        BY <3>1, <3>2
    <2> HIDE DEF high
    <2>3. QED
      BY <2>1, <2>2, Upwards
  <1>4. ASSUME NEW i \in 1..n
        PROVE  p[i] = i
    <2>1. i \in low /\ n - i \in high
      BY <1>2, <1>3
    <2>2. n - i # n /\ n - (n - i) = i
      OBVIOUS
    <2>3. p[i] >= i /\ p[i] <= i
      BY <2>1, <2>2
    <2>4. QED
      BY <1>1, <2>3
  <1>5. QED
    BY <1>4

(* Snapshots at growing times are already in the order of their times.     *)
LEMMA InOrderIsSorted ==
    ASSUME TimelineInv, InOrder, NEW p \in ByTime
    PROVE  \A i \in DOMAIN history : p[i] = i
  <1> DEFINE n == Len(history)
  <1>1. history \in Seq(Entries) /\ n \in Nat /\ DOMAIN history = 1..n
    BY DEF TimelineInv
  <1>2. p \in [1..n -> 1..n]
    BY <1>1 DEF ByTime
  <1>3. ASSUME NEW i \in 1..n, NEW j \in 1..n, i < j
        PROVE  p[i] < p[j]
    <2>1. p[i] \in 1..n /\ p[j] \in 1..n /\ p[i] # p[j]
      BY <1>1, <1>2, <1>3 DEF ByTime
    <2>2. history[p[i]].at <= history[p[j]].at
      BY <1>1, <1>3 DEF ByTime
    <2>3. ~ (p[j] < p[i])
      <3>1. SUFFICES ASSUME p[j] < p[i]
                     PROVE  FALSE
        OBVIOUS
      <3>2. history[p[j]].at < history[p[i]].at
        BY <1>1, <2>1, <3>1 DEF InOrder
      <3>3. history[p[i]].at \in Int /\ history[p[j]].at \in Int
        <4>1. history[p[i]] \in Entries /\ history[p[j]] \in Entries
          BY <1>1, <2>1, ElementOfSeq
        <4>2. QED
          BY <4>1 DEF Entries
      <3>4. QED
        BY <2>2, <3>2, <3>3
    <2>4. QED
      BY <2>1, <2>3
  <1>4. QED
    BY <1>1, <1>2, <1>3, AscendingIsIdentity

(* The running sum is what its loop makes it.                              *)
LEMMA TimelineIs ==
    ASSUME TimelineInv, NEW p \in ByTime
    PROVE  /\ Timeline(p)[0] = 0
           /\ \A i \in 1..Len(history) :
                 Timeline(p)[i] = Cumulate(Timeline(p)[i - 1], history[p[i]])
           /\ \A i \in 0..Len(history) : Timeline(p)[i] \in Nat
  <1> DEFINE n == Len(history)
             turn == [k \in 1..n |-> [x \in Nat |-> Cumulate(x, history[p[k]])]]
  <1>1. history \in Seq(Entries) /\ n \in Nat /\ DOMAIN history = 1..n
    BY DEF TimelineInv
  <1>2. \A k \in 1..n : history[p[k]].added \in Nat /\ history[p[k]].removed \in Nat
    <2>1. SUFFICES ASSUME NEW k \in 1..n
                   PROVE  history[p[k]].added \in Nat /\ history[p[k]].removed \in Nat
      OBVIOUS
    <2>2. p[k] \in 1..n
      BY <1>1 DEF ByTime
    <2>3. history[p[k]] \in Entries
      BY <1>1, <2>2, ElementOfSeq
    <2>4. QED
      BY <2>3 DEF Entries
  <1>3. turn \in [1..n -> [Nat -> Nat]]
    <2>1. \A k \in 1..n : \A x \in Nat : Cumulate(x, history[p[k]]) \in Nat
      BY <1>2 DEF Cumulate
    <2> HIDE DEF n
    <2>2. QED
      BY <2>1, Zenon
  <1>4. PICK f : Runs(f, Nat, 0, n, turn)
    <2> HIDE DEF turn
    <2>1. 0 \in Nat
      OBVIOUS
    <2>2. QED
      BY <1>1, <1>3, <2>1, LoopExists, Zenon
  <1>5. /\ f \in [0..n -> Nat] /\ f[0] = 0
        /\ \A k \in 1..n : f[k] = Cumulate(f[k - 1], history[p[k]])
    <2>1. f \in [0..n -> Nat] /\ f[0] = 0 /\ \A k \in 1..n : f[k] = turn[k][f[k - 1]]
      BY <1>4 DEF Runs
    <2>2. \A k \in 1..n : k - 1 \in 0..n
      BY <1>1
    <2>3. \A k \in 1..n : f[k - 1] \in Nat
      BY <2>1, <2>2
    <2>4. QED
      BY <2>1, <2>3
  <1> DEFINE Sums(g) == g = [i \in 0..n |-> IF i = 0 THEN 0 ELSE Cumulate(g[i - 1], history[p[i]])]
  <1>6. Sums(f)
    <2>1. \A i \in 0..n : i # 0 => i \in 1..n
      BY <1>1
    <2>2. QED
      BY <1>5, <2>1
  <1>7. Sums(CHOOSE g : Sums(g))
    <2> HIDE DEF Sums
    <2>1. QED
      BY <1>6
  <1>8. Timeline(p) = CHOOSE g : Sums(g)
    BY DEF Timeline
  <1>9. Sums(Timeline(p))
    <2> HIDE DEF Sums
    <2>1. QED
      BY <1>7, <1>8
  <1> DEFINE g == Timeline(p)
  <1>10. g = [i \in 0..n |-> IF i = 0 THEN 0 ELSE Cumulate(g[i - 1], history[p[i]])]
    BY <1>9
  <1> HIDE DEF g
  <1>11. g[0] = 0 /\ \A i \in 1..n : g[i] = Cumulate(g[i - 1], history[p[i]])
    <2>1. 0 \in 0..n /\ \A i \in 1..n : i \in 0..n /\ i # 0
      BY <1>1
    <2>2. QED
      BY <1>10, <2>1
  <1>12. \A i \in 0..n : g[i] \in Nat
    <2> DEFINE T == {i \in 0..n : g[i] \in Nat}
    <2>1. 0 \in T
      BY <1>1, <1>11
    <2>2. ASSUME NEW k \in 1..n, k - 1 \in T
          PROVE  k \in T
      <3>1. k \in 0..n /\ g[k - 1] \in Nat
        BY <1>1, <2>2
      <3>2. history[p[k]].added \in Nat /\ history[p[k]].removed \in Nat
        BY <1>2
      <3>3. Cumulate(g[k - 1], history[p[k]]) \in Nat
        BY <3>1, <3>2 DEF Cumulate
      <3>4. QED
        BY <1>11, <3>1, <3>3
    <2>3. 0..n \subseteq T
      <3> HIDE DEF T
      <3>1. QED
        BY <1>1, <2>1, <2>2, Upwards
    <2>4. QED
      BY <2>3
  <1>13. QED
    BY <1>11, <1>12 DEF g

LEMMA SumsFit ==
    ASSUME TimelineInv
    PROVE  NoBytesInvented
  <1> DEFINE n == Len(history)
  <1>1. SUFFICES ASSUME NEW p \in ByTime, NEW last \in DOMAIN history, spoilt \subseteq {"expiry"}
                 PROVE  /\ spoilt = {} => Timeline(p)[last] = history[p[last]].bytes
                        /\ Timeline(p)[last] <= history[p[last]].bytes
    BY DEF NoBytesInvented
  <1>2. /\ history \in Seq(Entries) /\ n \in Nat /\ DOMAIN history = 1..n /\ InOrder
        /\ history # <<>>
    BY <1>1 DEF TimelineInv
  <1>3. \A i \in 1..n : p[i] = i
    BY <1>2, InOrderIsSorted
  <1> DEFINE sum == Timeline(p)
  <1> HIDE DEF sum
  <1>4. /\ sum[0] = 0 /\ \A i \in 0..n : sum[i] \in Nat
        /\ \A i \in 1..n : sum[i] = Cumulate(sum[i - 1], history[i])
    BY <1>3, TimelineIs DEF sum
  <1>5. \A i \in 1..n : /\ history[i].added \in Nat /\ history[i].removed \in Nat
                        /\ history[i].bytes \in Nat
    <2>1. \A i \in 1..n : history[i] \in Entries
      BY <1>2, ElementOfSeq
    <2>2. QED
      BY <2>1 DEF Entries
  <1> DEFINE T == {i \in 0..n : i = 0 \/ /\ sum[i] <= history[i].bytes
                                         /\ spoilt = {} => sum[i] = history[i].bytes}
  <1>6. 0 \in T
    BY <1>2
  <1>7. ASSUME NEW k \in 1..n, k - 1 \in T
        PROVE  k \in T
    <2>1. k \in 0..n /\ k - 1 \in 0..n /\ sum[k - 1] \in Nat /\ sum[k] \in Nat
      BY <1>2, <1>4
    <2>2. sum[k] = IF sum[k - 1] + history[k].added - history[k].removed < 0 THEN 0
                   ELSE sum[k - 1] + history[k].added - history[k].removed
      BY <1>4 DEF Cumulate
    <2>3. CASE k = 1
      <3>1. /\ history[1].bytes >= history[1].added - history[1].removed
            /\ spoilt = {} => history[1].bytes = history[1].added - history[1].removed
        BY <1>2 DEF InOrder, TimelineInv, FromTheFirst
      <3>2. QED
        BY <1>4, <1>5, <2>1, <2>2, <2>3, <3>1
    <2>4. CASE k # 1
      <3>1. k - 1 \in 1..n /\ k > 1
        BY <2>4
      <3>2. history[k].bytes = history[k - 1].bytes + history[k].added - history[k].removed
        BY <1>2, <3>1 DEF InOrder
      <3>3. sum[k - 1] <= history[k - 1].bytes /\ (spoilt = {} => sum[k - 1] = history[k - 1].bytes)
        BY <1>7, <3>1
      <3>4. /\ history[k].added \in Nat /\ history[k].removed \in Nat /\ history[k].bytes \in Nat
            /\ history[k - 1].bytes \in Nat
        BY <1>5, <3>1
      <3>5. sum[k] <= history[k].bytes
        BY <2>1, <2>2, <3>2, <3>3, <3>4
      <3>6. ASSUME spoilt = {}
            PROVE  sum[k] = history[k].bytes
        BY <2>1, <2>2, <3>2, <3>3, <3>4, <3>6
      <3>7. QED
        BY <2>1, <3>5, <3>6
    <2>5. QED
      BY <2>3, <2>4
  <1>8. 0..n \subseteq T
    <2> HIDE DEF T
    <2>1. QED
      BY <1>2, <1>6, <1>7, Upwards
  <1>9. QED
    <2>1. last \in 0..n /\ last # 0 /\ p[last] = last
      BY <1>2, <1>3
    <2>2. sum[last] <= history[last].bytes /\ (spoilt = {} => sum[last] = history[last].bytes)
      BY <1>8, <2>1
    <2>3. QED
      BY <2>1, <2>2 DEF sum

(* The cost timeline (internal/cost/cost.go) of a table whose commits came *)
(* in order and stated their sizes is what each snapshot held; when old    *)
(* snapshots have expired it is never more, for any bytes, any number of   *)
(* commits and whichever of its orders the sort takes.                     *)
THEOREM NoBytesAreInvented == Spec => []NoBytesInvented
  <1>1. Init => TimelineInv
    BY TimelineInvInit DEF Init
  <1>2. TimelineInv /\ [Next]_vars => TimelineInv'
    <2>1. SUFFICES ASSUME TimelineInv, [Next]_vars
                   PROVE  TimelineInv'
      OBVIOUS
    <2>2. CASE UNCHANGED timelineVars
      BY <2>1, <2>2 DEF TimelineInv, InOrder, FromTheFirst, timelineVars
    <2>3. CASE TimelineNext
      BY <2>1, <2>3, TimelineInvStep
    <2>4. QED
      BY <2>1, <2>2, <2>3 DEF Next, vars
  <1>3. TimelineInv => NoBytesInvented
    BY SumsFit
  <1>4. QED
    BY <1>1, <1>2, <1>3, PTL DEF Spec


-----------------------------------------------------------------------------
(* The window of the write pattern.  "After" orders the elements of a list *)
(* strictly, so that as many as it has counts tell them apart.             *)

LEMMA RangesAreFinite ==
    ASSUME NEW n \in Nat
    PROVE  /\ IsFiniteSet(1..n) /\ Cardinality(1..n) = n
           /\ IsFiniteSet(0..(n - 1)) /\ Cardinality(0..(n - 1)) = n
  <1>1. IsFiniteSet(1..n) /\ Cardinality(1..n) = IF 1 > n THEN 0 ELSE n - 1 + 1
    BY FS_Interval
  <1>2. n - 1 \in Int
    OBVIOUS
  <1>3. IsFiniteSet(0..(n - 1)) /\ Cardinality(0..(n - 1)) = IF 0 > n - 1 THEN 0 ELSE n - 1 - 0 + 1
    BY <1>2, FS_Interval
  <1>4. QED
    BY <1>1, <1>3

LEMMA AfterIsOrder ==
    ASSUME NEW ts \in Seq(Int)
    PROVE  /\ \A i \in DOMAIN ts : After(ts, i) \subseteq DOMAIN ts /\ i \notin After(ts, i)
           /\ \A i, j \in DOMAIN ts : i # j => i \in After(ts, j) \/ j \in After(ts, i)
           /\ \A i, j \in DOMAIN ts : j \in After(ts, i) => After(ts, j) \subseteq After(ts, i)
  <1>1. \A i \in DOMAIN ts : ts[i] \in Int /\ i \in Int
    BY ElementOfSeq
  <1>2. \A i \in DOMAIN ts : After(ts, i) \subseteq DOMAIN ts /\ i \notin After(ts, i)
    BY <1>1 DEF After
  <1>3. \A i, j \in DOMAIN ts : i # j => i \in After(ts, j) \/ j \in After(ts, i)
    BY <1>1 DEF After
  <1>4. \A i, j \in DOMAIN ts : j \in After(ts, i) => After(ts, j) \subseteq After(ts, i)
    BY <1>1 DEF After
  <1>5. QED
    BY <1>2, <1>3, <1>4

LEMMA FewerAfterLater ==
    ASSUME NEW ts \in Seq(Int), NEW i \in DOMAIN ts
    PROVE  /\ IsFiniteSet(After(ts, i))
           /\ Cardinality(After(ts, i)) \in 0..(Len(ts) - 1)
           /\ \A j \in After(ts, i) : Cardinality(After(ts, j)) < Cardinality(After(ts, i))
  <1>1. /\ DOMAIN ts = 1..Len(ts) /\ Len(ts) \in Nat
        /\ IsFiniteSet(1..Len(ts)) /\ Cardinality(1..Len(ts)) = Len(ts)
    <2>1. DOMAIN ts = 1..Len(ts) /\ Len(ts) \in Nat
      OBVIOUS
    <2>2. QED
      BY <2>1, RangesAreFinite
  <1>2. /\ IsFiniteSet((1..Len(ts)) \ {i}) /\ Cardinality((1..Len(ts)) \ {i}) = Len(ts) - 1
    <2> DEFINE all == 1..Len(ts)
    <2>1. IsFiniteSet(all) /\ i \in all /\ Cardinality(all) = Len(ts)
      BY <1>1
    <2> HIDE DEF all
    <2>2. /\ IsFiniteSet(all \ {i})
          /\ Cardinality(all \ {i}) = IF i \in all THEN Cardinality(all) - 1 ELSE Cardinality(all)
      BY <2>1, FS_RemoveElement
    <2>3. QED
      BY <2>1, <2>2 DEF all
  <1>3. After(ts, i) \in SUBSET ((1..Len(ts)) \ {i})
    BY <1>1, AfterIsOrder
  <1>4. /\ IsFiniteSet(After(ts, i)) /\ Cardinality(After(ts, i)) <= Len(ts) - 1
        /\ Cardinality(After(ts, i)) \in Nat
    BY <1>2, <1>3, FS_Subset, FS_CardinalityType
  <1>5. ASSUME NEW j \in After(ts, i)
        PROVE  Cardinality(After(ts, j)) < Cardinality(After(ts, i))
    <2>1. j \in DOMAIN ts /\ After(ts, j) \subseteq After(ts, i) \ {j}
      BY AfterIsOrder
    <2>2. /\ IsFiniteSet(After(ts, i) \ {j})
          /\ Cardinality(After(ts, i) \ {j}) = Cardinality(After(ts, i)) - 1
      BY <1>4, FS_RemoveElement
    <2>3. After(ts, j) \in SUBSET (After(ts, i) \ {j})
      BY <2>1
    <2>4. /\ Cardinality(After(ts, j)) <= Cardinality(After(ts, i)) - 1
          /\ Cardinality(After(ts, j)) \in Nat
      BY <2>2, <2>3, FS_Subset, FS_CardinalityType
    <2>5. QED
      BY <1>4, <2>4
  <1>6. QED
    BY <1>1, <1>4, <1>5

(* One element, and only one, has a given number of others after it.       *)
LEMMA OneHasSoManyAfter ==
    ASSUME NEW ts \in Seq(Int), NEW m \in 0..(Len(ts) - 1)
    PROVE  /\ \E i \in DOMAIN ts : Cardinality(After(ts, i)) = m
           /\ \A i, j \in DOMAIN ts :
                 Cardinality(After(ts, i)) = Cardinality(After(ts, j)) => i = j
  <1> DEFINE n == Len(ts)
             count == [i \in 1..n |-> Cardinality(After(ts, i))]
  <1>1. DOMAIN ts = 1..n /\ n \in Nat
    OBVIOUS
  <1>2. \A i, j \in DOMAIN ts : Cardinality(After(ts, i)) = Cardinality(After(ts, j)) => i = j
    <2>1. SUFFICES ASSUME NEW i \in DOMAIN ts, NEW j \in DOMAIN ts, i # j,
                          Cardinality(After(ts, i)) = Cardinality(After(ts, j))
                   PROVE  FALSE
      OBVIOUS
    <2>2. CASE i \in After(ts, j)
      BY <2>1, <2>2, FewerAfterLater
    <2>3. CASE j \in After(ts, i)
      BY <2>1, <2>3, FewerAfterLater
    <2>4. QED
      BY <2>1, <2>2, <2>3, AfterIsOrder
  <1>3. count \in [1..n -> 0..(n - 1)]
    <2>1. \A i \in 1..n : Cardinality(After(ts, i)) \in 0..(n - 1)
      BY <1>1, FewerAfterLater
    <2>2. QED
      BY <2>1
  <1>4. count \in Injection(1..n, 0..(n - 1))
    <2>1. \A i, j \in 1..n : count[i] = count[j] => i = j
      BY <1>1, <1>2
    <2> HIDE DEF count
    <2>2. QED
      BY <1>3, <2>1 DEF Injection, IsInjective
  <1>5. /\ IsFiniteSet(0..(n - 1)) /\ Cardinality(0..(n - 1)) = n
        /\ Cardinality(1..n) = n
    BY <1>1, RangesAreFinite
  <1>6. count \in Surjection(1..n, 0..(n - 1))
    <2> HIDE DEF count, n
    <2>1. QED
      BY <1>4, <1>5, FS_Injection
  <1>7. \E i \in 1..n : count[i] = m
    <2> HIDE DEF count
    <2>1. QED
      BY <1>6 DEF Surjection
  <1>8. QED
    BY <1>1, <1>2, <1>7

(* What is removed from a list leaves the others in their places.          *)
Place(e, j) == IF j < e THEN j ELSE j + 1

LEMMA PartIs ==
    ASSUME NEW ts \in Seq(Int), NEW lo \in 1..(Len(ts) + 1), NEW n \in 0..Len(ts), lo <= n + 1
    PROVE  /\ SubSeq(ts, lo, n) \in Seq(Int) /\ Len(SubSeq(ts, lo, n)) = n + 1 - lo
           /\ \A i \in 1..(n + 1 - lo) : SubSeq(ts, lo, n)[i] = ts[lo + i - 1]
  <1>1. lo \in Int /\ n \in Int /\ n - lo + 1 = n + 1 - lo
    OBVIOUS
  <1>2. \A i \in lo..n : ts[i] \in Int
    BY ElementOfSeq
  <1>3. /\ SubSeq(ts, lo, n) \in Seq(Int)
        /\ Len(SubSeq(ts, lo, n)) = IF lo <= n THEN n - lo + 1 ELSE 0
        /\ \A i \in 1..(n - lo + 1) : SubSeq(ts, lo, n)[i] = ts[lo + i - 1]
    BY <1>1, <1>2, SubSeqProperties
  <1>4. QED
    BY <1>1, <1>3

LEMMA RemovalIs ==
    ASSUME NEW ts \in Seq(Int), NEW e \in DOMAIN ts
    PROVE  /\ RemoveAt(ts, e) \in Seq(Int) /\ Len(RemoveAt(ts, e)) = Len(ts) - 1
           /\ \A j \in 1..(Len(ts) - 1) : RemoveAt(ts, e)[j] = ts[Place(e, j)]
  <1> DEFINE n == Len(ts)
             a == SubSeq(ts, 1, e - 1)
             b == SubSeq(ts, e + 1, n)
  <1>1. n \in Nat /\ e \in 1..n /\ \A i \in 1..n : ts[i] \in Int
    BY ElementOfSeq
  <1>2. /\ a \in Seq(Int) /\ Len(a) = e - 1 /\ \A i \in 1..(e - 1) : a[i] = ts[i]
    <2>1. 1 \in 1..(n + 1) /\ e - 1 \in 0..n /\ 1 <= (e - 1) + 1
      BY <1>1
    <2>2. /\ a \in Seq(Int) /\ Len(a) = (e - 1) + 1 - 1
          /\ \A i \in 1..((e - 1) + 1 - 1) : a[i] = ts[1 + i - 1]
      BY <2>1, PartIs
    <2> HIDE DEF a
    <2>3. QED
      BY <1>1, <2>2
  <1>3. /\ b \in Seq(Int) /\ Len(b) = n - e /\ \A i \in 1..(n - e) : b[i] = ts[e + i]
    <2>1. e + 1 \in 1..(n + 1) /\ n \in 0..n /\ e + 1 <= n + 1
      BY <1>1
    <2>2. /\ b \in Seq(Int) /\ Len(b) = n + 1 - (e + 1)
          /\ \A i \in 1..(n + 1 - (e + 1)) : b[i] = ts[(e + 1) + i - 1]
      BY <2>1, PartIs
    <2> HIDE DEF b
    <2>3. n + 1 - (e + 1) = n - e /\ \A i \in 1..(n - e) : (e + 1) + i - 1 = e + i
      BY <1>1
    <2>4. QED
      BY <2>2, <2>3
  <1>4. RemoveAt(ts, e) = a \o b
    BY DEF RemoveAt
  <1> HIDE DEF a, b
  <1>5. /\ a \o b \in Seq(Int) /\ Len(a \o b) = n - 1
        /\ \A j \in 1..(n - 1) : (a \o b)[j] = IF j <= e - 1 THEN a[j] ELSE b[j - (e - 1)]
    <2>1. /\ a \o b \in Seq(Int) /\ Len(a \o b) = Len(a) + Len(b)
          /\ \A j \in 1..(Len(a) + Len(b)) :
                (a \o b)[j] = IF j <= Len(a) THEN a[j] ELSE b[j - Len(a)]
      BY <1>2, <1>3, ConcatProperties
    <2>2. Len(a) + Len(b) = n - 1
      BY <1>1, <1>2, <1>3
    <2>3. QED
      BY <1>2, <2>1, <2>2
  <1>6. ASSUME NEW j \in 1..(n - 1)
        PROVE  (a \o b)[j] = ts[Place(e, j)]
    <2>1. CASE j < e
      BY <1>1, <1>2, <1>5, <2>1 DEF Place
    <2>2. CASE ~ (j < e)
      <3>1. j - (e - 1) \in 1..(n - e) /\ e + (j - (e - 1)) = j + 1 /\ ~ (j <= e - 1)
        BY <1>1, <2>2
      <3>2. QED
        BY <1>3, <1>5, <2>2, <3>1 DEF Place
    <2>3. QED
      BY <2>1, <2>2
  <1>7. QED
    BY <1>4, <1>5, <1>6

(* It leaves as many after an element as there were, without itself.       *)
LEMMA AfterRemoval ==
    ASSUME NEW ts \in Seq(Int), NEW e \in DOMAIN ts, NEW j \in 1..(Len(ts) - 1)
    PROVE  Cardinality(After(RemoveAt(ts, e), j)) = Cardinality(After(ts, Place(e, j)) \ {e})
  <1> DEFINE n == Len(ts)
             us == RemoveAt(ts, e)
             A == After(us, j)
             B == After(ts, Place(e, j)) \ {e}
             f == [k \in A |-> Place(e, k)]
  <1>1. n \in Nat /\ e \in 1..n /\ DOMAIN ts = 1..n
    OBVIOUS
  <1>2. /\ us \in Seq(Int) /\ Len(us) = n - 1 /\ DOMAIN us = 1..(n - 1)
        /\ \A k \in 1..(n - 1) : us[k] = ts[Place(e, k)]
    BY RemovalIs
  <1>3. /\ \A k \in 1..(n - 1) : Place(e, k) \in (1..n) \ {e}
        /\ \A k, l \in 1..(n - 1) : (k > l) <=> (Place(e, k) > Place(e, l))
        /\ \A i \in (1..n) \ {e} : \E k \in 1..(n - 1) : Place(e, k) = i
    <2>1. \A k \in 1..(n - 1) : Place(e, k) \in (1..n) \ {e}
      BY <1>1 DEF Place
    <2>2. \A k, l \in 1..(n - 1) : (k > l) <=> (Place(e, k) > Place(e, l))
      BY <1>1 DEF Place
    <2>3. ASSUME NEW i \in (1..n) \ {e}
          PROVE  \E k \in 1..(n - 1) : Place(e, k) = i
      <3>1. CASE i < e
        BY <1>1, <3>1 DEF Place
      <3>2. CASE i > e
        <4>1. i - 1 \in 1..(n - 1) /\ Place(e, i - 1) = i
          BY <1>1, <3>2 DEF Place
        <4>2. QED
          BY <4>1
      <3>3. QED
        BY <1>1, <3>1, <3>2
    <2>4. QED
      BY <2>1, <2>2, <2>3
  <1>4. \A k \in 1..(n - 1) : (k \in A) <=> (Place(e, k) \in B)
    <2>1. SUFFICES ASSUME NEW k \in 1..(n - 1)
                   PROVE  (k \in A) <=> (Place(e, k) \in B)
      OBVIOUS
    <2>2. (k \in A) <=> (us[k] > us[j] \/ (us[k] = us[j] /\ k > j))
      BY <1>2, <2>1 DEF After
    <2>3. (Place(e, k) \in B) <=> \/ ts[Place(e, k)] > ts[Place(e, j)]
                                  \/ ts[Place(e, k)] = ts[Place(e, j)] /\ Place(e, k) > Place(e, j)
      BY <1>1, <1>3, <2>1 DEF After
    <2>4. QED
      BY <1>2, <1>3, <2>1, <2>2, <2>3
  <1>5. A \subseteq 1..(n - 1) /\ B \subseteq (1..n) \ {e}
    BY <1>1, <1>2 DEF After
  <1>6. IsFiniteSet(A)
    BY <1>2, FewerAfterLater
  <1>7. f \in [A -> B]
    <2> HIDE DEF A, B
    <2>1. QED
      BY <1>4, <1>5
  <1>8. \A k, l \in A : f[k] = f[l] => k = l
    <2> HIDE DEF A, B
    <2>1. SUFFICES ASSUME NEW k \in A, NEW l \in A, f[k] = f[l]
                   PROVE  k = l
      OBVIOUS
    <2>2. k \in 1..(n - 1) /\ l \in 1..(n - 1) /\ Place(e, k) = Place(e, l)
      BY <1>5, <2>1
    <2>3. Place(e, k) \in 1..n
      BY <1>3, <2>2
    <2>4. ~ (k > l) /\ ~ (l > k)
      BY <1>3, <2>2, <2>3
    <2>5. QED
      BY <1>1, <2>2, <2>4
  <1>9. \A i \in B : \E k \in A : f[k] = i
    <2> HIDE DEF A, B
    <2>1. SUFFICES ASSUME NEW i \in B
                   PROVE  \E k \in A : f[k] = i
      OBVIOUS
    <2>2. PICK k \in 1..(n - 1) : Place(e, k) = i
      BY <1>3, <1>5
    <2>3. k \in A
      BY <1>4, <2>1, <2>2
    <2>4. QED
      BY <2>2, <2>3
  <1>10. ExistsBijection(A, B)
    <2> HIDE DEF A, B, f
    <2>1. f \in Bijection(A, B)
      BY <1>7, <1>8, <1>9 DEF Bijection, Injection, IsInjective, Surjection
    <2>2. QED
      BY <2>1 DEF ExistsBijection
  <1>11. Cardinality(B) = Cardinality(A)
    <2> HIDE DEF A, B
    <2>1. QED
      BY <1>6, <1>10, FS_Bijection
  <1>12. QED
    BY <1>11


(* What has the whole window after it is not in the window.                *)
LEMMA WindowKept ==
    ASSUME NEW ts \in Seq(Int), NEW e \in DOMAIN ts, Cardinality(After(ts, e)) >= MaxWindow
    PROVE  /\ Window(RemoveAt(ts, e)) = Window(ts)
           /\ Len(ts) >= 2 /\ Len(RemoveAt(ts, e)) >= 2
  <1> DEFINE n == Len(ts)
             us == RemoveAt(ts, e)
             w == MaxWindow
  <1>1. n \in Nat /\ e \in 1..n /\ DOMAIN ts = 1..n /\ w \in Nat /\ w >= 2
    BY WritePatternAssumption
  <1>2. Cardinality(After(ts, e)) \in 0..(n - 1) /\ n - 1 >= w
    BY <1>1, FewerAfterLater
  <1>3. /\ us \in Seq(Int) /\ Len(us) = n - 1 /\ DOMAIN us = 1..(n - 1)
        /\ \A k \in 1..(n - 1) : us[k] = ts[Place(e, k)]
    BY RemovalIs
  <1>4. Len(us) = n - 1 /\ n - 1 \in Nat /\ n - 1 >= 2 /\ n - 1 >= w
    <2>1. Len(us) = n - 1
      BY RemovalIs
    <2> HIDE DEF us
    <2>2. QED
      BY <1>1, <1>2, <2>1
  <1>5. Window(ts) = Trailing(ts, w)
    BY <1>1, <1>2 DEF Window
  <1>6. Window(us) = Trailing(us, w)
    <2> HIDE DEF us
    <2>1. Len(us) > w \/ Len(us) = w
      <3> HIDE DEF n, w
      <3>1. QED
        BY <1>1, <1>4
    <2>2. CASE Len(us) > w
      BY <2>2 DEF Window
    <2>3. CASE Len(us) = w
      <3>1. ~ (Len(us) > w)
        BY <1>1, <2>3
      <3>2. QED
        BY <2>3, <3>1 DEF Window
    <2>4. QED
      BY <2>1, <2>2, <2>3
  <1>7. ASSUME NEW k \in 1..w
        PROVE  Trailing(ts, w)[k] = Trailing(us, w)[k]
    <2> DEFINE m == w - k
               Last1(i) == i \in DOMAIN ts /\ Cardinality(After(ts, i)) = m
               Last2(j) == j \in DOMAIN us /\ Cardinality(After(us, j)) = m
    <2> HIDE DEF us
    <2>1. m \in 0..(n - 1) /\ m \in 0..(Len(us) - 1) /\ m < w
      BY <1>1, <1>2, <1>4
    <2>2. PICK i \in DOMAIN ts : Cardinality(After(ts, i)) = m
      <3> HIDE DEF m
      <3>1. QED
        BY <2>1, OneHasSoManyAfter
    <2>3. i # e /\ e \notin After(ts, i)
      <3>1. i # e
        BY <1>1, <1>2, <2>1, <2>2
      <3>2. ~ (e \in After(ts, i))
        <4>1. SUFFICES ASSUME e \in After(ts, i)
                       PROVE  FALSE
          OBVIOUS
        <4>2. Cardinality(After(ts, e)) < Cardinality(After(ts, i))
          BY <4>1, FewerAfterLater
        <4>3. QED
          BY <1>1, <1>2, <2>1, <2>2, <4>2
      <3>3. QED
        BY <3>1, <3>2
    <2>4. PICK j \in 1..(n - 1) : Place(e, j) = i
      <3>1. CASE i < e
        <4>1. i \in 1..(n - 1) /\ Place(e, i) = i
          BY <1>1, <2>2, <3>1 DEF Place
        <4>2. QED
          BY <4>1
      <3>2. CASE i > e
        <4>1. i - 1 \in 1..(n - 1) /\ Place(e, i - 1) = i
          BY <1>1, <2>2, <3>2 DEF Place
        <4>2. QED
          BY <4>1
      <3>3. QED
        BY <1>1, <2>2, <2>3, <3>1, <3>2
    <2>5. Cardinality(After(us, j)) = m
      <3>1. After(ts, i) \ {e} = After(ts, i)
        BY <2>3
      <3>2. Cardinality(After(us, j)) = Cardinality(After(ts, Place(e, j)) \ {e})
        BY <2>4, AfterRemoval DEF us
      <3>3. QED
        BY <2>2, <2>4, <3>1, <3>2
    <2>6. (CHOOSE i1 \in DOMAIN ts : Cardinality(After(ts, i1)) = m) = i
      <3> HIDE DEF m
      <3>1. \A i1 \in DOMAIN ts : Cardinality(After(ts, i1)) = m => i1 = i
        BY <2>1, <2>2, OneHasSoManyAfter
      <3>2. QED
        BY <2>2, <3>1
    <2>7. (CHOOSE i1 \in DOMAIN us : Cardinality(After(us, i1)) = m) = j
      <3> HIDE DEF m
      <3>1. j \in DOMAIN us
        BY <1>3, <2>4
      <3>2. \A i1 \in DOMAIN us : Cardinality(After(us, i1)) = m => i1 = j
        BY <1>3, <2>1, <2>5, <3>1, OneHasSoManyAfter
      <3>3. QED
        BY <2>5, <3>1, <3>2
    <2>8. Trailing(ts, w)[k] = ts[i] /\ Trailing(us, w)[k] = us[j]
      BY <2>6, <2>7 DEF Trailing
    <2>9. QED
      BY <1>3, <2>4, <2>8
  <1>8. Trailing(ts, w) = Trailing(us, w)
    <2>1. DOMAIN Trailing(ts, w) = 1..w /\ DOMAIN Trailing(us, w) = 1..w
      BY DEF Trailing
    <2>2. Trailing(ts, w) = [k \in 1..w |-> Trailing(ts, w)[k]]
      BY DEF Trailing
    <2>3. Trailing(us, w) = [k \in 1..w |-> Trailing(us, w)[k]]
      BY DEF Trailing
    <2>4. QED
      BY <1>7, <2>2, <2>3
  <1>9. QED
    <2> HIDE DEF us
    <2>1. Window(us) = Window(ts) /\ Len(ts) >= 2 /\ Len(us) >= 2
      BY <1>1, <1>5, <1>6, <1>8, <1>4
    <2>2. QED
      BY <1>1, <1>4, <2>1 DEF us

(* The timestamps are integers, with no bound on them nor on their number. *)
SnapsInv == snaps \in Seq(Int)

LEMMA SnapsInvStep == SnapsInv /\ PatternNext => SnapsInv'
  <1>1. SUFFICES ASSUME SnapsInv, PatternNext
                 PROVE  SnapsInv'
    OBVIOUS
  <1>2. CASE \E step \in Steps : Commit(step)
    <2>1. PICK step \in Steps : Commit(step)
      BY <1>2
    <2>2. (IF snaps = <<>> THEN 0 ELSE Last(snaps) + step) \in Int
      <3>1. CASE snaps = <<>>
        BY <3>1
      <3>2. CASE snaps # <<>>
        <4>1. Len(snaps) \in 1..Len(snaps)
          BY <1>1, <3>2, EmptySeq DEF SnapsInv
        <4>2. Last(snaps) \in Int
          BY <1>1, <4>1, ElementOfSeq DEF SnapsInv, Last
        <4>3. step \in Int
          BY WritePatternAssumption
        <4>4. QED
          BY <3>2, <4>2, <4>3
      <3>3. QED
        BY <3>1, <3>2
    <2>3. snaps' = Append(snaps, IF snaps = <<>> THEN 0 ELSE Last(snaps) + step)
      BY <2>1 DEF Commit
    <2>4. QED
      BY <1>1, <2>2, <2>3 DEF SnapsInv
  <1>3. CASE \E i \in DOMAIN snaps : Expire(i)
    BY <1>1, <1>3, RemovalIs DEF Expire, SnapsInv
  <1>4. QED
    BY <1>1, <1>2, <1>3 DEF PatternNext

LEMMA OldSnapshotsDoNotCount ==
    ASSUME SnapsInv, NEW i \in DOMAIN snaps, snaps' = RemoveAt(snaps, i),
           Cardinality(Newer(i)) >= MaxWindow
    PROVE  Classify(snaps') = Verdict
  <1>1. snaps \in Seq(Int)
    BY DEF SnapsInv
  <1>2. Cardinality(After(snaps, i)) >= MaxWindow
    <2>1. IsFiniteSet(After(snaps, i)) /\ Cardinality(After(snaps, i)) \in 0..(Len(snaps) - 1)
      BY <1>1, FewerAfterLater
    <2>2. Newer(i) \in SUBSET After(snaps, i)
      BY DEF Newer, After
    <2>3. /\ Cardinality(Newer(i)) <= Cardinality(After(snaps, i))
          /\ Cardinality(Newer(i)) \in Nat
      BY <2>1, <2>2, FS_Subset, FS_CardinalityType
    <2>4. MaxWindow \in Nat
      BY WritePatternAssumption
    <2>5. QED
      BY <2>1, <2>3, <2>4
  <1>3. /\ Window(RemoveAt(snaps, i)) = Window(snaps)
        /\ Len(snaps) >= 2 /\ Len(RemoveAt(snaps, i)) >= 2
    BY <1>1, <1>2, WindowKept
  <1>4. Intervals(RemoveAt(snaps, i)) = Intervals(snaps)
    BY <1>3, Zenon DEF Intervals
  <1>5. ~ (Len(snaps) < 2) /\ ~ (Len(RemoveAt(snaps, i)) < 2)
    <2>1. Len(snaps) \in Nat /\ Len(RemoveAt(snaps, i)) \in Nat
      BY <1>1, RemovalIs
    <2>2. QED
      BY <1>3, <2>1
  <1>6. QED
    BY <1>4, <1>5, Zenon DEF Classify, Verdict

(* A snapshot with a whole window of newer ones after it has no influence  *)
(* on the verdict (internal/writepattern/classifier.go): expiring it       *)
(* changes neither pattern nor interval, for any window size, any number   *)
(* of snapshots, in whatever order the metadata lists them.                *)
THEOREM OldSnapshotsAreIgnored == Spec => OnlyTheWindowCounts
  <1>1. Init => SnapsInv
    BY DEF Init, PatternInit, SnapsInv
  <1>2. SnapsInv /\ [Next]_vars => SnapsInv'
    <2>1. SUFFICES ASSUME SnapsInv, [Next]_vars
                   PROVE  SnapsInv'
      OBVIOUS
    <2>2. CASE UNCHANGED patternVars
      BY <2>1, <2>2 DEF SnapsInv, patternVars
    <2>3. CASE PatternNext
      BY <2>1, <2>3, SnapsInvStep
    <2>4. QED
      BY <2>1, <2>2, <2>3 DEF Next, vars
  <1>3. SnapsInv /\ [Next]_vars
          => [\A i \in DOMAIN snaps :
                 snaps' = RemoveAt(snaps, i) /\ Cardinality(Newer(i)) >= MaxWindow
                    => Classify(snaps') = Verdict]_patternVars
    BY OldSnapshotsDoNotCount
  <1>4. QED
    BY <1>1, <1>2, <1>3, PTL DEF Spec, OnlyTheWindowCounts

=============================================================================
