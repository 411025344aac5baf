--------------------------- MODULE CommandsProofs ---------------------------
(***************************************************************************)
(* What holds of pii and migration for every number of files, snapshots,   *)
(* row groups and values, whatever writers do to the table meanwhile, and  *)
(* of bench for every number of jobs, tables and tags.                     *)
(***************************************************************************)
EXTENDS Commands, Bench, IcebergTableProofs, FiniteSetTheorems, TLAPS

-----------------------------------------------------------------------------
(* The invariant, part by part.                                            *)

Before == {"idle", "loaded", "list"}

(* The snapshots of the locked metadata had been written when it was read: *)
(* no writer touches them again.                                           *)
LockedIsWritten == \A s \in locked.snaps : mtime[ListObj(s)] # 0

(* What is still to be read and what was collected is of the snapshot that *)
(* was current then.                                                       *)
WalkStaysInside ==
    /\ phase \in Before => files = {} /\ pending = {}
    /\ pending \subseteq TargetManifests
    /\ files \subseteq TargetFiles
    /\ command = "pii" => files \subseteq TargetData

(* pii: when --max-files has room for the snapshot, nothing is left out.   *)
DataOf(M) == Alive(M) \ DeleteFiles
Fits == Cardinality(TargetData) <= flags.maxFiles
Answered == phase = "done" /\ exit \in {0, 3}

CollectsWhatFits ==
    command = "pii" /\ Fits =>
        /\ phase = "manifests" => files = DataOf(TargetManifests \ pending)
        /\ phase = "sampling" \/ Answered => files = TargetData

(* pii: the tally is that of all row groups of the files sampled so far.   *)
GroupsOf(fs) == UNION {Groups[f] : f \in fs}
Counts(agg, groups, n) ==
    \A c \in Columns : /\ agg.rows[c] = RowsIn(c, groups, n)
                       /\ \A t \in Detected : agg.matches[c][t] = MatchesIn(c, t, groups, n)

TallySoFar ==
    command = "pii" =>
        /\ phase \in Before \cup {"manifests"} => toOpen = {} /\ tally = NoTally
        /\ (phase = "sampling" \/ Answered)
               /\ flags.exhaustive /\ skipped = {} /\ damaged = {}
             => Counts(tally, GroupsOf(files \ toOpen), flags.rows)
        /\ Answered => toOpen = {} /\ exit = Code(tally)

(* migration: the count is that of the manifests swept, unless an error    *)
(* was swallowed.                                                          *)
SweepCounts ==
    /\ phase \in Before => fileCount = 0 /\ risk = "none"
    /\ command = "migration" /\ (phase = "manifests" \/ risk # "none") /\ ~swallowed =>
         /\ files = Alive(TargetManifests \ pending)
         /\ fileCount = Cardinality(files)

(* migration: the risk is that of what was found, and in the code.         *)
RiskOfFindings ==
    /\ risk # "none" =>
         /\ command = "migration" /\ phase = "done" /\ Over
         /\ risk = Risk(MetadataFindings \cup DataFindings(files))
    /\ command = "migration" /\ exit \in {0, 1} => risk # "none" /\ exit >= CodeOf(risk)

IInv ==
    /\ TypeOK
    /\ TableInv
    /\ LockedIsWritten
    /\ WalkStaysInside
    /\ CollectsWhatFits
    /\ TallySoFar
    /\ SweepCounts
    /\ RiskOfFindings

-----------------------------------------------------------------------------
(* Finite sets.                                                            *)

(* The values of a function over a finite set.                             *)
LEMMA ImageFinite ==
    ASSUME NEW S, IsFiniteSet(S), NEW F
    PROVE  IsFiniteSet({F[x] : x \in S})
  <1> DEFINE T == {F[x] : x \in S}
             f == [x \in S |-> F[x]]
  <1>1. f \in Surjection(S, T)
    BY DEF Surjection
  <1>2. QED
    BY <1>1, FS_Surjection

LEMMA DisjointUnion ==
    ASSUME NEW S, IsFiniteSet(S), NEW T, IsFiniteSet(T), S \cap T = {}
    PROVE  Cardinality(S \cup T) = Cardinality(S) + Cardinality(T)
  <1>1. Cardinality(S \cup T) = Cardinality(S) + Cardinality(T) - Cardinality(S \cap T)
    BY FS_Union
  <1>2. Cardinality(S \cap T) = 0
    BY FS_EmptySet
  <1>3. Cardinality(S) \in Nat /\ Cardinality(T) \in Nat
    BY FS_CardinalityType
  <1>4. QED
    BY <1>1, <1>2, <1>3

LEMMA FilesFinite ==
    ASSUME NEW S \in SUBSET DataFiles
    PROVE  IsFiniteSet(S) /\ Cardinality(S) \in Nat
  BY TableAssumption, FS_Subset, FS_CardinalityType

LEMMA SnapsFinite ==
    ASSUME NEW S \in SUBSET Snaps
    PROVE  IsFiniteSet(S) /\ Cardinality(S) \in Nat
  <1>1. IsFiniteSet(Snaps)
    BY TableAssumption, FS_Interval DEF Snaps
  <1>2. QED
    BY <1>1, FS_Subset, FS_CardinalityType

-----------------------------------------------------------------------------
(* Row groups, their values and what is counted of them.                   *)
AllGroups == GroupsOf(DataFiles)

LEMMA GroupsFinite ==
    ASSUME NEW fs \in SUBSET DataFiles
    PROVE  GroupsOf(fs) \in SUBSET AllGroups /\ IsFiniteSet(GroupsOf(fs))
  <1>1. IsFiniteSet({Groups[f] : f \in fs})
    BY FilesFinite, ImageFinite
  <1>2. \A G \in {Groups[f] : f \in fs} : IsFiniteSet(G)
    BY PIIAssumption
  <1>3. IsFiniteSet(UNION {Groups[f] : f \in fs})
    BY <1>1, <1>2, FS_UNION
  <1>4. QED
    BY <1>3 DEF GroupsOf, AllGroups

LEMMA ValuesFinite ==
    ASSUME NEW c \in Columns, NEW g \in AllGroups
    PROVE  /\ NonNull(c, g) \in SUBSET Nat /\ IsFiniteSet(NonNull(c, g))
           /\ \A i \in NonNull(c, g) : Sample[g][c][i] \in Values
  <1>1. Sample[g][c] \in Seq(Values \cup {Null})
    BY PIIAssumption DEF AllGroups, GroupsOf
  <1>2. DOMAIN Sample[g][c] = 1..Len(Sample[g][c]) /\ Len(Sample[g][c]) \in Nat
    BY <1>1
  <1>3. IsFiniteSet(DOMAIN Sample[g][c])
    BY <1>2, FS_Interval
  <1>4. \A i \in DOMAIN Sample[g][c] : Sample[g][c][i] \in Values \cup {Null}
    BY <1>1
  <1>5. QED
    BY <1>2, <1>3, <1>4, FS_Subset DEF NonNull

(* Within --rows-per-group, every value that is there is read.             *)
LEMMA AllAreRead ==
    ASSUME NEW c \in Columns, NEW g \in AllGroups, NEW n \in Nat,
           Cardinality(NonNull(c, g)) <= n
    PROVE  Read(c, g, n) = NonNull(c, g)
  <1>1. ASSUME NEW i \in NonNull(c, g)
        PROVE  Cardinality({j \in NonNull(c, g) : j < i}) < n
    <2> DEFINE before == {j \in NonNull(c, g) : j < i}
    <2>1. /\ IsFiniteSet(NonNull(c, g)) /\ IsFiniteSet(before)
          /\ Cardinality(NonNull(c, g)) \in Nat /\ Cardinality(before) \in Nat
      BY ValuesFinite, FS_Subset, FS_CardinalityType
    <2>2. i \notin before
      BY ValuesFinite
    <2>3. Cardinality(before \cup {i}) = Cardinality(before) + 1
      BY <2>1, <2>2, FS_AddElement
    <2>4. Cardinality(before \cup {i}) <= Cardinality(NonNull(c, g))
      BY <2>1, FS_Subset
    <2>5. QED
      BY <2>1, <2>3, <2>4
  <1>2. QED
    BY <1>1 DEF Read

LEMMA CellsFinite ==
    ASSUME NEW c \in Columns, NEW groups \in SUBSET AllGroups, IsFiniteSet(groups), NEW n
    PROVE  IsFiniteSet(Cells(c, groups, n))
  <1> DEFINE F == [g \in groups |-> {<<g, i>> : i \in Read(c, g, n)}]
  <1>1. ASSUME NEW g \in groups
        PROVE  IsFiniteSet(F[g])
    <2>1. g \in AllGroups
      OBVIOUS
    <2>2. IsFiniteSet(Read(c, g, n))
      BY <2>1, ValuesFinite, FS_Subset DEF Read
    <2> DEFINE G == [i \in Read(c, g, n) |-> <<g, i>>]
    <2>3. IsFiniteSet({G[i] : i \in Read(c, g, n)})
      BY <2>2, ImageFinite
    <2>4. F[g] = {G[i] : i \in Read(c, g, n)}
      OBVIOUS
    <2>5. QED
      BY <2>3, <2>4
  <1>2. IsFiniteSet({F[g] : g \in groups})
    BY ImageFinite
  <1>3. IsFiniteSet(UNION {F[g] : g \in groups})
    BY <1>1, <1>2, FS_UNION
  <1>4. Cells(c, groups, n) = UNION {F[g] : g \in groups}
    BY DEF Cells
  <1>5. QED
    BY <1>3, <1>4

Detecting(c, t, groups, n) == {r \in Cells(c, groups, n) : t \in Detect(Sample[r[1]][c][r[2]])}

(* Rows and matches are naturals, and those of groups apart add up.        *)
LEMMA CountsOfGroups ==
    ASSUME NEW c \in Columns, NEW t, NEW groups \in SUBSET AllGroups, IsFiniteSet(groups), NEW n
    PROVE  /\ IsFiniteSet(Cells(c, groups, n)) /\ IsFiniteSet(Detecting(c, t, groups, n))
           /\ RowsIn(c, groups, n) \in Nat /\ MatchesIn(c, t, groups, n) \in Nat
  <1>1. IsFiniteSet(Cells(c, groups, n))
    BY CellsFinite
  <1>2. IsFiniteSet(Detecting(c, t, groups, n))
    BY <1>1, FS_Subset DEF Detecting
  <1>3. QED
    BY <1>1, <1>2, FS_CardinalityType DEF RowsIn, MatchesIn, Detecting

LEMMA CountsAddUp ==
    ASSUME NEW c \in Columns, NEW t,
           NEW G \in SUBSET AllGroups, IsFiniteSet(G),
           NEW H \in SUBSET AllGroups, IsFiniteSet(H), G \cap H = {}, NEW n
    PROVE  /\ RowsIn(c, G \cup H, n) = RowsIn(c, G, n) + RowsIn(c, H, n)
           /\ MatchesIn(c, t, G \cup H, n) = MatchesIn(c, t, G, n) + MatchesIn(c, t, H, n)
  <1>1. /\ Cells(c, G \cup H, n) = Cells(c, G, n) \cup Cells(c, H, n)
        /\ Cells(c, G, n) \cap Cells(c, H, n) = {}
    BY DEF Cells
  <1>2. /\ Detecting(c, t, G \cup H, n) = Detecting(c, t, G, n) \cup Detecting(c, t, H, n)
        /\ Detecting(c, t, G, n) \cap Detecting(c, t, H, n) = {}
    BY <1>1 DEF Detecting
  <1>3. /\ IsFiniteSet(Cells(c, G, n)) /\ IsFiniteSet(Cells(c, H, n))
        /\ IsFiniteSet(Detecting(c, t, G, n)) /\ IsFiniteSet(Detecting(c, t, H, n))
    BY CountsOfGroups
  <1>4. RowsIn(c, G \cup H, n) = RowsIn(c, G, n) + RowsIn(c, H, n)
    BY <1>1, <1>3, DisjointUnion DEF RowsIn
  <1>5. /\ MatchesIn(c, t, G \cup H, n) = Cardinality(Detecting(c, t, G \cup H, n))
        /\ MatchesIn(c, t, G, n) = Cardinality(Detecting(c, t, G, n))
        /\ MatchesIn(c, t, H, n) = Cardinality(Detecting(c, t, H, n))
    BY DEF MatchesIn, Detecting
  <1>6. Cardinality(Detecting(c, t, G, n) \cup Detecting(c, t, H, n))
          = Cardinality(Detecting(c, t, G, n)) + Cardinality(Detecting(c, t, H, n))
    BY <1>2, <1>3, DisjointUnion
  <1>7. QED
    BY <1>2, <1>4, <1>5, <1>6

Tallies == [rows : [Columns -> Nat], matches : [Columns -> [Detected -> Nat]]]

LEMMA RecordType ==
    ASSUME NEW before \in Tallies, NEW groups \in SUBSET AllGroups, IsFiniteSet(groups), NEW n
    PROVE  Record(before, groups, n) \in Tallies
  <1>1. \A c \in Columns : RowsIn(c, groups, n) \in Nat
    BY CountsOfGroups
  <1>2. \A c \in Columns, t \in Detected : MatchesIn(c, t, groups, n) \in Nat
    BY CountsOfGroups
  <1>3. [c \in Columns |-> before.rows[c] + RowsIn(c, groups, n)] \in [Columns -> Nat]
    BY <1>1 DEF Tallies
  <1>4. [c \in Columns |-> [t \in Detected |-> before.matches[c][t] + MatchesIn(c, t, groups, n)]]
          \in [Columns -> [Detected -> Nat]]
    BY <1>2 DEF Tallies
  <1>5. QED
    BY <1>3, <1>4 DEF Record, Tallies

(* Recording one more file keeps the tally that of the groups recorded.    *)
LEMMA RecordCounts ==
    ASSUME NEW fs \in SUBSET DataFiles, NEW f \in DataFiles \ fs,
           NEW n, NEW before, Counts(before, GroupsOf(fs), n)
    PROVE  Counts(Record(before, Groups[f], n), GroupsOf(fs \cup {f}), n)
  <1> DEFINE G == GroupsOf(fs)
             H == Groups[f]
  <1>1. GroupsOf(fs \cup {f}) = G \cup H
    BY DEF GroupsOf
  <1>2. G \cap H = {}
    BY PIIAssumption DEF GroupsOf
  <1>3. G \in SUBSET AllGroups /\ IsFiniteSet(G) /\ H \in SUBSET AllGroups /\ IsFiniteSet(H)
    <2>1. H = GroupsOf({f}) /\ {f} \in SUBSET DataFiles
      BY DEF GroupsOf
    <2>2. QED
      BY <2>1, GroupsFinite
  <1>4. ASSUME NEW c \in Columns
        PROVE  /\ Record(before, H, n).rows[c] = RowsIn(c, G \cup H, n)
               /\ \A t \in Detected : Record(before, H, n).matches[c][t] = MatchesIn(c, t, G \cup H, n)
    <2>1. before.rows[c] = RowsIn(c, G, n) /\ \A t \in Detected : before.matches[c][t] = MatchesIn(c, t, G, n)
      BY DEF Counts
    <2>2. /\ Record(before, H, n).rows[c] = before.rows[c] + RowsIn(c, H, n)
          /\ \A t \in Detected :
               Record(before, H, n).matches[c][t] = before.matches[c][t] + MatchesIn(c, t, H, n)
      BY DEF Record
    <2> HIDE DEF G, H
    <2>3. \A t \in Detected : MatchesIn(c, t, G \cup H, n) = MatchesIn(c, t, G, n) + MatchesIn(c, t, H, n)
      BY <1>2, <1>3, CountsAddUp
    <2>4. RowsIn(c, G \cup H, n) = RowsIn(c, G, n) + RowsIn(c, H, n)
      BY <1>2, <1>3, CountsAddUp
    <2>5. QED
      BY <2>1, <2>2, <2>3, <2>4
  <1>5. QED
    BY <1>1, <1>4 DEF Counts

(* Nothing recorded.                                                       *)
LEMMA NothingCounted ==
    ASSUME NEW n
    PROVE  /\ NoTally \in Tallies
           /\ Counts(NoTally, GroupsOf({}), n)
           /\ Code(NoTally) = 0
  <1>1. GroupsOf({}) = {} /\ \A c : Cells(c, {}, n) = {}
    BY DEF GroupsOf, Cells
  <1>2. \A c : RowsIn(c, {}, n) = 0 /\ \A t : MatchesIn(c, t, {}, n) = 0
    BY <1>1, FS_EmptySet DEF RowsIn, MatchesIn
  <1>3. Counts(NoTally, GroupsOf({}), n)
    BY <1>1, <1>2 DEF Counts, NoTally
  <1>4. Findings(NoTally) = {}
    BY DEF Findings, NoTally
  <1>5. QED
    BY <1>3, <1>4 DEF Code, NoTally, Tallies

-----------------------------------------------------------------------------
(* What the walk follows.                                                  *)
LEMMA TargetTypes ==
    ASSUME TableTypeOK, locked \in TableMetadata
    PROVE  /\ TargetManifests \in SUBSET Snaps
           /\ IsFiniteSet(TargetManifests)
           /\ TargetFiles \in SUBSET DataFiles /\ IsFiniteSet(TargetFiles)
           /\ TargetData \in SUBSET DataFiles /\ IsFiniteSet(TargetData)
           /\ Target # NoSnap => Target \in locked.snaps /\ Target \in Snaps
           /\ \A m \in Snaps : Present(m) \in SUBSET DataFiles
           /\ \A M \in SUBSET Snaps : Alive(M) \in SUBSET DataFiles
  <1>1. Target # NoSnap => Target \in locked.snaps /\ Target \in Snaps
    BY DEF Target, TableMetadata
  <1>2. TargetManifests \in SUBSET Snaps
    BY <1>1 DEF TargetManifests, TableTypeOK
  <1>3. /\ \A m \in Snaps : Present(m) \in SUBSET DataFiles
        /\ \A M \in SUBSET Snaps : Alive(M) \in SUBSET DataFiles
    BY DEF Present, Alive, TableTypeOK
  <1>4. TargetFiles \in SUBSET DataFiles /\ TargetData \in SUBSET DataFiles
    BY <1>2, <1>3 DEF TargetFiles, TargetData
  <1>5. QED
    BY <1>1, <1>2, <1>3, <1>4, FilesFinite, SnapsFinite

(* One manifest more: its files are files of the snapshot, and no other    *)
(* manifest has them.                                                      *)
LEMMA OneMoreManifest ==
    ASSUME TableTypeOK, locked \in TableMetadata, ManifestsAreDisjoint,
           NEW M \in SUBSET TargetManifests, NEW m \in M
    PROVE  /\ Alive(TargetManifests \ (M \ {m})) = Alive(TargetManifests \ M) \cup Present(m)
           /\ Alive(TargetManifests \ M) \cap Present(m) = {}
           /\ Present(m) \subseteq TargetFiles
           /\ Alive(TargetManifests \ M) \subseteq TargetFiles
  <1>1. TargetManifests \ (M \ {m}) = (TargetManifests \ M) \cup {m} /\ m \in TargetManifests
    OBVIOUS
  <1>2. \A N : Alive(N \cup {m}) = Alive(N) \cup Present(m)
    BY DEF Alive, Present
  <1>3. /\ Present(m) \subseteq TargetFiles
        /\ Alive(TargetManifests \ M) \subseteq TargetFiles
    BY <1>1 DEF TargetFiles, Alive, Present
  <1>4. Alive(TargetManifests \ M) \cap Present(m) = {}
    <2>1. Target \in Snaps /\ TargetManifests = lists[Target]
      BY <1>1, TargetTypes DEF TargetManifests
    <2>2. \A n \in TargetManifests \ M :
            (entries[n] \ removed[n]) \cap (entries[m] \ removed[m]) = {}
      BY <1>1, <2>1 DEF ManifestsAreDisjoint
    <2>3. QED
      BY <2>2 DEF Alive, Present
  <1>5. QED
    BY <1>1, <1>2, <1>3, <1>4

LEMMA OneMoreManifestOfData ==
    ASSUME TableTypeOK, locked \in TableMetadata, ManifestsAreDisjoint,
           NEW M \in SUBSET TargetManifests, NEW m \in M
    PROVE  /\ DataOf(TargetManifests \ (M \ {m})) = DataOf(TargetManifests \ M) \cup Sampled(m)
           /\ DataOf(TargetManifests \ M) \cap Sampled(m) = {}
           /\ Sampled(m) \subseteq TargetData /\ Sampled(m) \subseteq DataFiles
           /\ DataOf(TargetManifests \ M) \subseteq TargetData
  <1>1. TargetFiles \in SUBSET DataFiles
    BY TargetTypes
  <1>2. /\ Alive(TargetManifests \ (M \ {m})) = Alive(TargetManifests \ M) \cup Present(m)
        /\ Alive(TargetManifests \ M) \cap Present(m) = {}
        /\ Present(m) \subseteq TargetFiles
        /\ Alive(TargetManifests \ M) \subseteq TargetFiles
    BY OneMoreManifest
  <1>3. QED
    BY <1>1, <1>2 DEF DataOf, Sampled, TargetData

(* Writers leave the snapshot that the command follows as it is.           *)
LEMMA TargetIsStable ==
    ASSUME TableInv, locked \in TableMetadata, LockedIsWritten, Writers, locked' = locked
    PROVE  /\ LockedIsWritten'
           /\ TargetManifests' = TargetManifests /\ TargetFiles' = TargetFiles
           /\ \A M \in SUBSET TargetManifests : Alive(M)' = Alive(M)
  <1>0. TableTypeOK
    BY DEF TableInv
  <1>1. \A s \in locked.snaps : s \in Snaps /\ mtime[ListObj(s)] # 0
    BY DEF TableMetadata, LockedIsWritten
  <1>2. \A s \in locked.snaps : Unaltered(s)
    BY <1>1, SnapshotsAreImmutable
  <1>3. LockedIsWritten'
    BY <1>1, <1>2 DEF LockedIsWritten, Unaltered
  <1>4. Target' = Target /\ (Target # NoSnap => Target \in locked.snaps)
    BY <1>0, TargetTypes DEF Target
  <1>5. TargetManifests' = TargetManifests
    BY <1>2, <1>4 DEF TargetManifests, Unaltered
  <1>6. \A m \in TargetManifests : entries'[m] = entries[m] /\ removed'[m] = removed[m]
    BY <1>2, <1>4 DEF TargetManifests, Unaltered
  <1>7. \A M \in SUBSET TargetManifests : Alive(M)' = Alive(M)
    BY <1>6 DEF Alive
  <1>8. TargetFiles' = TargetFiles
    BY <1>5, <1>6 DEF TargetFiles, Alive
  <1>9. QED
    BY <1>3, <1>5, <1>7, <1>8

-----------------------------------------------------------------------------
(* The invariant holds at the start ...                                    *)
LEMMA InitIInv == Init => IInv
  <1> SUFFICES ASSUME Init
               PROVE  IInv
    OBVIOUS
  <1>1. TableInv /\ TableTypeOK
    BY InitTableInv DEF Init, TableInv
  <1>2. /\ phase = "idle" /\ locked = meta /\ pending = {} /\ files = {} /\ exit = Running
        /\ command \in {"pii", "migration", "cost"}
        /\ flags \in Flags /\ toOpen = {} /\ skipped = {} /\ damaged = {}
        /\ tally = NoTally
        /\ layout \in Layouts /\ limit \in Limits
        /\ fileCount = 0 /\ risk = "none" /\ swallowed = FALSE
        /\ meta.snaps = {}
    BY DEF Init, WalkInit, PIIInit, MigrationInit, TableInit
  <1>3. TypeOK
    <2>1. WalkTypeOK
      BY <1>1, <1>2 DEF WalkTypeOK, Running, TableTypeOK
    <2>2. PIITypeOK
      <3>1. flags.maxFiles \in Nat
        BY <1>2, PIIAssumption DEF Flags
      <3>2. Cardinality(files) = 0
        BY <1>2, FS_EmptySet
      <3>3. Cardinality(files) <= flags.maxFiles
        BY <3>1, <3>2
      <3>4. tally \in [rows : [Columns -> Nat], matches : [Columns -> [Detected -> Nat]]]
        BY <1>2, NothingCounted DEF Tallies
      <3>5. QED
        BY <1>2, <3>3, <3>4 DEF PIITypeOK
    <2>3. MigrationTypeOK
      BY <1>2 DEF MigrationTypeOK
    <2>4. QED
      BY <1>1, <2>1, <2>2, <2>3 DEF TypeOK
  <1>4. LockedIsWritten /\ WalkStaysInside /\ CollectsWhatFits /\ TallySoFar
    BY <1>2 DEF LockedIsWritten, WalkStaysInside, CollectsWhatFits, TallySoFar, Before, Answered
  <1>5. SweepCounts /\ RiskOfFindings
    BY <1>2 DEF SweepCounts, RiskOfFindings, Running
  <1>6. QED
    BY <1>1, <1>3, <1>4, <1>5 DEF IInv

(* ... writers keep it ...                                                 *)
LEMMA WritersIInv ==
    ASSUME IInv, Writers, UNCHANGED <<walkVars, piiVars, migrationVars>>
    PROVE  IInv'
  <1>0. /\ TypeOK /\ TableInv /\ LockedIsWritten /\ WalkStaysInside /\ CollectsWhatFits
        /\ TallySoFar /\ SweepCounts /\ RiskOfFindings
    BY DEF IInv
  <1>t. TableTypeOK /\ locked \in TableMetadata
    BY <1>0 DEF TypeOK, WalkTypeOK
  <1>u. /\ UNCHANGED <<command, phase, locked, pending, files, exit>>
        /\ UNCHANGED <<flags, toOpen, skipped, damaged, tally>>
        /\ UNCHANGED <<layout, limit, fileCount, risk, swallowed>>
    BY DEF walkVars, piiVars, migrationVars
  <1>1. TableInv'
    BY <1>0, WritersInv
  <1>2. TypeOK'
    BY <1>0, <1>1, <1>u DEF TypeOK, TableInv, WalkTypeOK, PIITypeOK, MigrationTypeOK
  <1>3. /\ LockedIsWritten'
        /\ TargetManifests' = TargetManifests /\ TargetFiles' = TargetFiles
        /\ \A M \in SUBSET TargetManifests : Alive(M)' = Alive(M)
    BY <1>0, <1>t, <1>u, TargetIsStable
  <1>4. Alive(TargetManifests \ pending)' = Alive(TargetManifests \ pending)
    <2>1. Alive(TargetManifests \ pending)' = UNION {entries'[m] \ removed'[m] : m \in TargetManifests \ pending}
      BY <1>3, <1>u DEF Alive
    <2>2. Alive(TargetManifests \ pending) = UNION {entries'[m] \ removed'[m] : m \in TargetManifests \ pending}
      BY <1>3 DEF Alive
    <2>3. QED
      BY <2>1, <2>2
  <1>5. WalkStaysInside'
    BY <1>0, <1>3, <1>u DEF WalkStaysInside, TargetData
  <1>6. CollectsWhatFits'
    BY <1>0, <1>3, <1>4, <1>u DEF CollectsWhatFits, Fits, Answered, DataOf, TargetData
  <1>7. TallySoFar'
    BY <1>0, <1>u DEF TallySoFar, Answered, Counts, Code, Findings
  <1>8. SweepCounts'
    BY <1>0, <1>3, <1>4, <1>u DEF SweepCounts
  <1>9. RiskOfFindings'
    BY <1>0, <1>3, <1>u DEF RiskOfFindings, Over, Swept, MetadataFindings, DataFindings
  <1>10. QED
    BY <1>1, <1>2, <1>3, <1>5, <1>6, <1>7, <1>8, <1>9 DEF IInv

-----------------------------------------------------------------------------
(* ... and every step of the command does.                                 *)

(* A step of the command that does not load the table.                     *)
LEMMA StepFrame ==
    ASSUME IInv, UNCHANGED <<tableVars, locked>>
    PROVE  /\ TableInv' /\ TableTypeOK' /\ LockedIsWritten'
           /\ TargetManifests' = TargetManifests /\ TargetFiles' = TargetFiles
           /\ entries' = entries /\ removed' = removed
           /\ UNCHANGED layout => MetadataFindings' = MetadataFindings
  <1>1. TableInv /\ clock \in 1..MaxClock
    BY DEF IInv, TableInv, TableTypeOK
  <1>2. UNCHANGED <<clock, store, mtime, meta, lists, entries, removed, prep, inflight, garbage>>
    BY DEF tableVars
  <1>3. TableInv' /\ TableTypeOK'
    BY <1>1, <1>2, StutterInv DEF TableInv
  <1>4. LockedIsWritten'
    BY <1>2 DEF IInv, LockedIsWritten
  <1>5. TargetManifests' = TargetManifests
    BY <1>2 DEF TargetManifests, Target
  <1>6. TargetFiles' = TargetFiles
    BY <1>2, <1>5 DEF TargetFiles, Alive
  <1>7. QED
    BY <1>2, <1>3, <1>4, <1>5, <1>6 DEF MetadataFindings

(* No manifest list is that of no snapshot.                                *)
LEMMA ListOfSnapshot ==
    ASSUME TableTypeOK
    PROVE  ListObj(NoSnap) \notin store
  <1> SUFFICES ListObj(NoSnap) \notin Objects
    BY DEF TableTypeOK
  <1>1. NoSnap \notin Snaps
    BY TableAssumption DEF NoSnap, Snaps
  <1>2. QED
    BY <1>1, DistinctNames DEF Objects

LEMMA WalkTypes ==
    ASSUME TypeOK, Walk, UNCHANGED <<piiVars, migrationVars>>
    PROVE  TypeOK'
  <1>t. TableTypeOK /\ WalkTypeOK /\ PIITypeOK /\ MigrationTypeOK
    BY DEF TypeOK
  <1>1. UNCHANGED tableVars /\ UNCHANGED <<command, files>>
    BY DEF Walk, SetupFails, LoadTable, LoadFails, ReadMetadata, ReadList
  <1>2. TableTypeOK'
    BY <1>t, <1>1 DEF tableVars, TableTypeOK
  <1>3. WalkTypeOK'
    <2> USE DEF WalkTypeOK, Running
    <2>1. CASE SetupFails
      BY <1>t, <2>1 DEF SetupFails
    <2>2. CASE LoadTable
      BY <1>t, <2>2 DEF LoadTable, TableTypeOK
    <2>3. CASE LoadFails
      BY <1>t, <2>3 DEF LoadFails
    <2>4. CASE ReadMetadata
      BY <1>t, <2>4 DEF ReadMetadata
    <2>5. CASE ReadList
      <3>1. Target \in locked.snaps \/ Target = NoSnap
        BY DEF Target
      <3>2. lists[Target] \subseteq Snaps
        <4>1. CASE Target # NoSnap
          BY <1>t, <3>1, <4>1 DEF TableTypeOK, TableMetadata
        <4>2. CASE Target = NoSnap
          BY <1>t, <2>5, <4>2, ListOfSnapshot DEF ReadList
        <4>3. QED
          BY <4>1, <4>2
      <3>3. QED
        BY <1>t, <2>5, <3>2 DEF ReadList
    <2>6. QED
      BY <2>1, <2>2, <2>3, <2>4, <2>5 DEF Walk
  <1>4. PIITypeOK' /\ MigrationTypeOK'
    BY <1>t, <1>1 DEF PIITypeOK, MigrationTypeOK, piiVars, migrationVars
  <1>5. QED
    BY <1>2, <1>3, <1>4 DEF TypeOK

(* The part of the commands that they have in common.                      *)
LEMMA WalkIInv ==
    ASSUME IInv, Walk, UNCHANGED <<piiVars, migrationVars>>,
           command = "cost" => risk = "none"
    PROVE  IInv'
  <1>0. /\ TypeOK /\ TableInv /\ LockedIsWritten /\ WalkStaysInside /\ CollectsWhatFits
        /\ TallySoFar /\ SweepCounts /\ RiskOfFindings
    BY DEF IInv
  <1>t. TableTypeOK /\ locked \in TableMetadata /\ exit \in Running..5 /\ (phase = "done" <=> exit # Running)
    BY <1>0 DEF TypeOK, WalkTypeOK
  <1>u. /\ UNCHANGED <<flags, toOpen, skipped, damaged, tally>>
        /\ UNCHANGED <<layout, limit, fileCount, risk, swallowed>>
        /\ UNCHANGED <<command, files>> /\ UNCHANGED tableVars
    BY DEF piiVars, migrationVars, Walk, SetupFails, LoadTable, LoadFails, ReadMetadata, ReadList
  <1>1. TypeOK'
    BY <1>0, WalkTypes
  <1>2. /\ phase \in Before /\ files = {} /\ pending = {} /\ fileCount = 0 /\ risk = "none"
        /\ command = "pii" => toOpen = {} /\ tally = NoTally
    <2>1. phase \in Before
      BY DEF Walk, SetupFails, LoadTable, LoadFails, ReadMetadata, ReadList, Before
    <2>2. QED
      BY <1>0, <2>1 DEF WalkStaysInside, SweepCounts, TallySoFar
  <1>3. UNCHANGED <<clock, store, mtime, meta, lists, entries, removed, prep, inflight, garbage>>
    BY <1>u DEF tableVars
  <1>4. TableInv'
    <2>1. clock \in 1..MaxClock
      BY <1>t DEF TableTypeOK
    <2>2. QED
      BY <1>0, <1>3, <2>1, StutterInv
  <1>5. LockedIsWritten'
    <2>1. CASE LoadTable
      <3>1. \A s \in meta.snaps : mtime[ListObj(s)] # 0
        BY <1>0, <1>t, TypesOfTable DEF TableInv, IdsAreFresh
      <3>2. QED
        BY <1>3, <2>1, <3>1 DEF LoadTable, LockedIsWritten
    <2>2. CASE UNCHANGED locked
      BY <1>0, <1>3, <2>2 DEF LockedIsWritten
    <2>3. QED
      BY <2>1, <2>2 DEF Walk, SetupFails, LoadFails, ReadMetadata, ReadList
  <1>6. /\ Alive({}) = {} /\ TargetManifests' \in SUBSET Snaps
        /\ pending' \subseteq TargetManifests'
        /\ phase' \in Before => pending' = {}
        /\ phase' = "manifests" => pending' = TargetManifests'
        /\ phase' # "sampling"
    <2>0. Alive({}) = {} /\ TargetManifests' \in SUBSET Snaps
      <3>1. TableTypeOK' /\ locked' \in TableMetadata
        BY <1>1 DEF TypeOK, WalkTypeOK
      <3>2. Target' # NoSnap => Target' \in Snaps
        BY <3>1 DEF Target, TableMetadata
      <3>3. QED
        BY <3>1, <3>2 DEF Alive, TargetManifests, TableTypeOK
    <2>1. CASE SetupFails \/ LoadTable \/ LoadFails
      BY <1>2, <2>0, <2>1 DEF SetupFails, LoadTable, LoadFails, Before
    <2>2. CASE ReadMetadata
      <3>1. Target' = Target /\ pending' = {}
        BY <1>2, <2>2 DEF ReadMetadata, Target
      <3>2. phase' = "manifests" => Target = NoSnap
        BY <2>2 DEF ReadMetadata
      <3>3. phase' \in {"done", "manifests", "list"}
        BY <2>2 DEF ReadMetadata
      <3>4. phase' = "manifests" => TargetManifests' = {}
        BY <3>1, <3>2 DEF TargetManifests
      <3>5. QED
        BY <2>0, <3>1, <3>3, <3>4 DEF Before
    <2>3. CASE ReadList
      <3>1. Target' = Target /\ lists' = lists /\ pending' = lists[Target] /\ phase' = "manifests"
        BY <1>3, <2>3 DEF ReadList, Target
      <3>2. Target # NoSnap
        BY <1>t, <2>3, ListOfSnapshot DEF ReadList
      <3>3. pending' = TargetManifests'
        BY <3>1, <3>2 DEF TargetManifests
      <3>4. QED
        BY <2>0, <3>1, <3>3 DEF Before
    <2>4. QED
      BY <2>0, <2>1, <2>2, <2>3 DEF Walk
  <1>7. WalkStaysInside'
    BY <1>2, <1>6, <1>u DEF WalkStaysInside
  <1>8. phase' = "done" /\ command = "pii" /\ exit' \in {0, 3} => exit' = 0 /\ TargetManifests' = {}
    <2>1. CASE SetupFails \/ LoadFails
      BY <2>1 DEF SetupFails, LoadFails
    <2>2. CASE LoadTable \/ ReadList
      BY <2>2 DEF LoadTable, ReadList
    <2>3. CASE ReadMetadata
      <3>1. phase' = "done" /\ command = "pii" => exit' = 0 /\ Target = NoSnap
        BY <2>3 DEF ReadMetadata
      <3>2. Target' = Target
        BY <2>3 DEF ReadMetadata, Target
      <3>3. QED
        BY <3>1, <3>2 DEF TargetManifests
    <2>4. QED
      BY <2>1, <2>2, <2>3 DEF Walk
  <1>9. CollectsWhatFits'
    <2>1. ASSUME command = "pii", phase' = "manifests"
          PROVE  files' = DataOf(TargetManifests \ pending)'
      <3>1. (TargetManifests \ pending)' = {}
        BY <1>6, <2>1
      <3>2. DataOf(TargetManifests \ pending)' = {}
        BY <3>1 DEF DataOf, Alive
      <3>3. QED
        BY <1>2, <1>u, <3>2
    <2>2. ASSUME command = "pii", Answered'
          PROVE  files' = TargetData'
      <3>1. TargetData' = {}
        BY <1>8, <2>2 DEF Answered, TargetData, TargetFiles, Alive
      <3>2. QED
        BY <1>2, <1>u, <3>1
    <2>3. QED
      BY <1>6, <1>u, <2>1, <2>2 DEF CollectsWhatFits
  <1>10. TallySoFar'
    <2>1. ASSUME command = "pii"
          PROVE  Counts(tally, GroupsOf(files \ toOpen), flags.rows)' /\ Code(tally)' = 0
      <3>1. tally' = NoTally /\ (files \ toOpen)' = {}
        BY <1>2, <1>u, <2>1
      <3>2. GroupsOf(files \ toOpen)' = GroupsOf({}) /\ Code(tally)' = Code(NoTally)
        BY <3>1 DEF GroupsOf, Code, Findings
      <3>3. QED
        BY <3>1, <3>2, NothingCounted DEF Counts
    <2>2. QED
      BY <1>2, <1>8, <1>u, <2>1 DEF TallySoFar, Answered
  <1>11. SweepCounts'
    <2>1. ASSUME phase' = "manifests"
          PROVE  Alive(TargetManifests \ pending)' = {}
      <3>1. (TargetManifests \ pending)' = {}
        BY <1>6, <2>1
      <3>2. QED
        BY <3>1 DEF Alive
    <2>2. QED
      BY <1>2, <1>u, <2>1, FS_EmptySet DEF SweepCounts
  <1>12. RiskOfFindings'
    <2>1. command = "migration" => exit' \notin {0, 1}
      BY <1>2, <1>t DEF Walk, SetupFails, LoadTable, LoadFails, ReadMetadata, ReadList, Running, Before
    <2>2. QED
      BY <1>2, <1>u, <2>1 DEF RiskOfFindings
  <1>13. QED
    BY <1>1, <1>4, <1>5, <1>7, <1>9, <1>10, <1>11, <1>12 DEF IInv

-----------------------------------------------------------------------------
(* pii.                                                                    *)

(* What a step of pii on its own leaves alone of the invariant.            *)
LEMMA PIIFrame ==
    ASSUME IInv, command = "pii", UNCHANGED <<tableVars, command, locked, flags, migrationVars>>,
           phase' \notin Before
    PROVE  /\ TableInv' /\ LockedIsWritten'
           /\ SweepCounts' /\ RiskOfFindings'
           /\ TargetManifests' = TargetManifests /\ TargetFiles' = TargetFiles
           /\ TargetData' = TargetData /\ Fits' = Fits /\ entries' = entries /\ removed' = removed
           /\ TableTypeOK' /\ MigrationTypeOK'
  <1>1. /\ TableInv' /\ LockedIsWritten' /\ TableTypeOK'
        /\ TargetManifests' = TargetManifests /\ TargetFiles' = TargetFiles
        /\ entries' = entries /\ removed' = removed
    BY StepFrame
  <1>2. risk = "none" /\ risk' = "none"
    BY DEF IInv, RiskOfFindings, migrationVars
  <1>3. SweepCounts' /\ RiskOfFindings'
    BY <1>2 DEF SweepCounts, RiskOfFindings
  <1>4. MigrationTypeOK'
    BY DEF IInv, TypeOK, MigrationTypeOK, migrationVars
  <1>5. QED
    BY <1>1, <1>3, <1>4 DEF Fits, TargetData

LEMMA ReadManifestIInv ==
    ASSUME IInv, command = "pii", NEW m \in Snaps, ReadManifest(m), UNCHANGED migrationVars
    PROVE  IInv'
  <1>0. /\ TypeOK /\ TableInv /\ WalkStaysInside /\ CollectsWhatFits /\ TallySoFar
    BY DEF IInv
  <1>t. /\ TableTypeOK /\ locked \in TableMetadata /\ flags \in Flags /\ flags.maxFiles \in Nat
        /\ files \in SUBSET DataFiles /\ Cardinality(files) <= flags.maxFiles
    BY <1>0, PIIAssumption DEF TypeOK, WalkTypeOK, PIITypeOK, Flags
  <1>u. /\ UNCHANGED <<tableVars, command, flags, phase, locked, toOpen, skipped, damaged, tally, exit>>
        /\ phase = "manifests" /\ m \in pending /\ pending' = pending \ {m}
    BY DEF ReadManifest
  <1>f. /\ TableInv' /\ LockedIsWritten' /\ SweepCounts' /\ RiskOfFindings'
        /\ TargetManifests' = TargetManifests /\ TargetFiles' = TargetFiles
        /\ TargetData' = TargetData /\ Fits' = Fits /\ entries' = entries /\ removed' = removed
        /\ TableTypeOK' /\ MigrationTypeOK'
    BY <1>u, PIIFrame DEF Before
  <1>1. PICK taken \in Taken(m) : files' = files \cup taken
    BY DEF ReadManifest
  <1>2. /\ DataOf(TargetManifests \ (pending \ {m})) = DataOf(TargetManifests \ pending) \cup Sampled(m)
        /\ DataOf(TargetManifests \ pending) \cap Sampled(m) = {}
        /\ Sampled(m) \subseteq TargetData /\ Sampled(m) \subseteq DataFiles
        /\ DataOf(TargetManifests \ pending) \subseteq TargetData
    BY <1>0, <1>t, <1>u, OneMoreManifestOfData DEF WalkStaysInside, TableInv
  <1>s. /\ Sampled(m) \in SUBSET DataFiles /\ IsFiniteSet(Sampled(m)) /\ Cardinality(Sampled(m)) \in Nat
        /\ IsFiniteSet(files) /\ Cardinality(files) \in Nat
        /\ IsFiniteSet(TargetData) /\ Cardinality(TargetData) \in Nat
    BY <1>t, <1>2, TargetTypes, FilesFinite
  <1>3. taken \in SUBSET Sampled(m) /\ Cardinality(taken) <= flags.maxFiles - Cardinality(files)
    <2>1. CASE Cardinality(Sampled(m)) <= flags.maxFiles - Cardinality(files)
      BY <1>1, <2>1 DEF Taken
    <2>2. CASE ~ (Cardinality(Sampled(m)) <= flags.maxFiles - Cardinality(files))
      <3>1. taken \in kSubset(flags.maxFiles - Cardinality(files), Sampled(m))
        BY <1>1, <2>2 DEF Taken
      <3>2. taken \in SUBSET Sampled(m) /\ Cardinality(taken) = flags.maxFiles - Cardinality(files)
        BY <3>1 DEF kSubset
      <3>3. QED
        BY <1>t, <1>s, <3>2
    <2>3. QED
      BY <2>1, <2>2
  <1>4. files' \in SUBSET DataFiles /\ files' \subseteq TargetData /\ files \subseteq files'
    BY <1>0, <1>1, <1>2, <1>3, <1>s, <1>t DEF WalkStaysInside
  <1>5. Cardinality(files') <= flags.maxFiles
    <2>1. IsFiniteSet(taken) /\ Cardinality(taken) \in Nat
      BY <1>3, <1>s, FS_Subset, FS_CardinalityType
    <2>2. Cardinality(files \cup taken) = Cardinality(files) + Cardinality(taken) - Cardinality(files \cap taken)
      BY <1>s, <2>1, FS_Union
    <2>3. Cardinality(files \cap taken) \in Nat
      BY <1>s, FS_Intersection, FS_CardinalityType
    <2>4. QED
      BY <1>1, <1>3, <1>s, <1>t, <2>1, <2>2, <2>3
  <1>6. TypeOK'
    <2>1. WalkTypeOK'
      BY <1>0, <1>u, <1>4 DEF TypeOK, WalkTypeOK
    <2>2. PIITypeOK'
      BY <1>0, <1>u, <1>4, <1>5 DEF TypeOK, PIITypeOK
    <2>3. QED
      BY <1>f, <2>1, <2>2 DEF TypeOK
  <1>7. WalkStaysInside'
    BY <1>0, <1>u, <1>f, <1>4 DEF WalkStaysInside, Before, TargetData
  <1>8. CollectsWhatFits'
    <2>1. ASSUME Fits
          PROVE  files' = DataOf(TargetManifests \ (pending \ {m}))
      <3>1. files = DataOf(TargetManifests \ pending)
        BY <1>0, <1>u, <2>1 DEF CollectsWhatFits
      <3>2. Cardinality(files \cup Sampled(m)) = Cardinality(files) + Cardinality(Sampled(m))
        BY <1>2, <1>s, <3>1, DisjointUnion
      <3>3. Cardinality(files \cup Sampled(m)) <= Cardinality(TargetData)
        BY <1>2, <1>s, <3>1, FS_Subset
      <3>4. Cardinality(Sampled(m)) <= flags.maxFiles - Cardinality(files)
        BY <1>s, <1>t, <2>1, <3>2, <3>3 DEF Fits
      <3>5. taken = Sampled(m)
        BY <1>1, <3>4 DEF Taken
      <3>6. QED
        BY <1>1, <1>2, <3>1, <3>5
    <2>2. DataOf(TargetManifests \ pending)' = DataOf(TargetManifests \ (pending \ {m}))
      BY <1>f, <1>u DEF DataOf, Alive
    <2>3. QED
      BY <1>f, <1>u, <2>1, <2>2 DEF CollectsWhatFits, Answered
  <1>9. TallySoFar'
    BY <1>0, <1>u DEF TallySoFar, Answered, Before
  <1>10. QED
    BY <1>f, <1>6, <1>7, <1>8, <1>9 DEF IInv

(* The files are collected, and nothing was sampled yet.                   *)
LEMMA CollectedIInv ==
    ASSUME IInv, command = "pii", Collected, UNCHANGED migrationVars
    PROVE  IInv'
  <1>0. /\ TypeOK /\ TableInv /\ WalkStaysInside /\ CollectsWhatFits /\ TallySoFar
    BY DEF IInv
  <1>t. /\ TableTypeOK /\ locked \in TableMetadata /\ flags \in Flags /\ flags.maxFiles \in Nat
        /\ files \in SUBSET DataFiles /\ exit = Running
    BY <1>0, PIIAssumption DEF TypeOK, WalkTypeOK, PIITypeOK, Flags, Collected
  <1>u. /\ UNCHANGED <<tableVars, command, flags, locked, pending, files, skipped, damaged, tally>>
        /\ phase = "manifests" /\ toOpen' = files
        /\ pending = {} \/ Cardinality(files) >= flags.maxFiles
        /\ \/ files = {} /\ phase' = "done" /\ exit' = 0
           \/ files # {} /\ phase' = "sampling" /\ exit' = exit
    BY DEF Collected
  <1>f. /\ TableInv' /\ LockedIsWritten' /\ SweepCounts' /\ RiskOfFindings'
        /\ TargetManifests' = TargetManifests /\ TargetFiles' = TargetFiles
        /\ TargetData' = TargetData /\ Fits' = Fits /\ TableTypeOK' /\ MigrationTypeOK'
    BY <1>u, PIIFrame DEF Before
  <1>1. TypeOK'
    <2>1. WalkTypeOK'
      BY <1>0, <1>t, <1>u DEF TypeOK, WalkTypeOK, Running
    <2>2. PIITypeOK'
      BY <1>0, <1>u DEF TypeOK, PIITypeOK
    <2>3. QED
      BY <1>f, <2>1, <2>2 DEF TypeOK
  <1>2. WalkStaysInside'
    BY <1>0, <1>u, <1>f DEF WalkStaysInside, Before
  <1>3. Fits => files = TargetData
    <2> SUFFICES ASSUME Fits
                 PROVE  files = TargetData
      OBVIOUS
    <2>1. files = DataOf(TargetManifests \ pending) /\ files \subseteq TargetData
      BY <1>0, <1>u DEF CollectsWhatFits, WalkStaysInside
    <2>2. CASE pending = {}
      BY <2>1, <2>2 DEF DataOf, TargetData, TargetFiles
    <2>3. CASE Cardinality(files) >= flags.maxFiles
      <3>1. IsFiniteSet(TargetData) /\ Cardinality(TargetData) \in Nat /\ Cardinality(files) \in Nat
        BY <1>t, TargetTypes, FilesFinite
      <3>2. Cardinality(files) <= Cardinality(TargetData)
        BY <2>1, <3>1, FS_Subset
      <3>3. Cardinality(files) = Cardinality(TargetData)
        BY <1>t, <2>3, <3>1, <3>2 DEF Fits
      <3>4. QED
        BY <2>1, <3>1, <3>3, FS_Subset
    <2>4. QED
      BY <1>u, <2>2, <2>3
  <1>4. CollectsWhatFits'
    BY <1>3, <1>f, <1>u DEF CollectsWhatFits, Answered
  <1>5. TallySoFar'
    <2>1. tally' = NoTally /\ (files \ toOpen)' = {} /\ (files = {} => toOpen' = {})
      BY <1>0, <1>u DEF TallySoFar
    <2>2. GroupsOf(files \ toOpen)' = GroupsOf({}) /\ Code(tally)' = Code(NoTally)
      BY <2>1 DEF GroupsOf, Code, Findings
    <2>3. Counts(tally, GroupsOf(files \ toOpen), flags.rows)' /\ Code(tally)' = 0
      BY <2>1, <2>2, NothingCounted DEF Counts
    <2>4. QED
      BY <1>t, <1>u, <2>1, <2>3 DEF TallySoFar, Answered, Before, Running
  <1>6. QED
    BY <1>f, <1>1, <1>2, <1>4, <1>5 DEF IInv

(* A file is sampled, half of it, or it is gone.                           *)
LEMMA SamplingIInv ==
    ASSUME IInv, command = "pii", UNCHANGED migrationVars, NEW f \in DataFiles,
           SampleFile(f) \/ SampleBreaks(f) \/ SkipFile(f)
    PROVE  IInv'
  <1>0. /\ TypeOK /\ TableInv /\ WalkStaysInside /\ CollectsWhatFits /\ TallySoFar
    BY DEF IInv
  <1>t. /\ files \in SUBSET DataFiles /\ toOpen \subseteq files /\ tally \in Tallies /\ exit = Running
        /\ skipped \cup damaged \subseteq files
    BY <1>0 DEF TypeOK, WalkTypeOK, PIITypeOK, Tallies, SampleFile, SampleBreaks, SkipFile
  <1>u. /\ UNCHANGED <<tableVars, command, flags, phase, locked, pending, files, exit>>
        /\ phase = "sampling" /\ f \in toOpen /\ toOpen' = toOpen \ {f}
    BY DEF SampleFile, SampleBreaks, SkipFile
  <1>f. /\ TableInv' /\ LockedIsWritten' /\ SweepCounts' /\ RiskOfFindings'
        /\ TargetManifests' = TargetManifests /\ TargetFiles' = TargetFiles
        /\ TargetData' = TargetData /\ Fits' = Fits /\ TableTypeOK' /\ MigrationTypeOK'
    BY <1>u, PIIFrame DEF Before
  <1>g. ASSUME NEW groups \in SUBSET Groups[f]
        PROVE  Record(tally, groups, flags.rows) \in Tallies
    <2>1. Groups[f] = GroupsOf({f}) /\ {f} \in SUBSET DataFiles
      BY DEF GroupsOf
    <2>2. groups \in SUBSET AllGroups /\ IsFiniteSet(groups)
      BY <2>1, GroupsFinite, FS_Subset
    <2>3. QED
      BY <1>t, <2>2, RecordType
  <1>1. /\ tally' \in Tallies /\ skipped' \cup damaged' \subseteq files
    <2>1. CASE SampleFile(f)
      <3>1. PICK groups \in Drawn(f) : tally' = Record(tally, groups, flags.rows)
        BY <2>1 DEF SampleFile
      <3>2. groups \in SUBSET Groups[f]
        BY <3>1 DEF Drawn
      <3>3. QED
        BY <1>t, <1>g, <2>1, <3>1, <3>2 DEF SampleFile
    <2>2. CASE SampleBreaks(f)
      BY <1>t, <1>u, <1>g, <2>2 DEF SampleBreaks
    <2>3. CASE SkipFile(f)
      BY <1>t, <1>u, <2>3 DEF SkipFile
    <2>4. QED
      BY <2>1, <2>2, <2>3
  <1>2. TypeOK'
    <2>1. WalkTypeOK'
      BY <1>0, <1>u DEF TypeOK, WalkTypeOK
    <2>2. PIITypeOK'
      BY <1>0, <1>t, <1>u, <1>1 DEF TypeOK, PIITypeOK, Tallies
    <2>3. QED
      BY <1>f, <2>1, <2>2 DEF TypeOK
  <1>3. WalkStaysInside' /\ CollectsWhatFits'
    BY <1>0, <1>f, <1>u DEF WalkStaysInside, CollectsWhatFits, Answered, Before
  <1>4. ASSUME flags.exhaustive, skipped' = {}, damaged' = {}
        PROVE  Counts(tally', GroupsOf(files \ toOpen'), flags.rows)
    <2>1. SampleFile(f) /\ skipped = {} /\ damaged = {}
      BY <1>4 DEF SampleFile, SampleBreaks, SkipFile
    <2>2. tally' = Record(tally, Groups[f], flags.rows)
      BY <1>4, <2>1 DEF SampleFile, Drawn
    <2>3. Counts(tally, GroupsOf(files \ toOpen), flags.rows)
      BY <1>0, <1>u, <1>4, <2>1 DEF TallySoFar
    <2>4. files \ toOpen' = (files \ toOpen) \cup {f} /\ f \notin files \ toOpen
      BY <1>t, <1>u
    <2>5. QED
      BY <1>t, <2>2, <2>3, <2>4, RecordCounts
  <1>5. TallySoFar'
    <2>1. Counts(tally', GroupsOf(files \ toOpen'), flags.rows) => Counts(tally, GroupsOf(files \ toOpen), flags.rows)'
      BY <1>u DEF Counts, GroupsOf
    <2>2. QED
      BY <1>4, <1>u, <2>1 DEF TallySoFar, Answered, Before
  <1>6. QED
    BY <1>f, <1>2, <1>3, <1>5 DEF IInv

(* The command is over: with its findings, or with an error.               *)
LEMMA EndOfPIIIInv ==
    ASSUME IInv, command = "pii", UNCHANGED migrationVars,
           ReportFindings \/ WriteFails \/ CollectFails
    PROVE  IInv'
  <1>0. /\ TypeOK /\ TableInv /\ WalkStaysInside /\ CollectsWhatFits /\ TallySoFar
    BY DEF IInv
  <1>u. /\ UNCHANGED <<tableVars, command, flags, locked, pending, files, toOpen, skipped, damaged, tally>>
        /\ phase' = "done" /\ phase # "done"
    BY DEF ReportFindings, WriteFails, CollectFails
  <1>f. /\ TableInv' /\ LockedIsWritten' /\ SweepCounts' /\ RiskOfFindings'
        /\ TargetManifests' = TargetManifests /\ TargetFiles' = TargetFiles
        /\ TargetData' = TargetData /\ Fits' = Fits /\ TableTypeOK' /\ MigrationTypeOK'
    BY <1>u, PIIFrame DEF Before
  <1>1. exit' \in {0, 3} => phase = "sampling" /\ toOpen = {} /\ exit' = Code(tally)
    <2>1. CASE ReportFindings
      BY <2>1 DEF ReportFindings
    <2>2. CASE WriteFails \/ CollectFails
      <3>1. exit' = 4 \/ exit' = 5
        BY <2>2 DEF WriteFails, CollectFails
      <3>2. QED
        BY <3>1
    <2>3. QED
      BY <2>1, <2>2
  <1>2. exit' \in {0, 3, 4, 5}
    BY <1>0 DEF ReportFindings, WriteFails, CollectFails, Code, TypeOK, PIITypeOK, Flags
  <1>3. TypeOK'
    <2>1. WalkTypeOK'
      BY <1>0, <1>u, <1>2 DEF TypeOK, WalkTypeOK, Running
    <2>2. PIITypeOK'
      BY <1>0, <1>u, <1>2 DEF TypeOK, PIITypeOK
    <2>3. QED
      BY <1>f, <2>1, <2>2 DEF TypeOK
  <1>4. WalkStaysInside'
    BY <1>0, <1>f, <1>u DEF WalkStaysInside, Before
  <1>5. CollectsWhatFits'
    BY <1>0, <1>f, <1>u, <1>1 DEF CollectsWhatFits, Answered
  <1>6. TallySoFar'
    <2>1. Counts(tally, GroupsOf(files \ toOpen), flags.rows) => Counts(tally, GroupsOf(files \ toOpen), flags.rows)'
      BY <1>u DEF Counts, GroupsOf
    <2>2. Code(tally)' = Code(tally)
      BY <1>u DEF Code, Findings
    <2>3. QED
      BY <1>0, <1>u, <1>1, <2>1, <2>2 DEF TallySoFar, Answered, Before
  <1>7. QED
    BY <1>f, <1>3, <1>4, <1>5, <1>6 DEF IInv

LEMMA PIIIInv ==
    ASSUME IInv, command = "pii", PIIStep, UNCHANGED migrationVars
    PROVE  IInv'
  BY WalkIInv, ReadManifestIInv, CollectedIInv, SamplingIInv, EndOfPIIIInv DEF PIIStep

-----------------------------------------------------------------------------
(* migration and cost.                                                     *)

(* What a step of migration on its own leaves alone of the invariant.      *)
LEMMA MigrationFrame ==
    ASSUME IInv, command = "migration", UNCHANGED <<tableVars, command, locked, layout, limit, piiVars>>,
           phase \in {"list", "manifests"}, phase' \in {"manifests", "done"},
           files \subseteq files', files' \subseteq TargetFiles, pending' \subseteq pending
    PROVE  /\ TableInv' /\ LockedIsWritten' /\ TableTypeOK'
           /\ PIITypeOK' /\ WalkStaysInside' /\ CollectsWhatFits' /\ TallySoFar'
           /\ TargetManifests' = TargetManifests /\ TargetFiles' = TargetFiles
           /\ entries' = entries /\ removed' = removed
           /\ MetadataFindings' = MetadataFindings
           /\ files' \in SUBSET DataFiles /\ pending' \in SUBSET Snaps
  <1>1. /\ TableInv' /\ LockedIsWritten' /\ TableTypeOK'
        /\ TargetManifests' = TargetManifests /\ TargetFiles' = TargetFiles
        /\ entries' = entries /\ removed' = removed
        /\ MetadataFindings' = MetadataFindings
    BY StepFrame
  <1>2. UNCHANGED <<flags, toOpen, skipped, damaged, tally>> /\ command' = "migration"
    BY DEF piiVars
  <1>3. CollectsWhatFits' /\ TallySoFar'
    BY <1>2 DEF CollectsWhatFits, TallySoFar
  <1>4. WalkStaysInside'
    BY <1>1 DEF IInv, WalkStaysInside, Before
  <1>5. files' \in SUBSET DataFiles /\ pending' \in SUBSET Snaps
    BY TargetTypes DEF IInv, TypeOK, WalkTypeOK
  <1>6. PIITypeOK'
    BY <1>2 DEF IInv, TypeOK, PIITypeOK
  <1>7. QED
    BY <1>1, <1>3, <1>4, <1>5, <1>6

LEMMA LargerOfTwo ==
    ASSUME NEW a \in Nat, NEW b \in Nat
    PROVE  Max({a, b}) \in {a, b} /\ Max({a, b}) >= a /\ Max({a, b}) >= b
  <1>1. \E x \in {a, b} : \A y \in {a, b} : x >= y
    <2>1. CASE a >= b
      BY <2>1
    <2>2. CASE b >= a
      BY <2>2
    <2>3. QED
      BY <2>1, <2>2
  <1>2. Max({a, b}) \in {a, b} /\ \A y \in {a, b} : Max({a, b}) >= y
    BY <1>1 DEF Max
  <1>3. QED
    BY <1>2

LEMMA RisksAndCodes ==
    ASSUME NEW findings
    PROVE  /\ Risk(findings) \in {"LOW", "MEDIUM", "HIGH"}
           /\ CodeOf(Risk(findings)) \in {0, 1, 2}
  BY DEF Risk, CodeOf

(* A manifest is swept, skipped or breaks off.                             *)
LEMMA SweepIInv ==
    ASSUME IInv, command = "migration", UNCHANGED piiVars, NEW m \in Snaps,
           SweepManifest(m) \/ SkipManifest(m) \/ SweepBreaks(m)
    PROVE  IInv'
  <1>0. /\ TypeOK /\ TableInv /\ WalkStaysInside /\ SweepCounts /\ RiskOfFindings
    BY DEF IInv
  <1>t. /\ TableTypeOK /\ locked \in TableMetadata /\ files \in SUBSET DataFiles /\ fileCount \in Nat
        /\ IsFiniteSet(files) /\ Cardinality(files) \in Nat
        /\ Present(m) \in SUBSET DataFiles
        /\ pending \subseteq TargetManifests /\ files \subseteq TargetFiles
    BY <1>0, FilesFinite, TargetTypes DEF TypeOK, WalkTypeOK, MigrationTypeOK, WalkStaysInside
  <1>u. /\ UNCHANGED <<tableVars, command, phase, locked, exit, layout, limit, risk>>
        /\ phase = "manifests" /\ m \in pending
    BY DEF SweepManifest, SkipManifest, SweepBreaks
  <1>1. PICK some \in SUBSET Present(m) :
          /\ files' = files \cup some /\ fileCount' \in {fileCount, fileCount + Cardinality(some)}
          /\ pending' \subseteq pending
    <2>1. CASE SweepManifest(m)
      BY <2>1 DEF SweepManifest
    <2>2. CASE SkipManifest(m)
      <3>1. {} \in SUBSET Present(m) /\ files' = files \cup {} /\ fileCount' = fileCount
        BY <2>2 DEF SkipManifest
      <3>2. QED
        BY <2>2, <3>1 DEF SkipManifest
    <2>3. CASE SweepBreaks(m)
      BY <2>3 DEF SweepBreaks
    <2>4. QED
      BY <2>1, <2>2, <2>3
  <1>2. /\ Alive(TargetManifests \ (pending \ {m})) = Alive(TargetManifests \ pending) \cup Present(m)
        /\ Alive(TargetManifests \ pending) \cap Present(m) = {}
        /\ Present(m) \subseteq TargetFiles
    BY <1>0, <1>t, <1>u, OneMoreManifest DEF TableInv
  <1>3. files \subseteq files' /\ files' \subseteq TargetFiles
    BY <1>t, <1>1, <1>2
  <1>f. /\ TableInv' /\ LockedIsWritten' /\ TableTypeOK'
        /\ PIITypeOK' /\ WalkStaysInside' /\ CollectsWhatFits' /\ TallySoFar'
        /\ TargetManifests' = TargetManifests /\ TargetFiles' = TargetFiles
        /\ entries' = entries /\ removed' = removed
        /\ files' \in SUBSET DataFiles /\ pending' \in SUBSET Snaps
    BY <1>u, <1>1, <1>3, MigrationFrame
  <1>4. TypeOK'
    <2>1. fileCount' \in Nat
      <3>1. Cardinality(some) \in Nat
        BY <1>t, FilesFinite
      <3>2. QED
        BY <1>t, <1>1, <3>1
    <2>2. swallowed' \in BOOLEAN
      BY <1>0 DEF SweepManifest, SkipManifest, SweepBreaks, TypeOK, MigrationTypeOK
    <2>3. WalkTypeOK' /\ MigrationTypeOK'
      BY <1>0, <1>f, <1>u, <2>1, <2>2 DEF TypeOK, WalkTypeOK, MigrationTypeOK
    <2>4. QED
      BY <1>f, <2>3 DEF TypeOK
  <1>5. risk = "none"
    BY <1>0, <1>u DEF RiskOfFindings
  <1>6. SweepCounts'
    <2>1. ASSUME ~swallowed'
          PROVE  /\ files' = Alive(TargetManifests \ (pending \ {m})) /\ pending' = pending \ {m}
                 /\ fileCount' = Cardinality(files')
      <3>1. SweepManifest(m) /\ ~swallowed
        BY <2>1 DEF SweepManifest, SkipManifest, SweepBreaks
      <3>2. files = Alive(TargetManifests \ pending) /\ fileCount = Cardinality(files)
        BY <1>0, <1>u, <3>1 DEF SweepCounts
      <3>3. /\ files' = files \cup Present(m) /\ pending' = pending \ {m}
            /\ fileCount' = fileCount + Cardinality(Present(m))
        BY <3>1 DEF SweepManifest
      <3>4. Cardinality(files \cup Present(m)) = Cardinality(files) + Cardinality(Present(m))
        BY <1>2, <1>t, <3>2, FilesFinite, DisjointUnion
      <3>5. QED
        BY <1>2, <3>2, <3>3, <3>4
    <2>2. pending' = pending \ {m} =>
            Alive(TargetManifests \ pending)' = Alive(TargetManifests \ (pending \ {m}))
      BY <1>f DEF Alive
    <2>3. QED
      BY <1>u, <2>1, <2>2 DEF SweepCounts, Before
  <1>7. RiskOfFindings'
    BY <1>0, <1>u, <1>5 DEF RiskOfFindings
  <1>8. QED
    BY <1>f, <1>4, <1>6, <1>7 DEF IInv

LEMMA SwallowListIInv ==
    ASSUME IInv, command = "migration", UNCHANGED piiVars, SwallowList
    PROVE  IInv'
  <1>0. TypeOK /\ WalkStaysInside /\ RiskOfFindings
    BY DEF IInv
  <1>u. /\ UNCHANGED <<tableVars, command, locked, pending, files, exit, layout, limit, fileCount, risk>>
        /\ phase = "list" /\ phase' = "manifests" /\ swallowed' = TRUE
    BY DEF SwallowList
  <1>f. /\ TableInv' /\ LockedIsWritten' /\ TableTypeOK'
        /\ PIITypeOK' /\ WalkStaysInside' /\ CollectsWhatFits' /\ TallySoFar'
    BY <1>0, <1>u, MigrationFrame DEF WalkStaysInside
  <1>1. TypeOK'
    BY <1>0, <1>f, <1>u DEF TypeOK, WalkTypeOK, MigrationTypeOK
  <1>2. SweepCounts' /\ RiskOfFindings'
    BY <1>0, <1>u DEF SweepCounts, RiskOfFindings, Before
  <1>3. QED
    BY <1>f, <1>1, <1>2 DEF IInv

LEMMA ReportRiskIInv ==
    ASSUME IInv, command = "migration", UNCHANGED piiVars, ReportRisk \/ RiskUnwritten
    PROVE  IInv'
  <1>0. TypeOK /\ WalkStaysInside /\ SweepCounts /\ RiskOfFindings
    BY DEF IInv
  <1>u. /\ UNCHANGED <<tableVars, command, locked, pending, files, layout, limit, fileCount, swallowed>>
        /\ phase = "manifests" /\ phase' = "done" /\ Over
    BY DEF ReportRisk, RiskUnwritten, migrationVars
  <1>f. /\ TableInv' /\ LockedIsWritten' /\ TableTypeOK'
        /\ PIITypeOK' /\ WalkStaysInside' /\ CollectsWhatFits' /\ TallySoFar'
        /\ TargetManifests' = TargetManifests /\ entries' = entries /\ removed' = removed
        /\ MetadataFindings' = MetadataFindings
    BY <1>0, <1>u, MigrationFrame DEF WalkStaysInside
  <1>1. /\ risk' \in {"none", "LOW", "MEDIUM", "HIGH"} /\ exit' \in 0..5
        /\ risk' # "none" => risk' = Risk(MetadataFindings \cup DataFindings(files))
        /\ exit' \in {0, 1} => risk' # "none" /\ exit' >= CodeOf(risk')
    <2>1. CASE ReportRisk
      <3>1. risk' = Risk(MetadataFindings \cup DataFindings(files))
        BY <2>1 DEF ReportRisk
      <3>2. risk' \in {"LOW", "MEDIUM", "HIGH"} /\ CodeOf(risk') \in {0, 1, 2}
        BY <3>1, RisksAndCodes
      <3>3. PICK other \in OtherCodes : exit' = Max({other, CodeOf(risk')})
        BY <2>1 DEF ReportRisk
      <3>4. other \in {0, 1, 2, 5}
        BY DEF OtherCodes
      <3>5. exit' \in {other, CodeOf(risk')} /\ exit' >= CodeOf(risk')
        BY <3>2, <3>3, <3>4, LargerOfTwo
      <3>6. QED
        BY <3>1, <3>2, <3>4, <3>5
    <2>2. CASE RiskUnwritten
      <3>1. risk' = risk /\ exit' = 4
        BY <2>2 DEF RiskUnwritten, migrationVars
      <3>2. risk = "none"
        BY <1>0, <1>u DEF RiskOfFindings
      <3>3. QED
        BY <3>1, <3>2
    <2>3. QED
      BY <2>1, <2>2
  <1>2. TypeOK'
    <2>1. WalkTypeOK'
      BY <1>0, <1>u, <1>1 DEF TypeOK, WalkTypeOK, Running
    <2>2. MigrationTypeOK'
      BY <1>0, <1>u, <1>1 DEF TypeOK, MigrationTypeOK
    <2>3. QED
      BY <1>f, <2>1, <2>2 DEF TypeOK
  <1>3. SweepCounts'
    <2>1. Alive(TargetManifests \ pending)' = Alive(TargetManifests \ pending)
      BY <1>f, <1>u DEF Alive
    <2>2. QED
      BY <1>0, <1>u, <2>1 DEF SweepCounts, Before
  <1>4. RiskOfFindings'
    <2>1. Over' /\ DataFindings(files)' = DataFindings(files)
      BY <1>f, <1>u DEF Over, Swept, DataFindings
    <2>2. QED
      BY <1>f, <1>u, <1>1, <2>1 DEF RiskOfFindings
  <1>5. QED
    BY <1>f, <1>2, <1>3, <1>4 DEF IInv

LEMMA MigrationIInv ==
    ASSUME IInv, command = "migration", MigrationStep, UNCHANGED piiVars
    PROVE  IInv'
  BY WalkIInv, SwallowListIInv, ReportRiskIInv, SweepIInv DEF MigrationStep

LEMMA CostIInv ==
    ASSUME IInv, command = "cost", CostStep, UNCHANGED <<piiVars, migrationVars>>
    PROVE  IInv'
  <1>0. TypeOK /\ WalkStaysInside /\ SweepCounts /\ RiskOfFindings
    BY DEF IInv
  <1>r. risk = "none"
    BY <1>0 DEF RiskOfFindings
  <1>1. CASE Walk
    BY <1>1, <1>r, WalkIInv
  <1>2. CASE TimelineUnwritten
    <2>u. /\ UNCHANGED <<tableVars, command, locked, pending, files>>
          /\ phase = "loaded" /\ phase' = "done" /\ exit' = 4
          /\ UNCHANGED <<flags, toOpen, skipped, damaged, tally>>
          /\ UNCHANGED <<layout, limit, fileCount, risk, swallowed>>
      BY <1>2 DEF TimelineUnwritten, piiVars, migrationVars
    <2>f. /\ TableInv' /\ TableTypeOK' /\ LockedIsWritten'
          /\ TargetManifests' = TargetManifests /\ TargetFiles' = TargetFiles
      BY <2>u, StepFrame
    <2>1. TypeOK'
      BY <1>0, <2>f, <2>u DEF TypeOK, WalkTypeOK, PIITypeOK, MigrationTypeOK, Running
    <2>2. WalkStaysInside' /\ CollectsWhatFits' /\ TallySoFar' /\ SweepCounts' /\ RiskOfFindings'
      BY <1>0, <1>r, <2>f, <2>u
         DEF WalkStaysInside, CollectsWhatFits, TallySoFar, SweepCounts, RiskOfFindings, Before
    <2>3. QED
      BY <2>f, <2>1, <2>2 DEF IInv
  <1>3. QED
    BY <1>1, <1>2 DEF CostStep

-----------------------------------------------------------------------------
(* The theorems.                                                           *)
LEMMA NextIInv == IInv /\ [Next]_vars => IInv'
  <1> SUFFICES ASSUME IInv, [Next]_vars
               PROVE  IInv'
    OBVIOUS
  <1>1. CASE Step
    BY <1>1, PIIIInv, MigrationIInv, CostIInv DEF Step
  <1>2. CASE Writers /\ UNCHANGED <<walkVars, piiVars, migrationVars>>
    BY <1>2, WritersIInv
  <1>3. CASE UNCHANGED vars
    <2>u. /\ UNCHANGED <<command, phase, locked, pending, files, exit>>
          /\ UNCHANGED <<flags, toOpen, skipped, damaged, tally>>
          /\ UNCHANGED <<layout, limit, fileCount, risk, swallowed>>
          /\ UNCHANGED tableVars
      BY <1>3 DEF vars, walkVars, piiVars, migrationVars
    <2>0. /\ TypeOK /\ WalkStaysInside /\ CollectsWhatFits /\ TallySoFar /\ SweepCounts
          /\ RiskOfFindings
      BY DEF IInv
    <2>f. /\ TableInv' /\ TableTypeOK' /\ LockedIsWritten'
          /\ TargetManifests' = TargetManifests /\ TargetFiles' = TargetFiles
          /\ entries' = entries /\ removed' = removed
          /\ MetadataFindings' = MetadataFindings
      BY <2>u, StepFrame
    <2>1. Alive(TargetManifests \ pending)' = Alive(TargetManifests \ pending)
      BY <2>u, <2>f DEF Alive
    <2>2. TypeOK'
      BY <2>0, <2>u, <2>f DEF TypeOK, WalkTypeOK, PIITypeOK, MigrationTypeOK
    <2>3. WalkStaysInside' /\ CollectsWhatFits' /\ SweepCounts'
      BY <2>0, <2>u, <2>f, <2>1 DEF WalkStaysInside, CollectsWhatFits, Fits, Answered, SweepCounts, DataOf, TargetData
    <2>4. TallySoFar'
      BY <2>0, <2>u DEF TallySoFar, Answered, Counts, Code, Findings
    <2>5. RiskOfFindings'
      BY <2>0, <2>u, <2>f DEF RiskOfFindings, Over, Swept, DataFindings
    <2>6. QED
      BY <2>f, <2>2, <2>3, <2>4, <2>5 DEF IInv
  <1>4. QED
    BY <1>1, <1>2, <1>3 DEF Next

(* The invariant is inductive: every step of a command and of the writers  *)
(* keeps it.                                                               *)
THEOREM Inductive == Spec => []IInv
  BY InitIInv, NextIInv, PTL DEF Spec

(* Every variable keeps its type, files are collected within --max-files   *)
(* and opened once each, and a command that is over has an exit code.      *)
THEOREM TypeCorrect == Spec => []TypeOK
  <1>1. IInv => TypeOK
    BY DEF IInv
  <1>2. QED
    BY <1>1, Inductive, PTL

(* Whatever is committed, expired and deleted while it runs, a command     *)
(* collects files of one snapshot only, the one that was current when it   *)
(* loaded the table.                                                       *)
THEOREM OneSnapshotOnly == Spec => []OneSnapshotSampled
  <1>1. IInv => OneSnapshotSampled
    BY DEF IInv, WalkStaysInside, OneSnapshotSampled, TargetData
  <1>2. QED
    BY <1>1, Inductive, PTL

(* What Detect makes of the regular expressions, the Luhn sum and the      *)
(* entropy is what a value is.                                             *)
LEMMA DetectIsKind ==
    ASSUME NEW v \in Values, NEW t \in Detected
    PROVE  t \in Detect(v) <=> t \in Kind(v) \/ (t = "API_KEY_ENTROPY" /\ Kind(v) = {} /\ v.key)
  <1> DEFINE valid == IF v.luhn THEN v.regex ELSE v.regex \ {"CREDIT_CARD"}
             seen == IF "CREDIT_CARD" \in v.regex THEN valid \ {"AU_TFN", "IN_AADHAAR"} ELSE valid
  <1>1. v.regex \in SUBSET PIITypes /\ v.luhn \in BOOLEAN /\ v.key \in BOOLEAN
    BY DEF Values
  <1>2. seen = Kind(v)
    <2>1. CASE "CREDIT_CARD" \in v.regex /\ v.luhn
      BY <2>1 DEF Kind
    <2>2. CASE "CREDIT_CARD" \in v.regex /\ ~v.luhn
      BY <2>2 DEF Kind
    <2>3. CASE "CREDIT_CARD" \notin v.regex
      BY <2>3 DEF Kind
    <2>4. QED
      BY <2>1, <2>2, <2>3
  <1>3. Detect(v) = IF seen = {} /\ v.key THEN {"API_KEY_ENTROPY"} ELSE seen
    BY DEF Detect
  <1>4. QED
    BY <1>2, <1>3

(* For a column and a type, the tally of all files decides as the snapshot *)
(* does, when no more values than are read are there.                      *)
LEMMA TallyDecides ==
    ASSUME TableTypeOK, locked \in TableMetadata, NEW n \in Nat,
           NEW c \in Columns, NEW t \in Detected,
           Counts(tally, GroupsOf(TargetData), n),
           \A g \in TargetGroups : Cardinality(NonNull(c, g)) <= n
    PROVE  LET found == /\ tally.matches[c][t] > 0
                        /\ 100 * tally.matches[c][t] >= Confidence * tally.rows[c]
           IN  (found => Reaches(c, t)) /\ (Exceeds(c, t) => found)
  <1> DEFINE G == GroupsOf(TargetData)
  <1>1. G \in SUBSET AllGroups /\ IsFiniteSet(G) /\ G = TargetGroups
    BY TargetTypes, GroupsFinite DEF TargetGroups, GroupsOf
  <1>2. RowsOf(c) = Cells(c, G, n)
    <2>1. \A g \in G : Read(c, g, n) = NonNull(c, g)
      BY <1>1, AllAreRead
    <2>2. QED
      BY <1>1, <2>1 DEF RowsOf, Cells
  <1>3. \A r \in RowsOf(c) : Sample[r[1]][c][r[2]] \in Values
    BY <1>1, ValuesFinite DEF RowsOf
  <1>4. Hits(c, t) = Detecting(c, t, G, n)
    <2>1. \A r \in RowsOf(c) :
            (LET v == Sample[r[1]][c][r[2]]
             IN  t \in Kind(v) \/ (t = "API_KEY_ENTROPY" /\ Kind(v) = {} /\ v.key))
            <=> t \in Detect(Sample[r[1]][c][r[2]])
      BY <1>3, DetectIsKind
    <2>2. QED
      BY <1>2, <2>1 DEF Hits, Detecting
  <1>5. /\ IsFiniteSet(Detecting(c, t, G, n))
        /\ RowsIn(c, G, n) \in Nat /\ MatchesIn(c, t, G, n) \in Nat
    BY <1>1, CountsOfGroups
  <1>6. /\ tally.matches[c][t] = Cardinality(Hits(c, t)) /\ tally.rows[c] = Cardinality(RowsOf(c))
        /\ Cardinality(Hits(c, t)) \in Nat /\ Cardinality(RowsOf(c)) \in Nat
    BY <1>2, <1>4, <1>5 DEF Counts, RowsIn, MatchesIn, Detecting
  <1>7. Cardinality(Hits(c, t)) > 0 <=> Hits(c, t) # {}
    BY <1>4, <1>5, <1>6, FS_EmptySet
  <1>8. Confidence \in Nat
    <2>1. Confidence \in 0..100
      BY PIIAssumption
    <2>2. QED
      BY <2>1
  <1>9. 100 * Cardinality(Hits(c, t)) \in Nat /\ Confidence * Cardinality(RowsOf(c)) \in Nat
    BY <1>6, <1>8
  <1>10. QED
    BY <1>6, <1>7, <1>9 DEF Reaches, Exceeds

(* An exhaustive scan without a warning, whose limits have room for the    *)
(* data files of the snapshot and the values of its row groups, answers    *)
(* for all of it: exit code 3 only if in some column some type reaches the *)
(* confidence over all values that are there, and whenever one exceeds it, *)
(* although files are tallied one by one while writers go on, and for      *)
(* every number of files, groups, values and nulls.                        *)
THEOREM ExhaustiveScanIsExact == Spec => []ExhaustiveIsExact
  <1>1. IInv => ExhaustiveIsExact
    <2> SUFFICES ASSUME IInv, WholeSnapshotRead
                 PROVE  /\ exit = 3 => \E c \in Columns, t \in Detected : Reaches(c, t)
                        /\ (\E c \in Columns, t \in Detected : Exceeds(c, t)) => exit = 3
      BY DEF ExhaustiveIsExact
    <2>1. files = TargetData
      BY DEF IInv, CollectsWhatFits, Fits, Answered, WholeSnapshotRead
    <2>2. toOpen = {} /\ exit = Code(tally) /\ Counts(tally, GroupsOf(files \ toOpen), flags.rows)
      BY DEF IInv, TallySoFar, Answered, WholeSnapshotRead
    <2>3. Counts(tally, GroupsOf(TargetData), flags.rows)
      BY <2>1, <2>2
    <2>4. TableTypeOK /\ locked \in TableMetadata /\ flags.rows \in Nat
      BY PIIAssumption DEF IInv, TypeOK, WalkTypeOK, PIITypeOK, Flags
    <2> DEFINE Found(c, t) == /\ tally.matches[c][t] > 0
                              /\ 100 * tally.matches[c][t] >= Confidence * tally.rows[c]
    <2>5. \A c \in Columns, t \in Detected :
            (Found(c, t) => Reaches(c, t)) /\ (Exceeds(c, t) => Found(c, t))
      BY <2>3, <2>4, TallyDecides DEF WholeSnapshotRead
    <2>6. \A f \in Findings(tally) : f[1] \in Columns /\ f[2] \in Detected /\ Found(f[1], f[2])
      BY DEF Findings
    <2>7. \A c \in Columns, t \in Detected : Found(c, t) => <<c, t>> \in Findings(tally)
      BY DEF Findings
    <2> HIDE DEF Found
    <2>8. exit = 3 <=> Findings(tally) # {}
      BY <2>2 DEF Code
    <2>9. ASSUME exit = 3
          PROVE  \E c \in Columns, t \in Detected : Reaches(c, t)
      <3>1. PICK f \in Findings(tally) : TRUE
        BY <2>8, <2>9
      <3>2. QED
        BY <2>5, <2>6, <3>1
    <2>10. ASSUME NEW c \in Columns, NEW t \in Detected, Exceeds(c, t)
           PROVE  exit = 3
      BY <2>5, <2>7, <2>8, <2>10
    <2>11. QED
      BY <2>9, <2>10
  <1>2. QED
    BY <1>1, Inductive, PTL

-----------------------------------------------------------------------------
(* What the migration report says of the findings.                         *)
LEMMA FindingsFinite ==
    ASSUME locked \in TableMetadata, layout \in Layouts, NEW fs
    PROVE  IsFiniteSet(MetadataFindings \cup DataFindings(fs))
  <1>1. \A place, about : IsFiniteSet(OfPath(place, about))
    BY FS_EmptySet, FS_Singleton DEF OfPath
  <1>2. IsFiniteSet(UNION {OfPath(layout.lists[s], s) : s \in locked.snaps})
    <2> DEFINE F == [s \in locked.snaps |-> OfPath(layout.lists[s], s)]
    <2>1. IsFiniteSet(locked.snaps)
      BY SnapsFinite DEF TableMetadata
    <2>2. IsFiniteSet({F[s] : s \in locked.snaps})
      BY <2>1, ImageFinite
    <2>3. {OfPath(layout.lists[s], s) : s \in locked.snaps} = {F[s] : s \in locked.snaps}
      OBVIOUS
    <2>4. \A T \in {F[s] : s \in locked.snaps} : IsFiniteSet(T)
      BY <1>1
    <2>5. IsFiniteSet(UNION {F[s] : s \in locked.snaps})
      <3> HIDE DEF F
      <3>1. QED
        BY <2>2, <2>4, FS_UNION
    <2>6. QED
      BY <2>3, <2>5
  <1>3. IsFiniteSet({<<"HDFS_PROPERTY", key>> : key \in layout.properties})
    <2> DEFINE F == [key \in layout.properties |-> <<"HDFS_PROPERTY", key>>]
               known == {"write.metadata.path"} \cup {"write.folder-storage.path"}
                          \cup {"write.distribution-mode"} \cup {"hadoop.use.file.transfer.scheme"}
    <2>1. IsFiniteSet(known)
      BY FS_Singleton, FS_Union
    <2>2. layout.properties \subseteq known
      BY MigrationAssumption
    <2> HIDE DEF known
    <2>3. IsFiniteSet(layout.properties)
      BY <2>1, <2>2, FS_Subset
    <2>4. IsFiniteSet({F[key] : key \in layout.properties})
      BY <2>3, ImageFinite
    <2>5. {<<"HDFS_PROPERTY", key>> : key \in layout.properties} = {F[key] : key \in layout.properties}
      OBVIOUS
    <2>6. QED
      BY <2>4, <2>5
  <1>4. /\ IsFiniteSet(IF layout.version = 1 THEN {<<"V1_UPGRADE_RECOMMENDED", "version">>} ELSE {})
        /\ IsFiniteSet(DataFindings(fs))
    BY FS_EmptySet, FS_Singleton DEF DataFindings
  <1>5. IsFiniteSet(MetadataFindings)
    <2> DEFINE Tops == OfPath(layout.location, "location")
                         \cup OfPath(layout.metadata, "metadata")
               Lists == UNION {OfPath(layout.lists[s], s) : s \in locked.snaps}
               Keys == {<<"HDFS_PROPERTY", key>> : key \in layout.properties}
               Version == IF layout.version = 1
                          THEN {<<"V1_UPGRADE_RECOMMENDED", "version">>} ELSE {}
    <2>1. MetadataFindings = ((Tops \cup Lists) \cup Keys) \cup Version
      BY DEF MetadataFindings
    <2>2. IsFiniteSet(Tops)
      BY <1>1, FS_Union
    <2>3. IsFiniteSet(Lists) /\ IsFiniteSet(Keys) /\ IsFiniteSet(Version)
      BY <1>2, <1>3, <1>4
    <2> HIDE DEF Tops, Lists, Keys, Version
    <2>4. IsFiniteSet(Tops \cup Lists)
      BY <2>2, <2>3, FS_Union
    <2>5. IsFiniteSet((Tops \cup Lists) \cup Keys)
      BY <2>3, <2>4, FS_Union
    <2>6. IsFiniteSet(((Tops \cup Lists) \cup Keys) \cup Version)
      BY <2>3, <2>5, FS_Union
    <2>7. QED
      BY <2>1, <2>6
  <1>6. QED
    BY <1>4, <1>5, FS_Union

LEMMA RiskSaysWhatIsThere ==
    ASSUME NEW findings, IsFiniteSet(findings)
    PROVE  /\ Risk(findings) = "LOW" <=> findings = {}
           /\ High(findings) # {} => Risk(findings) = "HIGH"
           /\ High(findings) = {} /\ (\E f \in findings : findings = {f}) => Risk(findings) = "MEDIUM"
  <1>1. High(findings) \subseteq findings
    BY DEF High
  <1>2. CASE High(findings) # {}
    BY <1>1, <1>2 DEF Risk
  <1>3. CASE High(findings) = {}
    <2>1. Medium(findings) = findings /\ Cardinality(findings) \in Nat
      BY <1>3, FS_CardinalityType DEF Medium
    <2>2. /\ Cardinality(findings) = 0 <=> findings = {}
          /\ Cardinality(findings) = 1 <=> \E f : findings = {f}
      BY FS_EmptySet, FS_Singleton
    <2>3. ~ (Cardinality(findings) >= 2) <=> findings = {} \/ \E f \in findings : findings = {f}
      BY <2>1, <2>2
    <2>4. Risk(findings) = IF Cardinality(findings) >= 2 THEN "HIGH"
                           ELSE IF findings # {} THEN "MEDIUM" ELSE "LOW"
      BY <1>3, <2>1 DEF Risk
    <2>5. QED
      BY <1>3, <2>1, <2>2, <2>3, <2>4
  <1>4. QED
    BY <1>2, <1>3

(* The report of a table whose manifests were all read is that of the      *)
(* locked snapshot: it counts each of its files once, delete files         *)
(* included, is LOW without a finding, HIGH if one is, MEDIUM for a single *)
(* other one, and the exit code covers its risk; for every layout, limit   *)
(* and history of commits, expiries and deletions.                         *)
THEOREM MigrationReportIsExact == Spec => []ReportIsExact
  <1>1. IInv => ReportIsExact
    <2> DEFINE findings == MetadataFindings \cup DataFindings(TargetFiles)
    <2> SUFFICES ASSUME IInv
                 PROVE  ReportIsExact
      OBVIOUS
    <2>t. TableTypeOK /\ locked \in TableMetadata /\ layout \in Layouts /\ limit \in Nat
      BY MigrationAssumption DEF IInv, TypeOK, WalkTypeOK, MigrationTypeOK
    <2>1. ASSUME risk # "none", ~swallowed, Cardinality(TargetManifests) <= limit
          PROVE  /\ fileCount = Cardinality(TargetFiles)
                 /\ risk = "LOW" <=> findings = {}
                 /\ High(findings) # {} => risk = "HIGH"
                 /\ High(findings) = {} /\ (\E f \in findings : findings = {f}) => risk = "MEDIUM"
      <3>1. /\ command = "migration" /\ Over
            /\ risk = Risk(MetadataFindings \cup DataFindings(files))
        BY <2>1 DEF IInv, RiskOfFindings
      <3>2. /\ files = Alive(TargetManifests \ pending) /\ fileCount = Cardinality(files)
            /\ pending \subseteq TargetManifests
        BY <2>1, <3>1 DEF IInv, SweepCounts, WalkStaysInside
      <3>3. pending = {}
        <4>1. /\ IsFiniteSet(pending) /\ Cardinality(pending) \in Nat
              /\ Cardinality(TargetManifests) \in Nat
          BY <2>t, <3>2, TargetTypes, SnapsFinite
        <4>2. Over => pending = {} \/ Cardinality(pending) = 0
          BY <2>t, <2>1, <4>1 DEF Over, Swept
        <4>3. QED
          BY <3>1, <4>1, <4>2, FS_EmptySet
      <3>4. files = TargetFiles
        BY <3>2, <3>3 DEF TargetFiles
      <3>5. IsFiniteSet(findings)
        BY <2>t, FindingsFinite
      <3> HIDE DEF findings
      <3>6. risk = Risk(findings)
        BY <3>1, <3>4 DEF findings
      <3>7. QED
        BY <3>2, <3>4, <3>5, <3>6, RiskSaysWhatIsThere
    <2>2. command = "migration" /\ exit \in {0, 1} => exit >= CodeOf(risk)
      BY DEF IInv, RiskOfFindings
    <2>3. QED
      BY <2>1, <2>2 DEF ReportIsExact
  <1>2. QED
    BY <1>1, Inductive, PTL

-----------------------------------------------------------------------------
(* bench.  The invariant: what the jobs and the files are, and that a      *)
(* baseline that was decoded or is in a file as a whole has been captured. *)

Contents == {Absent} \cup {Torn(n) : n \in Nat} \cup {Whole(b) : b \in Baseline}
JobStates == {"begin", "open", "write", "read", "scan", "nobaseline", "error", "ok"}
JobRecords == [command : JobKinds, arg : Arguments, tag : Tags, pc : JobStates,
               baseline : Baseline \cup {NoBaseline}, body : Contents]

BenchTypes ==
    /\ table \in [Tables -> 0..MaxState]
    /\ disk \in [Files -> Contents]
    /\ job \in [Jobs -> JobRecords]
    /\ captured \subseteq Baseline
    /\ \A j \in Jobs : /\ job[j].pc \in {"open", "write"} => job[j].command = "start"
                       /\ job[j].pc = "read" => job[j].command = "compare"

Carries(j) == job[j].pc \in {"open", "write", "scan"} \/ Compared(j)

CapturedOnly ==
    /\ \A f \in Files : disk[f].kind = "whole" => disk[f].baseline \in captured
    /\ \A j \in Jobs : Carries(j) => job[j].baseline \in captured

(* A file is of the table and the tag that it is named after, and a job    *)
(* has a baseline of its own table and tag.                                *)
InItsFile ==
    /\ \A f \in Files : disk[f].kind = "whole" =>
         f = FileName[<<disk[f].baseline.table, disk[f].baseline.tag>>]
    /\ \A j \in Jobs : Carries(j) =>
         job[j].baseline.table = IdOf[job[j].arg] /\ job[j].baseline.tag = job[j].tag

(* Names that do not meet: a file that compare asks for by what the user   *)
(* typed is the file that start writes for that very table and tag.  The   *)
(* code does not see to it (sanitizeFilename joins the two by "_").        *)
NamesApart ==
    \A a, b \in Arguments : \A g, h \in Tags :
        FileName[<<a, g>>] = FileName[<<IdOf[b], h>>] => IdOf[a] = IdOf[b] /\ g = h

(* What compare has read so far is torn, or what the file it reads held as *)
(* a whole.                                                                *)
ReadOfItsFile ==
    \A j \in Jobs : job[j].body.kind = "whole" =>
        LET b == job[j].body.baseline
        IN  /\ b \in captured
            /\ NamesApart => FileToRead(job[j]) = FileName[<<b.table, b.tag>>]

BenchInv == BenchTypes /\ CapturedOnly /\ (NamesApart => InItsFile) /\ ReadOfItsFile

(* The names of files are those of what start writes and compare reads.    *)
LEMMA FilesOfJobs ==
    ASSUME NEW j \in JobRecords
    PROVE  FileToWrite(j) \in Files /\ FileToRead(j) \in Files
  BY BenchAssumption DEF JobRecords, FileToWrite, FileToRead, Files

(* What there can be in a file, case by case.                              *)
LEMMA KindsOfContents ==
    /\ Absent \in Contents /\ Absent.kind = "absent"
    /\ Empty \in Contents /\ Empty.kind = "torn"
    /\ \A n \in Nat : Torn(n) \in Contents /\ Torn(n).kind = "torn"
    /\ \A b \in Baseline :
         Whole(b) \in Contents /\ Whole(b).kind = "whole" /\ Whole(b).baseline = b
    /\ \A c \in Contents :
         /\ c.length \in Nat /\ c.kind \in {"absent", "torn", "whole"}
         /\ c.kind = "whole" => c.baseline \in Baseline /\ c = Whole(c.baseline)
  <1>1. Empty = Torn(0)
    BY DEF Empty, Torn
  <1>2. \A b \in Baseline :
          Whole(b) \in Contents /\ Whole(b).kind = "whole" /\ Whole(b).baseline = b
    BY DEF Contents, Whole
  <1>3. \A b \in Baseline : Whole(b).length \in Nat
    BY BenchAssumption DEF Whole, Baseline
  <1>4. /\ Absent \in Contents /\ Absent.kind = "absent" /\ Absent.length \in Nat
        /\ \A n \in Nat : Torn(n) \in Contents /\ Torn(n).kind = "torn" /\ Torn(n).length \in Nat
    BY DEF Contents, Absent, Torn
  <1>5. ASSUME NEW c \in Contents
        PROVE  /\ c.length \in Nat /\ c.kind \in {"absent", "torn", "whole"}
               /\ c.kind = "whole" => c.baseline \in Baseline /\ c = Whole(c.baseline)
    <2>1. c = Absent \/ (\E n \in Nat : c = Torn(n)) \/ (\E b \in Baseline : c = Whole(b))
      BY DEF Contents
    <2>2. QED
      BY <2>1, <1>2, <1>3, <1>4
  <1>6. QED
    BY <1>1, <1>2, <1>4, <1>5

(* A step that reads nothing leaves alone what was read.                   *)
LEMMA NothingRead ==
    ASSUME ReadOfItsFile, captured \subseteq captured',
           \A j \in Jobs : /\ job'[j].body = job[j].body
                          /\ job'[j].arg = job[j].arg /\ job'[j].tag = job[j].tag
    PROVE  ReadOfItsFile'
  <1>1. NamesApart' = NamesApart
    BY DEF NamesApart
  <1>2. \A j \in Jobs : FileToRead(job'[j]) = FileToRead(job[j])
    BY DEF FileToRead
  <1>3. QED
    BY <1>1, <1>2 DEF ReadOfItsFile

LEMMA BenchInitInv == BenchInit => BenchInv
  <1> SUFFICES ASSUME BenchInit
               PROVE  BenchInv
    OBVIOUS
  <1>1. /\ table \in [Tables -> 0..MaxState] /\ captured = {}
        /\ \A f \in Files : disk[f] = Absent
    BY BenchAssumption DEF BenchInit
  <1>2. disk \in [Files -> Contents]
    BY KindsOfContents DEF BenchInit
  <1>3. /\ job \in [Jobs -> JobRecords]
        /\ \A j \in Jobs : job[j].pc = "begin" /\ job[j].body = Empty
    <2>1. \A x \in {NewJob(c, a, g) : c \in JobKinds, a \in Arguments, g \in Tags} :
             x \in JobRecords /\ x.pc = "begin" /\ x.body = Empty
      BY KindsOfContents DEF NewJob, JobRecords, JobStates
    <2>2. QED
      BY <2>1 DEF BenchInit
  <1>4. \A j \in Jobs : ~Carries(j)
    BY <1>3 DEF Carries, Compared
  <1>5. \A f \in Files : disk[f].kind # "whole"
    BY <1>1, KindsOfContents
  <1>6. ReadOfItsFile
    BY <1>3, KindsOfContents DEF ReadOfItsFile
  <1>7. QED
    BY <1>1, <1>2, <1>3, <1>4, <1>5, <1>6 DEF BenchInv, BenchTypes, CapturedOnly, InItsFile

(* A step that leaves the files alone and only ends a job, or begins to    *)
(* read, or nothing.                                                       *)
LEMMA QuietStep ==
    ASSUME BenchInv, captured' = captured, disk' = disk,
           table' \in [Tables -> 0..MaxState], job' \in [Jobs -> JobRecords],
           \A j \in Jobs : /\ job'[j].command = job[j].command /\ job'[j].body = job[j].body
                          /\ job'[j].arg = job[j].arg /\ job'[j].tag = job[j].tag,
           \A j \in Jobs :
               \/ job'[j] = job[j]
               \/ Carries(j) /\ job'[j].pc = "ok" /\ job'[j].baseline = job[j].baseline
               \/ job'[j].pc \in {"nobaseline", "error"}
               \/ job'[j].pc = "read" /\ job[j].command = "compare"
    PROVE  BenchInv'
  <1>1. BenchTypes'
    BY DEF BenchInv, BenchTypes
  <1>2. \A j \in Jobs : Carries(j)' =>
          /\ Carries(j) /\ job'[j].baseline = job[j].baseline
          /\ job'[j].arg = job[j].arg /\ job'[j].tag = job[j].tag
    BY DEF Carries, Compared
  <1>3. CapturedOnly'
    BY <1>2 DEF BenchInv, CapturedOnly
  <1>4. NamesApart => InItsFile'
    BY <1>2 DEF BenchInv, InItsFile
  <1>5. ReadOfItsFile'
    BY NothingRead DEF BenchInv
  <1>6. QED
    BY <1>1, <1>3, <1>4, <1>5 DEF BenchInv, NamesApart

LEMMA StartScanInv ==
    ASSUME BenchInv, NEW j \in Jobs, StartScan(j)
    PROVE  BenchInv'
  <1> DEFINE t == IdOf[job[j].arg]
             b == [table |-> t, tag |-> job[j].tag, state |-> table[t]]
  <1>1. b \in Baseline
    BY BenchAssumption DEF BenchInv, BenchTypes, JobRecords, Baseline
  <1>2. /\ job' = [job EXCEPT ![j].pc = "open", ![j].baseline = b]
        /\ captured' = captured \cup {b} /\ table' = table /\ disk' = disk
        /\ job[j].command = "start"
    BY DEF StartScan
  <1> HIDE DEF b
  <1>3. /\ job' \in [Jobs -> JobRecords]
        /\ job'[j].pc = "open" /\ job'[j].baseline = b /\ job'[j].command = "start"
        /\ job'[j].arg = job[j].arg /\ job'[j].tag = job[j].tag /\ job'[j].body = job[j].body
        /\ \A i \in Jobs \ {j} : job'[i] = job[i]
    BY <1>1, <1>2 DEF BenchInv, BenchTypes, JobRecords, JobStates
  <1>4. BenchTypes'
    BY <1>1, <1>2, <1>3 DEF BenchInv, BenchTypes
  <1>5. \A i \in Jobs \ {j} : Carries(i)' => Carries(i)
    BY <1>3 DEF Carries, Compared
  <1>6. CapturedOnly'
    BY <1>2, <1>3, <1>5 DEF BenchInv, CapturedOnly
  <1>7. NamesApart => InItsFile'
    <2>1. b.table = IdOf[job[j].arg] /\ b.tag = job[j].tag
      BY DEF b
    <2>2. QED
      BY <1>2, <1>3, <1>5, <2>1 DEF BenchInv, InItsFile
  <1>8. ReadOfItsFile'
    BY <1>2, <1>3, NothingRead DEF BenchInv
  <1>9. QED
    BY <1>4, <1>6, <1>7, <1>8 DEF BenchInv, NamesApart

LEMMA OpenInv ==
    ASSUME BenchInv, NEW j \in Jobs, Open(j)
    PROVE  BenchInv'
  <1> DEFINE f == FileToWrite(job[j])
  <1>1. f \in Files
    BY FilesOfJobs DEF BenchInv, BenchTypes
  <1>2. /\ disk' = [disk EXCEPT ![f] = Empty] /\ job' = [job EXCEPT ![j].pc = "write"]
        /\ job[j].pc = "open" /\ table' = table /\ captured' = captured
    BY DEF Open
  <1> HIDE DEF f
  <1>3. /\ job' \in [Jobs -> JobRecords]
        /\ \A i \in Jobs : /\ job'[i].baseline = job[i].baseline /\ job'[i].arg = job[i].arg
                           /\ job'[i].tag = job[i].tag /\ job'[i].command = job[i].command
                           /\ job'[i].pc = IF i = j THEN "write" ELSE job[i].pc
                           /\ job'[i].body = job[i].body
    BY <1>2 DEF BenchInv, BenchTypes, JobRecords, JobStates
  <1>4. disk' \in [Files -> Contents]
    BY <1>1, <1>2, KindsOfContents DEF BenchInv, BenchTypes
  <1>5. \A g \in Files : disk'[g].kind = "whole" => disk'[g] = disk[g]
    BY <1>1, <1>2, KindsOfContents DEF BenchInv, BenchTypes
  <1>6. \A i \in Jobs : Carries(i)' => Carries(i)
    BY <1>2, <1>3 DEF Carries, Compared
  <1>7. BenchTypes'
    BY <1>2, <1>3, <1>4 DEF BenchInv, BenchTypes
  <1>8. CapturedOnly'
    BY <1>2, <1>3, <1>5, <1>6 DEF BenchInv, CapturedOnly
  <1>9. NamesApart => InItsFile'
    BY <1>3, <1>5, <1>6 DEF BenchInv, InItsFile
  <1>10. ReadOfItsFile'
    BY <1>2, <1>3, NothingRead DEF BenchInv
  <1>11. QED
    BY <1>7, <1>8, <1>9, <1>10 DEF BenchInv, NamesApart

(* Whatever becomes of a write, the file is whole only if it is the job's  *)
(* own baseline.                                                           *)
LEMMA WriteInv ==
    ASSUME BenchInv, NEW j \in Jobs, Write(j) \/ ShortWrite(j)
    PROVE  BenchInv'
  <1> DEFINE f == FileToWrite(job[j])
             b == job[j].baseline
  <1>1. f \in Files /\ b \in captured /\ b \in Baseline
    BY FilesOfJobs DEF BenchInv, BenchTypes, CapturedOnly, Carries, Write, ShortWrite
  <1>2. PICK c : c \in Contents /\ (c.kind = "whole" => c = Whole(b))
                 /\ disk' = [disk EXCEPT ![f] = c]
    <2>1. CASE Write(j)
      <3>1. disk' = [disk EXCEPT ![f] = Overwritten(@, b)]
        BY <2>1 DEF Write
      <3>2. disk[f].length \in Nat
        BY <1>1, KindsOfContents DEF BenchInv, BenchTypes
      <3>3. /\ Overwritten(disk[f], b) \in Contents
            /\ Overwritten(disk[f], b).kind = "whole" => Overwritten(disk[f], b) = Whole(b)
        BY <1>1, <3>2, KindsOfContents DEF Overwritten
      <3>4. QED
        BY <3>1, <3>3
    <2>2. CASE ShortWrite(j)
      <3>1. disk' = [disk EXCEPT ![f] = Torn(IF @.length = 0 THEN 1 ELSE @.length)]
        BY <2>2 DEF ShortWrite
      <3>2. disk[f].length \in Nat
        BY <1>1, KindsOfContents DEF BenchInv, BenchTypes
      <3>3. QED
        BY <3>1, <3>2, KindsOfContents
    <2>3. QED
      BY <2>1, <2>2
  <1>3. /\ table' = table /\ captured' = captured
        /\ job[j].pc = "write" /\ job[j].command = "start"
        /\ \E pc \in {"ok", "error"} : job' = [job EXCEPT ![j].pc = pc]
    BY DEF Write, ShortWrite, BenchInv, BenchTypes
  <1>4. f = FileName[<<IdOf[job[j].arg], job[j].tag>>]
    BY DEF FileToWrite
  <1>5. NamesApart => b.table = IdOf[job[j].arg] /\ b.tag = job[j].tag
    BY <1>3 DEF BenchInv, InItsFile, Carries
  <1> HIDE DEF f
  <1>6. /\ job' \in [Jobs -> JobRecords]
        /\ \A i \in Jobs : /\ job'[i].baseline = job[i].baseline /\ job'[i].arg = job[i].arg
                           /\ job'[i].tag = job[i].tag /\ job'[i].command = job[i].command
                           /\ i # j => job'[i] = job[i]
                           /\ job'[i].body = job[i].body
        /\ job'[j].pc \in {"ok", "error"}
    BY <1>3 DEF BenchInv, BenchTypes, JobRecords, JobStates
  <1> HIDE DEF b
  <1>7. disk' \in [Files -> Contents]
    BY <1>1, <1>2 DEF BenchInv, BenchTypes
  <1>8. \A g \in Files : /\ g # f => disk'[g] = disk[g]
                         /\ disk'[g].kind = "whole" /\ g = f => disk'[g].baseline = b
    BY <1>1, <1>2, KindsOfContents DEF BenchInv, BenchTypes
  <1>9. \A i \in Jobs : Carries(i)' => Carries(i) /\ i # j
    BY <1>3, <1>6 DEF Carries, Compared
  <1>10. BenchTypes'
    BY <1>3, <1>6, <1>7 DEF BenchInv, BenchTypes
  <1>11. CapturedOnly'
    BY <1>1, <1>3, <1>6, <1>8, <1>9 DEF BenchInv, CapturedOnly
  <1>12. NamesApart => InItsFile'
    BY <1>4, <1>5, <1>6, <1>8, <1>9 DEF BenchInv, InItsFile
  <1>13. ReadOfItsFile'
    BY <1>3, <1>6, NothingRead DEF BenchInv
  <1>14. QED
    BY <1>10, <1>11, <1>12, <1>13 DEF BenchInv, NamesApart

(* What a read adds is the whole file, if it is the first, and torn        *)
(* otherwise.                                                              *)
LEMMA CompareReadInv ==
    ASSUME BenchInv, NEW j \in Jobs, CompareRead(j)
    PROVE  BenchInv'
  <1> DEFINE f == FileToRead(job[j])
             c == ReadOn(job[j].body, disk[f])
  <1>1. f \in Files /\ disk[f] \in Contents
    BY FilesOfJobs DEF BenchInv, BenchTypes
  <1>2. c \in Contents /\ (c.kind = "whole" => c = disk[f])
    BY <1>1, KindsOfContents DEF ReadOn
  <1>3. /\ job' = [job EXCEPT ![j].body = c] /\ job[j].pc = "read"
        /\ table' = table /\ captured' = captured /\ disk' = disk
    BY DEF CompareRead
  <1> HIDE DEF c
  <1>4. /\ job' \in [Jobs -> JobRecords] /\ job'[j].body = c
        /\ \A i \in Jobs : /\ job'[i].baseline = job[i].baseline /\ job'[i].arg = job[i].arg
                           /\ job'[i].tag = job[i].tag /\ job'[i].command = job[i].command
                           /\ job'[i].pc = job[i].pc
                           /\ i # j => job'[i] = job[i]
    BY <1>2, <1>3 DEF BenchInv, BenchTypes, JobRecords
  <1>5. BenchTypes'
    BY <1>3, <1>4 DEF BenchInv, BenchTypes
  <1>6. \A i \in Jobs : Carries(i)' => Carries(i)
    BY <1>4 DEF Carries, Compared
  <1>7. CapturedOnly'
    BY <1>3, <1>4, <1>6 DEF BenchInv, CapturedOnly
  <1>8. NamesApart => InItsFile'
    BY <1>3, <1>4, <1>6 DEF BenchInv, InItsFile
  <1>9. ReadOfItsFile'
    <2>1. \A i \in Jobs : FileToRead(job'[i]) = FileToRead(job[i])
      BY <1>4 DEF FileToRead
    <2>2. c.kind = "whole" =>
            /\ c.baseline \in captured
            /\ NamesApart => f = FileName[<<c.baseline.table, c.baseline.tag>>]
      BY <1>1, <1>2 DEF BenchInv, CapturedOnly, InItsFile
    <2>3. NamesApart' = NamesApart
      BY DEF NamesApart
    <2>4. QED
      BY <1>3, <1>4, <2>1, <2>2, <2>3 DEF BenchInv, ReadOfItsFile
  <1>10. QED
    BY <1>5, <1>7, <1>8, <1>9 DEF BenchInv, NamesApart

LEMMA CompareDecodeInv ==
    ASSUME BenchInv, NEW j \in Jobs, CompareDecode(j)
    PROVE  BenchInv'
  <1> DEFINE f == FileToRead(job[j])
             body == job[j].body
             b == Decoded(body)
  <1>1. body \in Contents /\ job[j].pc = "read" /\ job[j].command = "compare"
    BY DEF BenchInv, BenchTypes, JobRecords, CompareDecode
  <1>2. PICK pc \in {"scan", "error"} :
          /\ job' = [job EXCEPT ![j].pc = pc, ![j].baseline = b, ![j].body = Empty]
          /\ pc = "scan" => body.kind = "whole"
    BY DEF CompareDecode, Parses
  <1>3. table' = table /\ captured' = captured /\ disk' = disk
    BY DEF CompareDecode
  <1>4. b \in Baseline \cup {NoBaseline} /\ (pc = "scan" => b = body.baseline)
    BY <1>1, <1>2, KindsOfContents DEF Decoded
  <1>5. f = FileName[<<job[j].arg, job[j].tag>>]
    BY DEF FileToRead
  <1>6. pc = "scan" => /\ b \in captured
                       /\ NamesApart => f = FileName[<<b.table, b.tag>>]
    BY <1>2, <1>4 DEF BenchInv, ReadOfItsFile
  <1> HIDE DEF f, b
  <1>7. /\ job' \in [Jobs -> JobRecords]
        /\ job'[j].pc = pc /\ job'[j].baseline = b /\ job'[j].arg = job[j].arg
        /\ job'[j].tag = job[j].tag /\ job'[j].command = "compare" /\ job'[j].body = Empty
        /\ \A i \in Jobs \ {j} : job'[i] = job[i]
    <2>1. job \in [Jobs -> JobRecords] /\ job[j] \in JobRecords
      BY DEF BenchInv, BenchTypes
    <2> DEFINE r == [job[j] EXCEPT !.pc = pc, !.baseline = b, !.body = Empty]
    <2>2. job' = [job EXCEPT ![j] = r]
      BY <1>2, <2>1
    <2>3. /\ r \in JobRecords
          /\ r.pc = pc /\ r.baseline = b /\ r.arg = job[j].arg
          /\ r.tag = job[j].tag /\ r.command = job[j].command /\ r.body = Empty
      BY <1>4, <2>1, KindsOfContents DEF JobRecords, JobStates
    <2> HIDE DEF r
    <2>4. job' \in [Jobs -> JobRecords] /\ job'[j] = r /\ \A i \in Jobs \ {j} : job'[i] = job[i]
      BY <2>1, <2>2, <2>3
    <2>5. QED
      BY <1>1, <2>3, <2>4
  <1>8. \A i \in Jobs : Carries(i)' => IF i = j THEN pc = "scan" ELSE Carries(i)
    BY <1>7 DEF Carries, Compared
  <1>9. BenchTypes'
    BY <1>3, <1>7 DEF BenchInv, BenchTypes
  <1>10. CapturedOnly'
    BY <1>3, <1>6, <1>7, <1>8 DEF BenchInv, CapturedOnly
  <1>11. NamesApart => InItsFile'
    <2>1. ASSUME NamesApart, pc = "scan"
          PROVE  b.table = IdOf[job[j].arg] /\ b.tag = job[j].tag
      <3>1. f = FileName[<<b.table, b.tag>>] /\ b \in Baseline
        BY <1>1, <1>2, <1>4, <1>6, <2>1, KindsOfContents
      <3>2. /\ job[j].arg \in Arguments /\ job[j].tag \in Tags
            /\ b.table \in Arguments /\ b.tag \in Tags /\ IdOf[b.table] = b.table
        BY <3>1, BenchAssumption DEF BenchInv, BenchTypes, JobRecords, Baseline
      <3>3. FileName[<<job[j].arg, job[j].tag>>] = FileName[<<IdOf[b.table], b.tag>>]
        BY <1>5, <3>1, <3>2
      <3>4. IdOf[job[j].arg] = IdOf[b.table] /\ job[j].tag = b.tag
        BY <2>1, <3>2, <3>3 DEF NamesApart
      <3>5. QED
        BY <3>2, <3>4
    <2>2. QED
      BY <1>3, <1>7, <1>8, <2>1 DEF BenchInv, InItsFile
  <1>12. ReadOfItsFile'
    <2>1. \A i \in Jobs \ {j} : FileToRead(job'[i]) = FileToRead(job[i])
      BY <1>7 DEF FileToRead
    <2>2. NamesApart' = NamesApart
      BY DEF NamesApart
    <2>3. QED
      BY <1>3, <1>7, <2>1, <2>2, KindsOfContents DEF BenchInv, ReadOfItsFile
  <1>13. QED
    BY <1>9, <1>10, <1>11, <1>12 DEF BenchInv, NamesApart

LEMMA BenchNextInv == BenchInv /\ [BenchNext]_benchVars => BenchInv'
  <1> SUFFICES ASSUME BenchInv, [BenchNext]_benchVars
               PROVE  BenchInv'
    OBVIOUS
  <1>t. table \in [Tables -> 0..MaxState] /\ job \in [Jobs -> JobRecords]
    BY DEF BenchInv, BenchTypes
  <1>1. CASE UNCHANGED benchVars
    BY <1>1, <1>t, QuietStep DEF benchVars
  <1>2. ASSUME NEW j \in Jobs, CompareScan(j)
        PROVE  BenchInv'
    <2>1. /\ job' \in [Jobs -> JobRecords] /\ captured' = captured /\ disk' = disk /\ table' = table
          /\ Carries(j) /\ job'[j].pc = "ok" /\ job'[j].baseline = job[j].baseline
          /\ job'[j].arg = job[j].arg /\ job'[j].tag = job[j].tag
          /\ job'[j].command = job[j].command /\ job'[j].body = job[j].body
          /\ \A i \in Jobs \ {j} : job'[i] = job[i]
      BY <1>2, <1>t DEF CompareScan, JobRecords, JobStates, Carries
    <2>2. QED
      BY <2>1, <1>t, QuietStep
  <1>3. ASSUME NEW j \in Jobs, Fail(j)
        PROVE  BenchInv'
    <2>1. /\ job' \in [Jobs -> JobRecords] /\ captured' = captured /\ disk' = disk /\ table' = table
          /\ job'[j].arg = job[j].arg /\ job'[j].tag = job[j].tag
          /\ job'[j].command = job[j].command /\ job'[j].body = job[j].body
          /\ job'[j].pc = "error" /\ \A i \in Jobs \ {j} : job'[i] = job[i]
      BY <1>3, <1>t DEF Fail, JobRecords, JobStates
    <2>2. QED
      BY <2>1, <1>t, QuietStep
  <1>o. ASSUME NEW j \in Jobs, CompareOpen(j)
        PROVE  BenchInv'
    <2>1. /\ job' \in [Jobs -> JobRecords] /\ captured' = captured /\ disk' = disk /\ table' = table
          /\ job'[j].arg = job[j].arg /\ job'[j].tag = job[j].tag
          /\ job'[j].command = job[j].command /\ job'[j].body = job[j].body
          /\ job'[j].pc \in {"nobaseline", "read"} /\ job[j].command = "compare"
          /\ \A i \in Jobs \ {j} : job'[i] = job[i]
      BY <1>o, <1>t DEF CompareOpen, JobRecords, JobStates
    <2>2. QED
      BY <2>1, <1>t, QuietStep
  <1>4. ASSUME NEW t \in Tables, TableChanges(t)
        PROVE  BenchInv'
    <2>1. table' \in [Tables -> 0..MaxState] /\ captured' = captured /\ disk' = disk /\ job' = job
      BY <1>4, <1>t, BenchAssumption DEF TableChanges
    <2>2. QED
      BY <2>1, <1>t, QuietStep
  <1>5. QED
    BY <1>1, <1>2, <1>3, <1>o, <1>4, StartScanInv, OpenInv, WriteInv, CompareReadInv,
       CompareDecodeInv DEF BenchNext, Job

LEMMA BenchInductive == BenchSpec => []BenchInv
  <1>1. QED
    BY BenchInitInv, BenchNextInv, PTL DEF BenchSpec

(* Every variable of bench keeps its type, and a file of the bench         *)
(* directory is one baseline or visibly not, however many jobs start,      *)
(* overwrite one another and are killed (bench.go:148).                     *)
THEOREM BenchTypeCorrect == BenchSpec => []BenchTypeOK
  <1>1. BenchInv => BenchTypeOK
    <2> SUFFICES ASSUME BenchInv
                 PROVE  BenchTypeOK
      OBVIOUS
    <2>1. \A f \in Files : /\ disk[f].kind \in {"absent", "torn", "whole"}
                           /\ disk[f].kind = "whole" => disk[f] = Whole(disk[f].baseline)
      BY KindsOfContents DEF BenchInv, BenchTypes
    <2>2. \A j \in Jobs : job[j].pc \in JobStates
      BY DEF BenchInv, BenchTypes, JobRecords
    <2>3. QED
      BY <2>1, <2>2 DEF BenchInv, BenchTypes, BenchTypeOK, JobStates
  <1>2. QED
    BY <1>1, BenchInductive, PTL

(* What compare reports a delta against is a baseline that some start has  *)
(* captured, whole: whatever file names the tables and tags are given.     *)
THEOREM ComparedWasCaptured ==
    BenchSpec => [](\A j \in Jobs : Compared(j) => job[j].baseline \in captured)
  <1>1. BenchInv => \A j \in Jobs : Compared(j) => job[j].baseline \in captured
    BY DEF BenchInv, CapturedOnly, Carries
  <1>2. QED
    BY <1>1, BenchInductive, PTL

(* If file names do not meet, it is moreover a baseline of the very table  *)
(* and tag (bench.go:152).                                                 *)
THEOREM DeltaIsOfACapture == NamesApart => (BenchSpec => []DeltaOfACapture)
  <1> SUFFICES ASSUME NamesApart
               PROVE  BenchSpec => []DeltaOfACapture
    OBVIOUS
  <1>1. BenchInv => DeltaOfACapture
    BY DEF BenchInv, CapturedOnly, InItsFile, Carries, DeltaOfACapture
  <1>2. QED
    BY <1>1, BenchInductive, PTL

=============================================================================
