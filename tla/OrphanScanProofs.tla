-------------------------- MODULE OrphanScanProofs --------------------------
(***************************************************************************)
(* What holds of the orphan scan for every number of files, snapshots and  *)
(* versions, and every value of the grace period and the two windows.      *)
(***************************************************************************)
EXTENDS OrphanScan, BloomFilter, IcebergTableProofs, FiniteSetTheorems, TLAPS

LEMMA NextTypeOK == TypeOK /\ [Next]_vars => TypeOK'
  <1> SUFFICES ASSUME TypeOK, [Next]_vars
               PROVE  TypeOK'
    OBVIOUS
  <1> USE DEF TypeOK
  <1>1. CASE Writers /\ UNCHANGED scanVars
    <2>1. TableTypeOK'
      BY <1>1, WritersTypeOK
    <2>2. QED
      BY <1>1, <2>1 DEF scanVars
  <1>2. CASE TimePasses
    <2>1. TableTypeOK'
      BY <1>2, TableAssumption DEF TimePasses, Tick, TableTypeOK
    <2>2. QED
      BY <1>2, <2>1 DEF TimePasses, scanVars
  <1>3. CASE LoadTable
    BY <1>3 DEF LoadTable, tableVars, TableTypeOK
  <1>4. CASE ReadMetadata
    BY <1>4 DEF ReadMetadata, SnapshotsToWalk, tableVars, TableTypeOK, TableMetadata
  <1>5. ASSUME NEW s \in Snaps, WalkList(s)
        PROVE  TypeOK'
    BY <1>5, ObjectNames DEF WalkList, tableVars, TableTypeOK, Reference
  <1>6. ASSUME NEW m \in Snaps, WalkManifest(m)
        PROVE  TypeOK'
    BY <1>6, ObjectNames DEF WalkManifest, tableVars, TableTypeOK, Reference
  <1>7. CASE BeginList
    <2>1. MetadataObj(locked.version) \in Objects
      BY ObjectNames DEF TableMetadata
    <2>2. QED
      BY <1>7, <2>1 DEF BeginList, tableVars, TableTypeOK, Reference
  <1>8. ASSUME NEW o \in Objects, Visit(o)
        PROVE  TypeOK'
    BY <1>8 DEF Visit, tableVars, TableTypeOK
  <1>9. CASE EndList
    BY <1>9 DEF EndList, tableVars, TableTypeOK
  <1>10. CASE ScanError
    <2>1. TableTypeOK'
      BY <1>10 DEF ScanError, tableVars, TableTypeOK
    <2>2. 0 \in 0..MaxClock
      BY TableAssumption
    <2>3. active' \in SUBSET Reference(Objects)' /\ scannedAt' \in 0..MaxClock
      BY <1>10, <2>2 DEF ScanError
    <2>4. QED
      BY <1>10, <2>1, <2>3 DEF ScanError
  <1>11. CASE UNCHANGED vars
    BY <1>11 DEF vars, tableVars, scanVars, TableTypeOK
  <1>12. QED
    BY <1>1, <1>2, <1>3, <1>4, <1>5, <1>6, <1>7, <1>8, <1>9, <1>10, <1>11
       DEF Next, Scanner

LEMMA InitTypeOK == Init => TypeOK
  BY ObjectNames, TableAssumption
     DEF Init, TableInit, ScanInit, TypeOK, TableTypeOK, TableMetadata, NoSnap

(* Every variable of the scan and of the table keeps its type.             *)
THEOREM TypeCorrect == Spec => []TypeOK
  BY InitTypeOK, NextTypeOK, PTL DEF Spec

-----------------------------------------------------------------------------
(* The manifests and the data files of the current snapshot are live.      *)
LEMMA CurrentIsLive ==
    ASSUME Written
    PROVE  /\ \A m \in CurrentManifests : ManifestObj(m) \in Live
           /\ \A f \in Named(CurrentManifests) : DataObj(f) \in Live
  BY DEF Written, CurrentManifests, Live, Reach, ManifestsOf, Named, NoSnap

LEMMA InitIInv == Init => IInv
  <1> SUFFICES ASSUME Init
               PROVE  IInv
    OBVIOUS
  <1> USE DEF Init, TableInit, ScanInit
  <1>1. TypeOK
    BY InitTypeOK
  <1>2. FreshIds
    BY DEF FreshIds, NoCommit, NoSnap, Snaps, Objects, ManifestObj, ListObj, MetadataObj
  <1>3. Written
    <2>1. MetadataObj(0) \in Objects
      BY TableAssumption, ObjectNames
    <2>2. \A v \in 0..MaxVersion : v > 0 => mtime[MetadataObj(v)] = 0
      BY ObjectNames DEF MetadataObj
    <2>3. QED
      BY <2>1, <2>2, TableAssumption DEF Written, NoSnap
  <1>4. CommitAddsOwnFiles
    BY DEF CommitAddsOwnFiles, NoCommit
  <1>5. /\ LateIsYoung /\ WalkCovers /\ WalkStaysInside /\ SnapshotLocked
        /\ CutoffInTime /\ CountedIsOld
    BY DEF LateIsYoung, WalkCovers, CutoffInTime, CountedIsOld, Walking,
        WalkStaysInside, SnapshotLocked
  <1>6. QED
    BY <1>1, <1>2, <1>3, <1>4, <1>5 DEF IInv

-----------------------------------------------------------------------------
(* The scanner's own steps.  They leave the table alone, so only the       *)
(* conjuncts about the scan are at stake.                                  *)
LEMMA ScannerIInv == IInv /\ Scanner => IInv'
  <1> SUFFICES ASSUME IInv, Scanner
               PROVE  IInv'
    OBVIOUS
  <1> USE DEF IInv
  <1>1. TypeOK'
    BY NextTypeOK DEF Next
  <1>2. UNCHANGED tableVars
    BY DEF Scanner, LoadTable, ReadMetadata, WalkList, WalkManifest, BeginList, Visit,
           EndList, ScanError
  <1>3. Written' /\ CommitAddsOwnFiles' /\ Live' = Live
    BY <1>2 DEF Written, CommitAddsOwnFiles, tableVars, Live, Reach, ManifestsOf, Named
  <1>14. UNCHANGED locked =>
           /\ ManifestsOf(locked.snaps)' = ManifestsOf(locked.snaps)
           /\ Reach(locked.snaps)' = Reach(locked.snaps)
    BY <1>2 DEF tableVars, Reach, ManifestsOf, Named
  <1>4. CASE LoadTable
    <2>1. FreshIds'
      BY <1>2, <1>4 DEF LoadTable, FreshIds, tableVars
    <2>2. LateIsYoung'
      BY <1>2, <1>4 DEF LoadTable, LateIsYoung, tableVars, Live, Reach, ManifestsOf, Named,
                        TypeOK, TableTypeOK
    <2>3. WalkCovers' /\ WalkStaysInside' /\ SnapshotLocked' /\ CutoffInTime' /\ CountedIsOld'
      BY <1>2, <1>4, ScanAssumption
         DEF LoadTable, WalkCovers, WalkStaysInside, SnapshotLocked, CutoffInTime, CountedIsOld, Walking, TypeOK, TableTypeOK,
             tableVars
    <2>4. QED
      BY <1>1, <1>3, <2>1, <2>2, <2>3
  <1>5. ASSUME UNCHANGED <<locked, loadedAt>>, (phase' = "idle") = (phase = "idle")
        PROVE  FreshIds' /\ LateIsYoung'
    BY <1>2, <1>3, <1>5 DEF FreshIds, LateIsYoung, tableVars, Reach, ManifestsOf, Named
  <1>6. CASE ReadMetadata
    <2>1. FreshIds' /\ LateIsYoung'
      BY <1>5, <1>6 DEF ReadMetadata
    <2>2. WalkCovers' /\ WalkStaysInside' /\ SnapshotLocked' /\ CutoffInTime' /\ CountedIsOld'
      BY <1>2, <1>6 DEF ReadMetadata, SnapshotsToWalk, WalkCovers, WalkStaysInside, SnapshotLocked, CutoffInTime, CountedIsOld, Walking,
                        tableVars
    <2>3. QED
      BY <1>1, <1>3, <2>1, <2>2
  <1>7. ASSUME NEW s \in Snaps, WalkList(s)
        PROVE  IInv'
    <2>1. FreshIds' /\ LateIsYoung'
      BY <1>5, <1>7 DEF WalkList
    <2>2. WalkCovers'
      BY <1>2, <1>7 DEF WalkList, WalkCovers, tableVars
    <2>3. SnapshotLocked' /\ CutoffInTime' /\ CountedIsOld'
      BY <1>2, <1>7 DEF WalkList, SnapshotLocked, CutoffInTime, CountedIsOld, Walking, tableVars
    <2>4. WalkStaysInside'
      <3>1. s \in locked.snaps
        BY <1>7 DEF WalkList, WalkCovers
      <3>2. /\ Ref(ListObj(s)) \in Reference(Reach(locked.snaps))
            /\ lists[s] \subseteq ManifestsOf(locked.snaps)
        BY <3>1, LocatedObjects DEF Reference, ManifestsOf
      <3>3. QED
        BY <1>2, <1>7, <1>14, <3>2 DEF WalkList, WalkStaysInside
    <2>5. QED
      BY <1>1, <1>3, <2>1, <2>2, <2>3, <2>4
  <1>8. ASSUME NEW m \in Snaps, WalkManifest(m)
        PROVE  IInv'
    <2>1. FreshIds' /\ LateIsYoung'
      BY <1>5, <1>8 DEF WalkManifest
    <2>2. WalkCovers'
      BY <1>2, <1>8 DEF WalkManifest, WalkCovers, tableVars
    <2>3. SnapshotLocked' /\ CutoffInTime' /\ CountedIsOld'
      BY <1>2, <1>8 DEF WalkManifest, SnapshotLocked, CutoffInTime, CountedIsOld, Walking, tableVars
    <2>4. WalkStaysInside'
      <3>1. m \in ManifestsOf(locked.snaps)
        BY <1>8 DEF WalkManifest, WalkStaysInside
      <3>2. PICK s \in locked.snaps : m \in lists[s]
        BY <3>1 DEF ManifestsOf
      <3>3. /\ Ref(ManifestObj(m)) \in Reference(Reach(locked.snaps))
            /\ \A f \in entries[m] : Ref(DataObj(f)) \in Reference(Reach(locked.snaps))
        BY <3>2, LocatedObjects DEF Reference
      <3>4. QED
        BY <1>2, <1>8, <1>14, <3>3 DEF WalkManifest, WalkStaysInside
    <2>5. QED
      BY <1>1, <1>3, <2>1, <2>2, <2>3, <2>4
  <1>9. CASE BeginList
    <2>1. FreshIds' /\ LateIsYoung'
      BY <1>5, <1>9 DEF BeginList
    <2>2. Reference(Reach(locked.snaps)) = active
      BY <1>9 DEF BeginList, WalkCovers, WalkStaysInside, Reference, Reach, ManifestsOf, Named
    <2>3. SnapshotLocked'
      BY <1>2, <1>9, <1>14, <2>2 DEF BeginList, SnapshotLocked, Reference
    <2>4. WalkCovers' /\ WalkStaysInside' /\ CutoffInTime' /\ CountedIsOld'
      BY <1>2, <1>9 DEF BeginList, WalkCovers, WalkStaysInside, CutoffInTime, Walking,
                        CountedIsOld, tableVars
    <2>5. QED
      BY <1>1, <1>3, <2>1, <2>3, <2>4
  <1>10. ASSUME UNCHANGED <<locked, loadedAt, active, scannedAt>>,
                phase \in {"list", "done"} \/ phase' \notin {"list", "done"},
                phase' \notin {"idle", "loaded", "walk"}
         PROVE  WalkCovers' /\ WalkStaysInside' /\ SnapshotLocked' /\ CutoffInTime'
    BY <1>10, <1>14 DEF WalkCovers, WalkStaysInside, SnapshotLocked, CutoffInTime, Walking,
                        Reference
  <1>11. ASSUME NEW o \in Objects, Visit(o)
         PROVE  IInv'
    <2>1. /\ FreshIds' /\ LateIsYoung' /\ WalkCovers' /\ WalkStaysInside'
          /\ SnapshotLocked' /\ CutoffInTime'
      BY <1>5, <1>10, <1>11 DEF Visit
    <2>2. CountedIsOld'
      <3>1. mtime[o] # 0
        BY <1>11 DEF Visit, Written
      <3>2. Orphaned(o) => Listed(o) \notin active /\ (o \notin Timeless => mtime[o] <= scannedAt - Grace)
        <4>1. mtime[o] \in Int /\ scannedAt \in Int /\ Grace \in Int
          BY ScanAssumption DEF TypeOK, TableTypeOK, Grace
        <4>2. QED
          BY <3>1, <4>1 DEF Orphaned, Recent, UpdatedAt
      <3>3. QED
        BY <1>2, <1>11, <3>1, <3>2 DEF Visit, CountedIsOld, tableVars, Listed
    <2>3. QED
      BY <1>1, <1>3, <2>1, <2>2
  <1>12. CASE EndList
    <2>1. /\ FreshIds' /\ LateIsYoung' /\ WalkCovers' /\ WalkStaysInside'
          /\ SnapshotLocked' /\ CutoffInTime'
      BY <1>5, <1>10, <1>12 DEF EndList
    <2>2. CountedIsOld'
      BY <1>2, <1>12 DEF EndList, CountedIsOld, tableVars, Listed
    <2>3. QED
      BY <1>1, <1>3, <2>1, <2>2
  <1>13. CASE ScanError
    <2>1. /\ FreshIds' /\ LateIsYoung' /\ WalkCovers' /\ WalkStaysInside'
          /\ SnapshotLocked' /\ CutoffInTime'
      BY <1>5, <1>13, <1>14
         DEF ScanError, WalkCovers, WalkStaysInside, SnapshotLocked, CutoffInTime, Walking
    <2>2. CountedIsOld'
      BY <1>13 DEF ScanError, CountedIsOld
    <2>3. QED
      BY <1>1, <1>3, <2>1, <2>2
  <1>15. QED
    BY <1>4, <1>6, <1>7, <1>8, <1>9, <1>11, <1>12, <1>13 DEF Scanner

-----------------------------------------------------------------------------
(* Steps of the environment.  Writing never makes an object younger than   *)
(* it was, so conjuncts that only compare modification times survive.      *)
LEMMA ScanKept ==
    ASSUME IInv, UNCHANGED scanVars, UNCHANGED <<lists, entries>>,
           \A o \in Objects : mtime[o] # 0 => mtime'[o] = mtime[o],
           clock' = clock
    PROVE  WalkCovers' /\ WalkStaysInside' /\ SnapshotLocked' /\ CutoffInTime' /\ CountedIsOld'
  <1> USE DEF scanVars
  <1>1. WalkCovers'
    BY DEF IInv, WalkCovers
  <1>2. WalkStaysInside' /\ SnapshotLocked' /\ CutoffInTime'
    BY DEF IInv, WalkStaysInside, SnapshotLocked, CutoffInTime, Walking, Reference, Reach,
           ManifestsOf, Named
  <1>3. CountedIsOld'
    BY DEF IInv, TypeOK, CountedIsOld, Listed
  <1>4. QED
    BY <1>1, <1>2, <1>3

LEMMA WriteDataIInv ==
    ASSUME IInv, UNCHANGED scanVars, NEW f \in DataFiles, WriteData(f), TypeOK'
    PROVE  IInv'
  <1> USE DEF IInv
  <1>1. /\ DataObj(f) \in Objects
        /\ mtime \in [Objects -> 0..MaxClock]
        /\ clock \in 1..MaxClock
    BY ObjectNames DEF TypeOK, TableTypeOK
  <1>2. /\ \A o \in Objects : mtime[o] # 0 => mtime'[o] = mtime[o]
        /\ \A o \in Objects : mtime'[o] >= mtime[o] /\ mtime'[o] <= clock
        /\ \A o \in Objects : o # DataObj(f) => mtime'[o] = mtime[o]
        /\ mtime'[DataObj(f)] = clock
    BY <1>1, TableAssumption DEF WriteData, Written
  <1>3. FreshIds'
    BY <1>2, ObjectNames DEF WriteData, FreshIds, scanVars, DataObj, ListObj, ManifestObj
  <1>4. Written'
    <2>1. \A v \in 0..MaxVersion : mtime'[MetadataObj(v)] = mtime[MetadataObj(v)]
      BY <1>2, ObjectNames DEF MetadataObj, DataObj
    <2>2. QED
      BY <1>1, <1>2, <2>1 DEF WriteData, Written, TypeOK, TableTypeOK
  <1>5. CommitAddsOwnFiles'
    BY DEF WriteData, CommitAddsOwnFiles, Live, Reach, ManifestsOf, Named
  <1>6. LateIsYoung'
    <2>1. Live' = Live /\ Reach(locked.snaps)' = Reach(locked.snaps)
      BY DEF WriteData, Live, Reach, ManifestsOf, Named, scanVars
    <2>2. Live \in SUBSET Objects
      BY ReachObjects DEF TypeOK, TableTypeOK, Live, TableMetadata
    <2>3. QED
      BY <1>1, <1>2, <2>1, <2>2, TableAssumption
         DEF WriteData, LateIsYoung, scanVars, TypeOK, TableTypeOK
  <1>7. WalkCovers' /\ WalkStaysInside' /\ SnapshotLocked' /\ CutoffInTime' /\ CountedIsOld'
    BY <1>2, ScanKept DEF WriteData
  <1>8. QED
    BY <1>3, <1>4, <1>5, <1>6, <1>7

LEMMA PrepareIInv ==
    ASSUME IInv, UNCHANGED scanVars, TypeOK',
           NEW s \in Snaps, NEW add \in SUBSET inflight,
           NEW drop \in SUBSET Alive(CurrentManifests),
           NEW carry \in SUBSET CurrentManifests,
           Prepare(s, add, drop, carry)
    PROVE  IInv'
  <1> USE DEF IInv
  <1>1. /\ ListObj(s) \in Objects /\ ManifestObj(s) \in Objects
        /\ mtime \in [Objects -> 0..MaxClock]
        /\ clock \in 1..MaxClock
        /\ lists \in [Snaps -> SUBSET Snaps]
        /\ entries \in [Snaps -> SUBSET DataFiles]
        /\ meta.snaps \in SUBSET Snaps /\ locked.snaps \in SUBSET Snaps
    BY ObjectNames DEF TypeOK, TableTypeOK, TableMetadata
  <1>2. /\ mtime[ListObj(s)] = 0 /\ mtime[ManifestObj(s)] = 0
        /\ s \notin meta.snaps \cup locked.snaps
        /\ \A r \in Snaps : s \notin lists[r]
    BY DEF Prepare, FreshIds
  <1>3. /\ \A o \in Objects : mtime[o] # 0 => mtime'[o] = mtime[o]
        /\ \A o \in Objects : mtime'[o] >= mtime[o] /\ mtime'[o] <= clock
        /\ \A o \in Objects : o \notin {ListObj(s), ManifestObj(s)} => mtime'[o] = mtime[o]
        /\ mtime'[ListObj(s)] = clock /\ mtime'[ManifestObj(s)] = clock
    BY <1>1, <1>2, TableAssumption DEF Prepare, Written, ListObj, ManifestObj
  <1>4. /\ \A r \in Snaps : r # s => lists'[r] = lists[r] /\ entries'[r] = entries[r]
        /\ lists'[s] = carry \cup {s}
        /\ entries'[s] = add \cup Alive(CurrentManifests \ carry)
    BY <1>1 DEF Prepare
  <1>5. CurrentManifests \in SUBSET Snaps /\ s \notin CurrentManifests
    BY <1>1, <1>2 DEF CurrentManifests, Written
  <1>6. FreshIds'
    <2>1. \A r \in Snaps : r # s => mtime'[ListObj(r)] = mtime[ListObj(r)]
                                      /\ mtime'[ManifestObj(r)] = mtime[ManifestObj(r)]
      BY <1>3, ObjectNames DEF ListObj, ManifestObj
    <2>2. \A r \in Snaps : mtime[ListObj(r)] = 0 => r \notin CurrentManifests
      BY DEF FreshIds, CurrentManifests, Written, NoSnap, TypeOK, TableTypeOK, TableMetadata
    <2>3. mtime'[ListObj(s)] # 0
      BY <1>1, <1>3
    <2>4. meta' = meta /\ locked' = locked /\ prep'.snap = s
      BY DEF Prepare, scanVars
    <2>5. ASSUME NEW r \in Snaps, mtime'[ListObj(r)] = 0
          PROVE  /\ mtime'[ManifestObj(r)] = 0
                 /\ r \notin meta.snaps \cup locked.snaps
                 /\ r # s
                 /\ \A q \in Snaps : r \notin lists'[q]
      BY <1>4, <2>1, <2>2, <2>3, <2>5 DEF FreshIds
    <2>6. QED
      BY <2>4, <2>5 DEF FreshIds
  <1>7. Written'
    <2>1. \A v \in 0..MaxVersion : mtime'[MetadataObj(v)] = mtime[MetadataObj(v)]
      BY <1>3, ObjectNames DEF MetadataObj, ListObj, ManifestObj
    <2>2. meta' = meta /\ clock' = clock /\ store' = store \cup {ListObj(s), ManifestObj(s)}
      BY DEF Prepare
    <2>3. \A o \in store' : mtime'[o] # 0
      <3>1. \A o \in store : mtime'[o] # 0
        BY <1>3 DEF Written, TypeOK, TableTypeOK
      <3>2. QED
        BY <1>1, <1>3, <2>2, <3>1
    <2>4. QED
      BY <1>3, <2>1, <2>2, <2>3 DEF Written
  <1>8. /\ Live' = Live /\ Reach(locked.snaps)' = Reach(locked.snaps)
        /\ ManifestsOf(locked.snaps)' = ManifestsOf(locked.snaps)
    <2>1. /\ ManifestsOf(meta.snaps)' = ManifestsOf(meta.snaps)
          /\ ManifestsOf(locked.snaps)' = ManifestsOf(locked.snaps)
      BY <1>1, <1>2, <1>4 DEF ManifestsOf, Prepare, scanVars
    <2>2. /\ s \notin ManifestsOf(meta.snaps) /\ ManifestsOf(meta.snaps) \in SUBSET Snaps
          /\ s \notin ManifestsOf(locked.snaps) /\ ManifestsOf(locked.snaps) \in SUBSET Snaps
      BY <1>1, <1>2 DEF ManifestsOf
    <2>3. /\ Named(ManifestsOf(meta.snaps))' = Named(ManifestsOf(meta.snaps))
          /\ Named(ManifestsOf(locked.snaps))' = Named(ManifestsOf(locked.snaps))
      BY <1>4, <2>1, <2>2 DEF Named
    <2>4. QED
      BY <2>1, <2>3 DEF Live, Reach, Prepare, scanVars
  <1>9. CommitAddsOwnFiles'
    <2>1. prep'.snap = s /\ prep'.base = meta.version /\ prep'.add = add
      BY DEF Prepare
    <2>2. \A m \in lists'[s] : m = s \/ ManifestObj(m) \in Live
      BY <1>4, CurrentIsLive
    <2>3. \A m \in lists'[s] : \A f \in entries'[m] : f \in add \/ DataObj(f) \in Live
      BY <1>4, <1>5, CurrentIsLive DEF Named, Alive
    <2>4. Reach({s})' \subseteq Live \cup {ListObj(s), ManifestObj(s)} \cup {DataObj(f) : f \in add}
      BY <2>2, <2>3 DEF Reach, ManifestsOf, Named
    <2>5. meta' = meta /\ meta.version \in Nat
      BY DEF Prepare, TypeOK, TableTypeOK, TableMetadata
    <2>6. Reach({prep.snap})' = Reach({s})'
      BY <2>1 DEF Reach, ManifestsOf, Named
    <2>7. Live' = Live
      BY <1>8
    <2>8. prep'.base <= meta'.version
      BY <2>1, <2>5
    <2>9. QED
      BY <2>1, <2>4, <2>6, <2>7, <2>8 DEF CommitAddsOwnFiles
  <1>10. LateIsYoung'
    <2>1. Live \in SUBSET Objects
      BY ReachObjects DEF TypeOK, TableTypeOK, Live, TableMetadata
    <2>2. QED
      BY <1>1, <1>3, <1>8, <2>1, TableAssumption
         DEF Prepare, LateIsYoung, scanVars, TypeOK, TableTypeOK
  <1>11. WalkCovers'
    BY <1>1, <1>2, <1>4 DEF WalkCovers, scanVars
  <1>12. WalkStaysInside' /\ SnapshotLocked' /\ CutoffInTime'
    BY <1>8 DEF WalkStaysInside, SnapshotLocked, CutoffInTime, Prepare, scanVars, Walking,
                Reference
  <1>13. CountedIsOld'
    BY <1>3 DEF CountedIsOld, scanVars, Listed, TypeOK
  <1>14. QED
    BY <1>6, <1>7, <1>9, <1>10, <1>11, <1>12, <1>13

(* Publishing writes one new metadata file and touches no other object.    *)
LEMMA PublishKeepsObjects ==
    ASSUME IInv, NEW current \in 0..MaxSnap, NEW snaps \in SUBSET Snaps, Publish(current, snaps)
    PROVE  /\ \A o \in Objects : mtime[o] # 0 => mtime'[o] = mtime[o]
           /\ \A o \in Objects : mtime'[o] >= mtime[o] /\ mtime'[o] <= clock
           /\ \A s \in Snaps : /\ mtime'[ListObj(s)] = mtime[ListObj(s)]
                               /\ mtime'[ManifestObj(s)] = mtime[ManifestObj(s)]
           /\ \A o \in store' : mtime'[o] # 0
           /\ \A v \in 0..MaxVersion : v > meta'.version => mtime'[MetadataObj(v)] = 0
           /\ meta'.version = meta.version + 1 /\ meta'.snaps = snaps /\ meta'.current = current
           /\ meta.version \in Nat
  <1> DEFINE v == meta.version + 1
  <1>1. /\ meta.version \in Nat /\ v \in 0..MaxVersion /\ MetadataObj(v) \in Objects
        /\ mtime[MetadataObj(v)] = 0
        /\ mtime \in [Objects -> 0..MaxClock]
        /\ clock \in 1..MaxClock
        /\ store \in SUBSET Objects
        /\ \A o \in store : mtime[o] # 0
        /\ \A o \in Objects : mtime[o] <= clock
    BY ObjectNames DEF IInv, TypeOK, TableTypeOK, TableMetadata, Publish, Written
  <1>2. /\ mtime' = [mtime EXCEPT ![MetadataObj(v)] = clock]
        /\ store' = store \cup {MetadataObj(v)}
        /\ meta' = [version |-> v, current |-> current, snaps |-> snaps]
    BY DEF Publish
  <1> HIDE DEF v
  <1>3. /\ \A o \in Objects : o # MetadataObj(v) => mtime'[o] = mtime[o]
        /\ mtime'[MetadataObj(v)] = clock
    BY <1>1, <1>2
  <1>4. \A s \in Snaps : /\ mtime'[ListObj(s)] = mtime[ListObj(s)]
                         /\ mtime'[ManifestObj(s)] = mtime[ManifestObj(s)]
    BY <1>3, ObjectNames DEF ListObj, ManifestObj, MetadataObj
  <1>5. \A w \in 0..MaxVersion : w > v => mtime'[MetadataObj(w)] = 0
    <2>1. \A w \in 0..MaxVersion : w > v => mtime[MetadataObj(w)] = 0
      BY <1>1 DEF IInv, Written, v
    <2>2. \A w \in 0..MaxVersion : w > v => MetadataObj(w) # MetadataObj(v)
      BY <1>1 DEF MetadataObj
    <2>3. QED
      BY <1>3, <2>1, <2>2, ObjectNames
  <1>6. \A o \in Objects : mtime'[o] >= mtime[o] /\ mtime'[o] <= clock
    BY <1>1, <1>3
  <1>7. \A o \in store' : mtime'[o] # 0
    BY <1>1, <1>2, <1>3
  <1>8. QED
    BY <1>1, <1>2, <1>3, <1>4, <1>5, <1>6, <1>7 DEF v

LEMMA CommitIInv ==
    ASSUME IInv, UNCHANGED scanVars, TypeOK', Commit
    PROVE  IInv'
  <1> USE DEF IInv
  <1>1. /\ prep.snap \in Snaps /\ prep.snap \in 0..MaxSnap /\ prep.add \in SUBSET DataFiles
        /\ meta.snaps \cup {prep.snap} \in SUBSET Snaps
    BY DEF Commit, TypeOK, TableTypeOK, PreparedCommit, TableMetadata, Snaps
  <1>2. /\ \A o \in Objects : mtime[o] # 0 => mtime'[o] = mtime[o]
        /\ \A o \in Objects : mtime'[o] >= mtime[o] /\ mtime'[o] <= clock
        /\ \A s \in Snaps : /\ mtime'[ListObj(s)] = mtime[ListObj(s)]
                            /\ mtime'[ManifestObj(s)] = mtime[ManifestObj(s)]
        /\ \A o \in store' : mtime'[o] # 0
        /\ \A v \in 0..MaxVersion : v > meta'.version => mtime'[MetadataObj(v)] = 0
        /\ meta'.version = meta.version + 1
        /\ meta'.snaps = meta.snaps \cup {prep.snap} /\ meta'.current = prep.snap
        /\ meta.version \in Nat
    BY <1>1, PublishKeepsObjects DEF Commit
  <1>3. FreshIds'
    <2>1. prep' = NoCommit /\ lists' = lists /\ locked' = locked
      BY DEF Commit, scanVars
    <2>2. \A s \in Snaps : s # NoCommit.snap
      BY DEF Snaps, NoCommit, NoSnap
    <2>3. QED
      BY <1>2, <2>1, <2>2 DEF FreshIds
  <1>4. Written'
    BY <1>2 DEF Commit, Written
  <1>5. CommitAddsOwnFiles'
    BY <1>2 DEF Commit, CommitAddsOwnFiles, NoCommit
  <1>6. LateIsYoung'
    <2>1. Live' = Live \cup Reach({prep.snap})
      <3>1. Live' = Reach(meta.snaps \cup {prep.snap})
        BY <1>2 DEF Commit, Live, Reach, ManifestsOf, Named
      <3>2. QED
        BY <3>1, ReachUnion DEF Live
    <2>2. Reach(locked.snaps)' = Reach(locked.snaps)
      BY DEF Commit, scanVars, Reach, ManifestsOf, Named
    <2>3. \A o \in Live' : \/ o \in Live
                           \/ o \in Objects /\ clock - mtime[o] <= MaxCommit
      BY <1>1, <2>1, ObjectNames DEF Commit, CommitAddsOwnFiles, Fresh
    <2>4. Live \in SUBSET Objects
      BY ReachObjects DEF TypeOK, TableTypeOK, Live, TableMetadata
    <2>5. /\ clock' = clock /\ phase' = phase /\ loadedAt' = loadedAt
          /\ clock \in Nat /\ loadedAt \in Nat
          /\ \A o \in Objects : mtime[o] \in Nat /\ mtime'[o] \in Nat
      BY DEF Commit, scanVars, TypeOK, TableTypeOK
    <2>6. ASSUME NEW o \in Live', phase # "idle"
          PROVE  o \in Reach(locked.snaps) \/ mtime'[o] + MaxCommit >= loadedAt
      <3>1. CASE o \in Live
        BY <3>1, <1>2, <2>4, <2>5, <2>6, TableAssumption DEF LateIsYoung
      <3>2. CASE o \in Objects /\ clock - mtime[o] <= MaxCommit
        BY <3>2, <1>2, <2>5, <2>6, TableAssumption DEF LateIsYoung
      <3>3. QED
        BY <2>3, <3>1, <3>2
    <2>7. QED
      BY <2>2, <2>5, <2>6 DEF LateIsYoung
  <1>7. WalkCovers' /\ WalkStaysInside' /\ SnapshotLocked' /\ CutoffInTime' /\ CountedIsOld'
    BY <1>2, ScanKept DEF Commit
  <1>8. QED
    BY <1>3, <1>4, <1>5, <1>6, <1>7

LEMMA ExpireIInv ==
    ASSUME IInv, UNCHANGED scanVars, TypeOK', NEW s \in Snaps, ExpireSnapshot(s)
    PROVE  IInv'
  <1> USE DEF IInv
  <1>1. meta.current \in 0..MaxSnap /\ meta.snaps \ {s} \in SUBSET Snaps
    BY DEF TypeOK, TableTypeOK, TableMetadata
  <1>2. /\ \A o \in Objects : mtime[o] # 0 => mtime'[o] = mtime[o]
        /\ \A o \in Objects : mtime'[o] >= mtime[o] /\ mtime'[o] <= clock
        /\ \A r \in Snaps : /\ mtime'[ListObj(r)] = mtime[ListObj(r)]
                            /\ mtime'[ManifestObj(r)] = mtime[ManifestObj(r)]
        /\ \A o \in store' : mtime'[o] # 0
        /\ \A v \in 0..MaxVersion : v > meta'.version => mtime'[MetadataObj(v)] = 0
        /\ meta'.version = meta.version + 1
        /\ meta'.snaps = meta.snaps \ {s} /\ meta'.current = meta.current
        /\ meta.version \in Nat
    BY <1>1, PublishKeepsObjects DEF ExpireSnapshot
  <1>3. FreshIds'
    BY <1>2 DEF ExpireSnapshot, FreshIds, scanVars
  <1>4. Written'
    BY <1>2 DEF ExpireSnapshot, Written
  <1>5. CommitAddsOwnFiles'
    <2>1. prep' = prep /\ prep.base <= meta.version
      BY DEF ExpireSnapshot, CommitAddsOwnFiles
    <2>2. prep.base \in Int
      BY DEF TypeOK, TableTypeOK, PreparedCommit, NoCommit
    <2>3. prep'.base <= meta'.version /\ prep'.base # meta'.version
      BY <1>2, <2>1, <2>2
    <2>4. QED
      BY <2>3 DEF CommitAddsOwnFiles
  <1>6. LateIsYoung'
    <2>1. Live' \subseteq Live
      <3>1. Live' = Reach(meta.snaps \ {s})
        BY <1>2 DEF ExpireSnapshot, Live, Reach, ManifestsOf, Named
      <3>2. QED
        BY <3>1, ReachMonotone DEF Live
    <2>2. Reach(locked.snaps)' = Reach(locked.snaps)
      BY DEF ExpireSnapshot, scanVars, Reach, ManifestsOf, Named
    <2>3. Live \in SUBSET Objects
      BY ReachObjects DEF TypeOK, TableTypeOK, Live, TableMetadata
    <2>4. /\ clock' = clock /\ phase' = phase /\ loadedAt' = loadedAt
          /\ loadedAt \in Nat
          /\ \A o \in Objects : mtime[o] \in Nat /\ mtime'[o] \in Nat
      BY DEF ExpireSnapshot, scanVars, TypeOK, TableTypeOK
    <2>5. QED
      BY <1>2, <2>1, <2>2, <2>3, <2>4, TableAssumption DEF LateIsYoung
  <1>7. WalkCovers' /\ WalkStaysInside' /\ SnapshotLocked' /\ CutoffInTime' /\ CountedIsOld'
    BY <1>2, ScanKept DEF ExpireSnapshot
  <1>8. QED
    BY <1>3, <1>4, <1>5, <1>6, <1>7

(* Steps that only drop the attempt, delete garbage or pass the time.      *)
LEMMA QuietIInv ==
    ASSUME IInv, UNCHANGED scanVars, TypeOK', UNCHANGED <<mtime, meta, lists, entries>>,
           store' \subseteq store, clock' >= clock, prep' \in {prep, NoCommit},
           Walking => clock' <= loadedAt + MaxWalk
    PROVE  IInv'
  <1> USE DEF IInv, scanVars
  <1>1. FreshIds'
    BY DEF FreshIds, NoCommit, NoSnap, Snaps
  <1>2. clock \in Int /\ clock' \in Int /\ loadedAt \in Int /\ \A o \in Objects : mtime[o] \in Int
    BY DEF TypeOK, TableTypeOK
  <1>3. Written'
    BY <1>2 DEF Written
  <1>4. Live' = Live /\ Reach(locked.snaps)' = Reach(locked.snaps)
    BY DEF Live, Reach, ManifestsOf, Named
  <1>5. CommitAddsOwnFiles'
    <2>1. CASE prep' = prep
      BY <2>1, <1>4 DEF CommitAddsOwnFiles, Reach, ManifestsOf, Named
    <2>2. CASE prep' = NoCommit
      BY <2>2 DEF CommitAddsOwnFiles, NoCommit, TypeOK, TableTypeOK, TableMetadata
    <2>3. QED
      BY <2>1, <2>2
  <1>6. LateIsYoung'
    BY <1>2, <1>4 DEF LateIsYoung
  <1>7. WalkCovers'
    BY DEF WalkCovers
  <1>8. WalkStaysInside' /\ SnapshotLocked' /\ CutoffInTime'
    BY <1>4 DEF WalkStaysInside, SnapshotLocked, CutoffInTime, Walking, Reference, ManifestsOf
  <1>9. CountedIsOld'
    BY DEF CountedIsOld, Listed
  <1>10. QED
    BY <1>1, <1>3, <1>5, <1>6, <1>7, <1>8, <1>9

LEMMA NextIInv == IInv /\ [Next]_vars => IInv'
  <1> SUFFICES ASSUME IInv, [Next]_vars
               PROVE  IInv'
    OBVIOUS
  <1>1. TypeOK'
    BY NextTypeOK DEF IInv
  <1>2. /\ clock \in Int
        /\ Walking => clock <= loadedAt + MaxWalk
    BY DEF IInv, TypeOK, TableTypeOK, CutoffInTime
  <1>3. CASE Writers /\ UNCHANGED scanVars
    <2>1. CASE AbandonCommit
      BY <1>1, <1>2, <1>3, <2>1, QuietIInv DEF AbandonCommit
    <2>2. ASSUME NEW o \in garbage, DeleteFile(o)
          PROVE  IInv'
      BY <1>1, <1>2, <1>3, <2>2, QuietIInv DEF DeleteFile
    <2>3. QED
      BY <1>1, <1>3, <2>1, <2>2, WriteDataIInv, PrepareIInv, CommitIInv, ExpireIInv DEF Writers
  <1>4. CASE TimePasses
    <2>1. /\ UNCHANGED scanVars /\ UNCHANGED <<mtime, meta, lists, entries>>
          /\ store' = store /\ prep' = prep /\ clock' = clock + 1
          /\ Walking => clock < loadedAt + MaxWalk
      BY <1>4 DEF TimePasses, Tick
    <2>2. loadedAt + MaxWalk \in Int
      BY ScanAssumption DEF IInv, TypeOK
    <2>3. clock' >= clock /\ (Walking => clock' <= loadedAt + MaxWalk)
      BY <1>2, <2>1, <2>2
    <2>4. QED
      BY <1>1, <2>1, <2>3, QuietIInv
  <1>5. CASE Scanner
    BY <1>5, ScannerIInv
  <1>6. CASE UNCHANGED vars
    BY <1>1, <1>2, <1>6, QuietIInv DEF vars, tableVars
  <1>7. QED
    BY <1>3, <1>4, <1>5, <1>6 DEF Next

(* Spec keeps the inductive invariant.                                     *)
THEOREM Inductive == Spec => []IInv
  BY InitIInv, NextIInv, PTL DEF Spec

(* The active set of a finished walk is what the locked metadata           *)
(* references, for any number of concurrent commits and expiries.          *)
THEOREM WalkIsSnapshotLocked == Spec => []SnapshotLocked
  <1>1. IInv => SnapshotLocked
    BY DEF IInv
  <1>2. QED
    BY <1>1, Inductive, PTL

(* The conditions under which the report can be trusted: the walk and the  *)
(* longest job fit together in the grace period, and List spells URIs as   *)
(* the metadata does.                                                      *)
WindowsFitGrace == MaxWalk + MaxCommit < Grace
SpellingsAgree == Normalize(RefSpelling) = Normalize(ListSpelling)

(* Under those conditions no object with a modification time that the scan *)
(* reports is ever needed by the table, however writers, expiry and time   *)
(* interleave with the scan.                                               *)
THEOREM LiveFilesAreSafe ==
    ASSUME WindowsFitGrace, SpellingsAgree
    PROVE  Spec => []LiveNeverFlagged
  <1>1. IInv => LiveNeverFlagged
    <2> SUFFICES ASSUME IInv, NEW o \in counted, o \in Live, o \notin Timeless
                 PROVE  FALSE
      BY DEF LiveNeverFlagged
    <2>1. /\ Listed(o) \notin active
          /\ mtime[o] <= scannedAt - Grace
          /\ phase \in {"list", "done"}
      BY DEF IInv, CountedIsOld
    <2>2. scannedAt <= loadedAt + MaxWalk
      BY <2>1 DEF IInv, CutoffInTime
    <2>3. Listed(o) = Ref(o)
      BY SpellingsAgree DEF SpellingsAgree, Listed, Ref
    <2>4. o \notin Reach(locked.snaps)
      BY <2>1, <2>3 DEF IInv, SnapshotLocked, Reference
    <2>5. mtime[o] + MaxCommit >= loadedAt
      BY <2>1, <2>4 DEF IInv, LateIsYoung
    <2>6. /\ mtime[o] \in Int /\ scannedAt \in Int /\ loadedAt \in Int
          /\ Grace \in Int /\ MaxWalk \in Int /\ MaxCommit \in Int
      BY ScanAssumption, TableAssumption DEF IInv, TypeOK, TableTypeOK, Grace
    <2>7. QED
      BY <2>1, <2>2, <2>5, <2>6, WindowsFitGrace DEF WindowsFitGrace
  <1>2. QED
    BY <1>1, Inductive, PTL


-----------------------------------------------------------------------------
(* Nothing is missed.                                                      *)

(* What was shown to the callback is counted if it is an orphan, and the   *)
(* listing has shown what was there from its beginning to its end: an      *)
(* object is written once, so none that was deleted comes back.            *)
Collectable(o) == o.kind = "data" /\ ~IsMetadataPath(o)
Aged(o) == o \in Timeless \/ mtime[o] <= scannedAt - Grace
Listing == phase \in {"list", "done"}

OrphansCounted ==
    /\ Listing =>
         \A o \in visited :
            /\ mtime[o] # 0
            /\ Collectable(o) /\ Listed(o) \notin active /\ Aged(o) => o \in counted
    /\ Listing => \A o \in due : mtime[o] # 0
    /\ phase = "done" => \A o \in due \cap store : Collectable(o) => o \in visited

(* The list of candidates is full or complete.                             *)
PreviewKept ==
    /\ ~Listing => visited = {} /\ candidates = {}
    /\ IsFiniteSet(candidates)
    /\ candidates \subseteq counted /\ counted \subseteq visited
    /\ candidates # counted => PreviewN # 0 /\ Cardinality(candidates) = PreviewLimit
    /\ PreviewN # 0 => Cardinality(candidates) <= PreviewLimit

ListingInv == IInv /\ OrphansCounted /\ PreviewKept


(* The other actors write no data file and no manifest again.              *)
LEMMA NothingRewritten ==
    ASSUME TableTypeOK, FreshIds, Writers, NEW o \in Objects, mtime[o] # 0
    PROVE  /\ mtime'[o] # 0
           /\ Collectable(o) => mtime'[o] = mtime[o] /\ (o \in store' => o \in store)
  <1>a. mtime \in [Objects -> 0..MaxClock] /\ clock \in 1..MaxClock
    BY DEF TableTypeOK
  <1>1. ASSUME NEW f \in DataFiles, WriteData(f)
        PROVE  mtime'[o] = mtime[o] /\ (o \in store' => o \in store)
    BY <1>a, <1>1, ObjectNames DEF WriteData
  <1>2. ASSUME NEW s \in Snaps, NEW add \in SUBSET inflight,
               NEW drop \in SUBSET Alive(CurrentManifests),
               NEW carry \in SUBSET CurrentManifests,
               Prepare(s, add, drop, carry)
        PROVE  mtime'[o] = mtime[o] /\ (o \in store' => o \in store)
    <2>1. /\ mtime' = [mtime EXCEPT ![ListObj(s)] = clock, ![ManifestObj(s)] = clock]
          /\ store' = store \cup {ListObj(s), ManifestObj(s)}
          /\ mtime[ListObj(s)] = 0
      BY <1>2 DEF Prepare
    <2>2. mtime[ManifestObj(s)] = 0
      BY <2>1 DEF FreshIds
    <2>3. o # ListObj(s) /\ o # ManifestObj(s)
      BY <2>1, <2>2
    <2>4. QED
      BY <1>a, <2>1, <2>3
  <1>3. ASSUME NEW current, NEW snaps, Publish(current, snaps)
        PROVE  /\ mtime'[o] # 0
               /\ Collectable(o) => mtime'[o] = mtime[o] /\ (o \in store' => o \in store)
    <2> DEFINE m == MetadataObj(meta.version + 1)
    <2>1. mtime' = [mtime EXCEPT ![m] = clock] /\ store' = store \cup {m}
      BY <1>3 DEF Publish
    <2>2. ~Collectable(m)
      BY DEF Collectable, MetadataObj
    <2> HIDE DEF m
    <2>3. QED
      BY <1>a, <2>1, <2>2
  <1>4. CASE Commit
    BY <1>3, <1>4 DEF Commit
  <1>5. CASE AbandonCommit
    BY <1>5 DEF AbandonCommit
  <1>6. ASSUME NEW s \in Snaps, ExpireSnapshot(s)
        PROVE  /\ mtime'[o] # 0
               /\ Collectable(o) => mtime'[o] = mtime[o] /\ (o \in store' => o \in store)
    BY <1>3, <1>6 DEF ExpireSnapshot
  <1>7. ASSUME NEW d \in garbage, DeleteFile(d)
        PROVE  mtime'[o] = mtime[o] /\ (o \in store' => o \in store)
    BY <1>7 DEF DeleteFile
  <1>8. QED
    BY <1>1, <1>2, <1>4, <1>5, <1>6, <1>7 DEF Writers

LEMMA InitListing == Init => OrphansCounted /\ PreviewKept
  <1>1. IsFiniteSet({}) /\ Cardinality({}) = 0
    BY FS_EmptySet
  <1>2. QED
    BY <1>1, ScanAssumption
       DEF Init, ScanInit, OrphansCounted, PreviewKept, Listing, PreviewLimit

(* Visit, the callback: the object is counted if it is an orphan, and      *)
(* listed while there is room.                                             *)
LEMMA VisitListing ==
    ASSUME ListingInv, NEW o \in Objects, Visit(o)
    PROVE  OrphansCounted' /\ PreviewKept'
  <1>a. TypeOK /\ Written /\ OrphansCounted /\ PreviewKept
    BY DEF ListingInv, IInv
  <1>b. /\ phase = "list" /\ phase' = "list" /\ o \in store /\ o \notin visited
        /\ visited' = visited \cup {o}
        /\ counted' = IF Orphaned(o) THEN counted \cup {o} ELSE counted
        /\ candidates' = IF Orphaned(o) /\ Room THEN candidates \cup {o} ELSE candidates
        /\ UNCHANGED <<tableVars, active, scannedAt, due>>
    BY DEF Visit
  <1>c. mtime \in [Objects -> 0..MaxClock] /\ scannedAt \in 0..MaxClock /\ Grace \in Int
    BY <1>a, ScanAssumption DEF TypeOK, TableTypeOK, Grace
  <1>1. Collectable(o) /\ Listed(o) \notin active /\ Aged(o) => Orphaned(o)
    <2>1. mtime[o] \in 0..MaxClock
      BY <1>c
    <2>2. QED
      BY <1>c, <2>1, TableAssumption
         DEF Collectable, Aged, Orphaned, Recent, UpdatedAt
  <1>2. OrphansCounted'
    <2>1. UNCHANGED mtime /\ mtime[o] # 0 /\ Listing
      BY <1>a, <1>b DEF tableVars, Written, Listing
    <2>2. \A p : Listed(p)' = Listed(p)
      BY DEF Listed
    <2>3. \A p : Aged(p)' = Aged(p) /\ Collectable(p)' = Collectable(p)
      BY <1>b, <2>1 DEF Aged, Grace, Collectable, IsMetadataPath
    <2>4. QED
      BY <1>a, <1>b, <1>1, <2>1, <2>2, <2>3 DEF OrphansCounted, Listing
  <1>3. PreviewKept'
    <2>1. IsFiniteSet(candidates) /\ Cardinality(candidates) \in Nat
      BY <1>a, FS_CardinalityType DEF PreviewKept
    <2>2. o \notin candidates /\ o \notin counted
      BY <1>a, <1>b DEF PreviewKept
    <2>3. /\ IsFiniteSet(candidates \cup {o})
          /\ Cardinality(candidates \cup {o}) = Cardinality(candidates) + 1
      BY <2>1, <2>2, FS_AddElement
    <2>4. PreviewN \in Int
      BY ScanAssumption
    <2>5. CASE Orphaned(o) /\ Room
      <3>1. candidates = counted
        BY <1>a, <2>1, <2>4, <2>5 DEF PreviewKept, Room, PreviewLimit
      <3>2. candidates' = counted' /\ candidates' = candidates \cup {o}
        BY <1>b, <2>5, <3>1
      <3>3. PreviewN # 0 => Cardinality(candidates') <= PreviewLimit
        BY <2>1, <2>3, <2>4, <2>5, <3>2 DEF Room, PreviewLimit
      <3>4. counted' \subseteq visited'
        BY <1>a, <1>b DEF PreviewKept
      <3>5. QED
        BY <1>b, <2>3, <3>2, <3>3, <3>4 DEF PreviewKept, Listing, PreviewLimit
    <2>6. CASE Orphaned(o) /\ ~Room
      <3>1. candidates' = candidates /\ counted' = counted \cup {o}
        BY <1>b, <2>6
      <3>2. PreviewN # 0 /\ Cardinality(candidates) = PreviewLimit
        BY <1>a, <2>1, <2>4, <2>6 DEF PreviewKept, Room, PreviewLimit
      <3>3. PreviewLimit <= PreviewLimit /\ UNCHANGED PreviewLimit
        BY <2>4 DEF PreviewLimit
      <3>4. QED
        BY <1>a, <1>b, <2>1, <3>1, <3>2, <3>3 DEF PreviewKept, Listing
    <2>7. CASE ~Orphaned(o)
      BY <1>a, <1>b, <2>7 DEF PreviewKept, Listing, PreviewLimit
    <2>8. QED
      BY <2>5, <2>6, <2>7
  <1>4. QED
    BY <1>2, <1>3

LEMMA NextListing ==
    ASSUME ListingInv, [Next]_vars
    PROVE  OrphansCounted' /\ PreviewKept'
  <1>a. TypeOK /\ Written /\ FreshIds /\ OrphansCounted /\ PreviewKept
    BY DEF ListingInv, IInv
  <1>b. visited \in SUBSET Objects /\ due \in SUBSET Objects /\ TableTypeOK
    BY <1>a DEF TypeOK
  <1>c. UNCHANGED <<Grace, PreviewLimit>> /\ \A p : Listed(p)' = Listed(p)
    BY DEF Grace, PreviewLimit, Listed
  <1>d. /\ \A p : Collectable(p)' = Collectable(p)
        /\ UNCHANGED <<mtime, scannedAt>> => \A p : Aged(p)' = Aged(p)
    BY DEF Collectable, IsMetadataPath, Aged, Grace
  <1>1. ASSUME UNCHANGED scanVars,
               \A o \in Objects : mtime[o] # 0 =>
                  /\ mtime'[o] # 0
                  /\ Collectable(o) => mtime'[o] = mtime[o] /\ (o \in store' => o \in store)
        PROVE  OrphansCounted' /\ PreviewKept'
    <2>0. UNCHANGED <<phase, active, scannedAt, due, visited, counted, candidates>>
      BY <1>1 DEF scanVars
    <2>1. PreviewKept'
      BY <1>a, <1>c, <2>0 DEF PreviewKept, Listing
    <2>2. ASSUME Listing, NEW o \in visited
          PROVE  /\ mtime'[o] # 0
                 /\ Collectable(o) /\ Listed(o) \notin active /\ Aged(o)' => o \in counted
      <3>1. mtime[o] # 0 /\ o \in Objects
        BY <1>a, <1>b, <2>2 DEF OrphansCounted
      <3>2. Collectable(o) /\ Aged(o)' => Aged(o)
        BY <1>1, <1>c, <2>0, <3>1 DEF Aged
      <3>3. QED
        BY <1>1, <1>a, <2>2, <3>1, <3>2 DEF OrphansCounted
    <2>3. ASSUME Listing, NEW o \in due
          PROVE  /\ mtime'[o] # 0
                 /\ phase = "done" /\ o \in store' /\ Collectable(o) => o \in visited
      BY <1>1, <1>a, <1>b, <2>3 DEF OrphansCounted
    <2>4. QED
      BY <1>c, <1>d, <2>0, <2>1, <2>2, <2>3 DEF OrphansCounted, Listing
  <1>2. CASE Writers /\ UNCHANGED scanVars
    BY <1>1, <1>2, <1>a, <1>b, NothingRewritten
  <1>3. CASE TimePasses
    BY <1>1, <1>3 DEF TimePasses, Tick
  <1>4. CASE UNCHANGED vars
    BY <1>1, <1>4 DEF vars, tableVars
  <1>5. ASSUME ~Listing, ~Listing', UNCHANGED <<visited, candidates, counted>>
        PROVE  OrphansCounted' /\ PreviewKept'
    BY <1>a, <1>c, <1>5 DEF OrphansCounted, PreviewKept, Listing
  <1>6. CASE LoadTable \/ ReadMetadata
    BY <1>5, <1>6 DEF LoadTable, ReadMetadata, Listing
  <1>7. CASE (\E s \in Snaps : WalkList(s)) \/ (\E m \in Snaps : WalkManifest(m))
    BY <1>5, <1>7 DEF WalkList, WalkManifest, Listing
  <1>8. CASE BeginList
    <2>1. /\ phase' = "list" /\ visited' = {} /\ candidates' = {}
          /\ due' = store \cap Prefix /\ UNCHANGED <<tableVars, counted>>
      BY <1>8, <1>a DEF BeginList, PreviewKept, Listing
    <2>2. \A o \in due' : mtime'[o] # 0
      BY <1>a, <2>1 DEF Written, tableVars
    <2>3. QED
      BY <1>a, <1>c, <1>8, <2>1, <2>2 DEF BeginList, OrphansCounted, PreviewKept, Listing
  <1>9. ASSUME NEW o \in Objects, Visit(o)
        PROVE  OrphansCounted' /\ PreviewKept'
    BY <1>9, VisitListing
  <1>10. CASE EndList
    BY <1>a, <1>c, <1>d, <1>10 DEF EndList, tableVars, OrphansCounted, PreviewKept, Listing
  <1>11. CASE ScanError
    <2>1. /\ phase' = "failed" /\ visited' = {} /\ counted' = {} /\ candidates' = {}
      BY <1>11 DEF ScanError
    <2>2. IsFiniteSet({}) /\ Cardinality({}) = 0
      BY FS_EmptySet
    <2>3. PreviewN # 0 => 0 <= PreviewLimit'
      BY ScanAssumption DEF PreviewLimit
    <2>4. QED
      BY <2>1, <2>2, <2>3 DEF OrphansCounted, PreviewKept, Listing
  <1>12. QED
    BY <1>2, <1>3, <1>4, <1>6, <1>7, <1>8, <1>9, <1>10, <1>11 DEF Next, Scanner

(* A finished scan counted every old data file outside the table that was  *)
(* under the prefix all the while, whatever was written, committed,        *)
(* expired and deleted during the listing, and its list of candidates is   *)
(* complete or as long as --preview allows, for every number given.        *)
THEOREM FinishedScanIsComplete == Spec => []NoOrphanMissed
  <1>1. Init => ListingInv
    BY InitIInv, InitListing DEF ListingInv
  <1>2. ListingInv /\ [Next]_vars => ListingInv'
    BY NextIInv, NextListing DEF ListingInv
  <1>3. ListingInv => NoOrphanMissed
    <2> SUFFICES ASSUME ListingInv, phase = "done"
                 PROVE  NoOrphanMissed
      BY DEF NoOrphanMissed
    <2>1. ASSUME NEW o \in due \cap store, o \notin Reach(locked.snaps),
                 Aged(o), Collectable(o)
          PROVE  o \in counted
      <3>1. o \in visited
        BY <2>1 DEF ListingInv, OrphansCounted
      <3>2. active = Reference(Reach(locked.snaps) \cup {MetadataObj(locked.version)})
        BY DEF ListingInv, IInv, SnapshotLocked
      <3>3. o # MetadataObj(locked.version)
        BY <2>1 DEF MetadataObj, Collectable
      <3>4. Listed(o) \notin active
        BY <2>1, <3>2, <3>3 DEF Reference, Ref, Listed
      <3>5. QED
        BY <2>1, <3>1, <3>4 DEF ListingInv, OrphansCounted, Listing
    <2>2. QED
      BY <2>1 DEF ListingInv, PreviewKept, NoOrphanMissed, Aged, Collectable
  <1>4. QED
    BY <1>1, <1>2, <1>3, PTL DEF Spec


-----------------------------------------------------------------------------
(* The Bloom filter in front of the active set.                            *)

(* The array is not empty and a probe never leaves it.                     *)
LEMMA SlotInRange ==
    ASSUME NEW x \in Key
    PROVE  Slots(x) \subseteq 0..mBits-1
  <1>1. mBits \in Nat \ {0}
    BY BloomAssumption DEF mBits, RoundUp
  <1>2. k \in 1..30
    BY BloomAssumption DEF k
  <1>3. \A i \in 0..k-1 : Slot(x, i) \in 0..mBits-1
    <2> SUFFICES ASSUME NEW i \in 0..k-1
                 PROVE  Slot(x, i) \in 0..mBits-1
      OBVIOUS
    <2>1. h1[x] \in Nat /\ h2[x] \in Nat /\ i \in Nat /\ Word \in Nat \ {0}
      BY <1>2, BloomAssumption
    <2> DEFINE p == i * h2[x]
    <2>2. p \in Nat
      BY <2>1
    <2> HIDE DEF p
    <2>3. (h1[x] + p) % Word \in Nat
      BY <2>1, <2>2
    <2>4. ((h1[x] + p) % Word) % mBits \in 0..mBits-1
      BY <1>1, <2>3
    <2>5. QED
      BY <2>4 DEF Slot, p
  <1>4. QED
    BY <1>3 DEF Slots

(* Every variable of the filter keeps its type.                            *)
THEOREM FilterTypeCorrect == BloomSpec => []BloomTypeOK
  <1>1. BloomInit => BloomTypeOK
    BY BloomAssumption DEF BloomInit, BloomTypeOK
  <1>2. BloomTypeOK /\ [BloomNext]_bloomVars => BloomTypeOK'
    <2> SUFFICES ASSUME BloomTypeOK, [BloomNext]_bloomVars
                 PROVE  BloomTypeOK'
      OBVIOUS
    <2>1. ASSUME NEW x \in Key, Add(x)
          PROVE  BloomTypeOK'
      <3>1. bits' \in SUBSET (0..mBits-1)
        BY <2>1, SlotInRange DEF Add, BloomTypeOK
      <3>2. count' \in 0..MaxAdds
        BY <2>1, BloomAssumption DEF Add, BloomTypeOK
      <3>3. QED
        BY <2>1, <3>1, <3>2 DEF Add, BloomTypeOK
    <2>2. ASSUME NEW x \in Key, Test(x)
          PROVE  BloomTypeOK'
      BY <2>2 DEF Test, BloomTypeOK
    <2>3. CASE UNCHANGED bloomVars
      BY <2>3 DEF bloomVars, BloomTypeOK
    <2>4. QED
      BY <2>1, <2>2, <2>3 DEF BloomNext
  <1>3. QED
    BY <1>1, <1>2, PTL DEF BloomSpec

(* A key that was added is always found.                                   *)
THEOREM AddedIsFound == BloomSpec => []NoFalseNegatives
  <1>1. BloomInit => NoFalseNegatives
    BY DEF BloomInit, NoFalseNegatives
  <1>2. NoFalseNegatives /\ [BloomNext]_bloomVars => NoFalseNegatives'
    BY DEF NoFalseNegatives, BloomNext, Add, Test, Slots, Slot, bloomVars
  <1>3. QED
    BY <1>1, <1>2, PTL DEF BloomSpec

(* The filter implements the approximate set: every step is a step of it   *)
(* or changes neither the members nor the answer.                          *)
THEOREM Implements == BloomSpec => IsApproxSet
  <1>1. BloomInit => Approx!Init
    BY DEF BloomInit, Approx!Init, Approx!NoAnswer
  <1>2. NoFalseNegatives /\ [BloomNext]_bloomVars => [Approx!Next]_<<added, answer>>
    <2> SUFFICES ASSUME NoFalseNegatives, [BloomNext]_bloomVars
                 PROVE  [Approx!Next]_<<added, answer>>
      OBVIOUS
    <2>1. ASSUME NEW x \in Key, Add(x)
          PROVE  Approx!Next
      BY <2>1 DEF Add, Approx!Next, Approx!Add
    <2>2. ASSUME NEW x \in Key, Test(x)
          PROVE  Approx!Next
      <3>1. Approx!Test(x)
        <4> DEFINE found == Slots(x) \subseteq bits
        <4>1. found \in BOOLEAN /\ (x \in added => found)
          BY DEF NoFalseNegatives
        <4>2. answer' = [key |-> x, found |-> found] /\ added' = added
          BY <2>2 DEF Test
        <4>3. QED
          BY <4>1, <4>2 DEF Approx!Test
      <3>2. QED
        BY <3>1 DEF Approx!Next
    <2>3. CASE UNCHANGED bloomVars
      BY <2>3 DEF bloomVars
    <2>4. QED
      BY <2>1, <2>2, <2>3 DEF BloomNext
  <1>3. QED
    BY <1>1, <1>2, AddedIsFound, PTL DEF BloomSpec, IsApproxSet, Approx!Spec
=============================================================================
