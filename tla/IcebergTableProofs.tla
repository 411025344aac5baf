------------------------- MODULE IcebergTableProofs -------------------------
(***************************************************************************)
(* What writers keep true of a table, for every number of files, snapshots *)
(* and versions.  The proofs about the readers of the table rest on it.    *)
(***************************************************************************)
EXTENDS IcebergTable, TLAPS

(* Names of objects are objects.                                           *)
LEMMA ObjectNames ==
    /\ \A f \in DataFiles : DataObj(f) \in Objects
    /\ \A s \in Snaps : ManifestObj(s) \in Objects /\ ListObj(s) \in Objects
    /\ \A v \in 0..MaxVersion : MetadataObj(v) \in Objects
  BY DEF Objects

(* What snapshots lead to are objects.                                     *)
LEMMA ReachObjects ==
    ASSUME TableTypeOK, NEW S \in SUBSET Snaps
    PROVE  Reach(S) \in SUBSET Objects
  <1>1. ManifestsOf(S) \in SUBSET Snaps
    BY DEF ManifestsOf, TableTypeOK
  <1>2. Named(ManifestsOf(S)) \in SUBSET DataFiles
    BY <1>1 DEF Named, TableTypeOK
  <1>3. QED
    BY <1>1, <1>2, ObjectNames DEF Reach

(* Publishing keeps the types of what it changes.                          *)
LEMMA PublishTypes ==
    ASSUME TableTypeOK, NEW current \in 0..MaxSnap, NEW snaps \in SUBSET Snaps,
           Publish(current, snaps)
    PROVE  /\ meta' \in TableMetadata
           /\ store' \in SUBSET Objects
           /\ mtime' \in [Objects -> 0..MaxClock]
  <1> USE TableAssumption DEF TableTypeOK
  <1>1. meta.version + 1 \in 0..MaxVersion
    BY DEF Publish, TableMetadata
  <1>2. MetadataObj(meta.version + 1) \in Objects
    BY <1>1, ObjectNames
  <1>3. QED
    BY <1>1, <1>2 DEF Publish, TableMetadata

(* A writer's step keeps the types of the table.                           *)
LEMMA WritersTypeOK == TableTypeOK /\ Writers => TableTypeOK'
  <1> SUFFICES ASSUME TableTypeOK, Writers
               PROVE  TableTypeOK'
    OBVIOUS
  <1> USE TableAssumption DEF TableTypeOK
  <1>1. ASSUME NEW f \in DataFiles, WriteData(f)
        PROVE  TableTypeOK'
    BY <1>1, ObjectNames DEF WriteData
  <1>2. ASSUME NEW s \in Snaps, NEW add \in SUBSET inflight,
               NEW drop \in SUBSET Alive(CurrentManifests),
               NEW carry \in SUBSET CurrentManifests,
               Prepare(s, add, drop, carry)
        PROVE  TableTypeOK'
    <2>1. CurrentManifests \in SUBSET Snaps
      BY DEF CurrentManifests, TableMetadata, NoSnap, Snaps
    <2>2. Alive(CurrentManifests \ carry) \in SUBSET DataFiles /\ drop \in SUBSET DataFiles
      BY <2>1 DEF Alive
    <2>3. /\ lists' \in [Snaps -> SUBSET Snaps]
          /\ entries' \in [Snaps -> SUBSET DataFiles]
          /\ removed' \in [Snaps -> SUBSET DataFiles]
      BY <1>2, <2>1, <2>2 DEF Prepare
    <2>4. prep' \in PreparedCommit
      BY <1>2 DEF Prepare, TableMetadata, PreparedCommit
    <2>5. mtime' \in [Objects -> 0..MaxClock] /\ store' \in SUBSET Objects
      BY <1>2, ObjectNames DEF Prepare
    <2>6. UNCHANGED <<clock, meta, inflight, garbage>>
      BY <1>2 DEF Prepare
    <2>7. QED
      BY <2>3, <2>4, <2>5, <2>6
  <1>4. CASE Commit
    <2>1. prep.snap \in Snaps
      BY <1>4 DEF Commit, PreparedCommit
    <2>2. /\ meta.snaps \cup {prep.snap} \in SUBSET Snaps
          /\ prep.snap \in 0..MaxSnap
      BY <2>1 DEF TableMetadata, Snaps
    <2>3. Publish(prep.snap, meta.snaps \cup {prep.snap})
      BY <1>4 DEF Commit
    <2>4. QED
      BY <1>4, PublishTypes, <2>2, <2>3 DEF Commit
  <1>5. CASE AbandonCommit
    BY <1>5 DEF AbandonCommit
  <1>6. ASSUME NEW s \in Snaps, ExpireSnapshot(s)
        PROVE  TableTypeOK'
    <2>1. meta.current \in 0..MaxSnap /\ meta.snaps \ {s} \in SUBSET Snaps
      BY DEF TableMetadata
    <2>2. Publish(meta.current, meta.snaps \ {s})
      BY <1>6 DEF ExpireSnapshot
    <2>3. Needed({s}) \in SUBSET Objects
      BY ReachObjects DEF Needed
    <2>4. garbage' \in SUBSET Objects
      BY <1>6, <2>3 DEF ExpireSnapshot
    <2>5. QED
      BY <1>6, PublishTypes, <2>1, <2>2, <2>4 DEF ExpireSnapshot
  <1>7. ASSUME NEW o \in garbage, DeleteFile(o)
        PROVE  TableTypeOK'
    BY <1>7 DEF DeleteFile
  <1>8. QED
    BY <1>1, <1>2, <1>4, <1>5, <1>6, <1>7 DEF Writers

-----------------------------------------------------------------------------
(* Reach, object by object.                                                *)
LEMMA ReachUnion ==
    ASSUME NEW S, NEW T
    PROVE  Reach(S \cup T) = Reach(S) \cup Reach(T)
  BY DEF Reach, ManifestsOf, Named

LEMMA ReachMonotone ==
    ASSUME NEW S, NEW T, S \subseteq T
    PROVE  Reach(S) \subseteq Reach(T)
  BY DEF Reach, ManifestsOf, Named

LEMMA LocatedObjects ==
    ASSUME NEW S
    PROVE  /\ \A s \in S : ListObj(s) \in Reach(S)
           /\ \A s \in S : \A m \in lists[s] :
                /\ ManifestObj(m) \in Reach(S)
                /\ \A f \in entries[m] : DataObj(f) \in Reach(S)
  BY DEF Reach, ManifestsOf, Named

(* What a commit attempts to publish can be reached from the new snapshot  *)
(* only through its own manifest and the manifests it carries over.        *)
LEMMA ReachSingle ==
    ASSUME NEW s
    PROVE  Reach({s}) = {ListObj(s)} \cup {ManifestObj(m) : m \in lists[s]}
                          \cup {DataObj(f) : f \in Named(lists[s])}
  BY DEF Reach, ManifestsOf

-----------------------------------------------------------------------------
(* Needed, object by object.                                               *)
LEMMA NeededObjects ==
    ASSUME TableTypeOK, NEW S \in SUBSET Snaps
    PROVE  Needed(S) = {ListObj(s) : s \in S}
                         \cup {ManifestObj(m) : m \in ManifestsOf(S)}
                         \cup {DataObj(f) : f \in Alive(ManifestsOf(S))}
  <1>1. ManifestsOf(S) \in SUBSET Snaps
    BY DEF ManifestsOf, TableTypeOK
  <1>2. /\ Alive(ManifestsOf(S)) \subseteq Named(ManifestsOf(S))
        /\ Named(ManifestsOf(S)) \subseteq DataFiles
    BY <1>1 DEF Alive, Named, TableTypeOK
  <1>3. \A f, g : DataObj(f) = DataObj(g) => f = g
    BY DEF DataObj
  <1>4. \A f, s : DataObj(f) # ManifestObj(s) /\ DataObj(f) # ListObj(s)
    BY DEF DataObj, ManifestObj, ListObj
  <1>5. \A f \in DataFiles \ Alive(ManifestsOf(S)) :
           \A g \in Alive(ManifestsOf(S)) : DataObj(f) # DataObj(g)
    BY <1>3
  <1>6. QED
    BY <1>2, <1>4, <1>5 DEF Needed, Reach

(* Fewer snapshots need fewer objects.                                     *)
LEMMA NeededMonotone ==
    ASSUME TableTypeOK, NEW S \in SUBSET Snaps, NEW T \in SUBSET S
    PROVE  Needed(T) \subseteq Needed(S)
  <1>1. T \in SUBSET Snaps
    OBVIOUS
  <1>2. ManifestsOf(T) \subseteq ManifestsOf(S)
    BY DEF ManifestsOf
  <1>3. Alive(ManifestsOf(T)) \subseteq Alive(ManifestsOf(S))
    BY <1>2 DEF Alive
  <1>4. Needed(T) = {ListObj(s) : s \in T}
                      \cup {ManifestObj(m) : m \in ManifestsOf(T)}
                      \cup {DataObj(f) : f \in Alive(ManifestsOf(T))}
    BY <1>1, NeededObjects
  <1>5. Needed(S) = {ListObj(s) : s \in S}
                      \cup {ManifestObj(m) : m \in ManifestsOf(S)}
                      \cup {DataObj(f) : f \in Alive(ManifestsOf(S))}
    BY NeededObjects
  <1>6. QED
    BY <1>2, <1>3, <1>4, <1>5

(* Names of objects tell them apart.                                       *)
LEMMA DistinctNames ==
    /\ \A s, r : ListObj(s) = ListObj(r) => s = r
    /\ \A s, r : ManifestObj(s) = ManifestObj(r) => s = r
    /\ \A f, g : DataObj(f) = DataObj(g) => f = g
    /\ \A v, w : MetadataObj(v) = MetadataObj(w) => v = w
    /\ \A x, y : /\ ListObj(x) # ManifestObj(y) /\ ListObj(x) # DataObj(y)
                  /\ ListObj(x) # MetadataObj(y) /\ ManifestObj(x) # DataObj(y)
                  /\ ManifestObj(x) # MetadataObj(y) /\ DataObj(x) # MetadataObj(y)
  BY DEF ListObj, ManifestObj, DataObj, MetadataObj

LEMMA TypesOfTable ==
    ASSUME TableTypeOK
    PROVE  /\ meta.snaps \in SUBSET Snaps
           /\ meta.version \in Nat /\ meta.version <= MaxVersion
           /\ meta.current \in 0..MaxSnap
           /\ CurrentManifests \in SUBSET Snaps
           /\ \A M \in SUBSET Snaps : /\ Named(M) \in SUBSET DataFiles
                                       /\ Alive(M) \subseteq Named(M)
           /\ \A S \in SUBSET Snaps : ManifestsOf(S) \in SUBSET Snaps
  BY TableAssumption
     DEF TableTypeOK, TableMetadata, CurrentManifests, Named, Alive, ManifestsOf, NoSnap, Snaps

LEMMA InitTableInv == TableInit => TableInv
  <1> SUFFICES ASSUME TableInit
               PROVE  TableInv
    OBVIOUS
  <1> USE DEF TableInit
  <1>1. TableTypeOK
    BY ObjectNames, TableAssumption DEF TableTypeOK, TableMetadata, NoSnap
  <1>2. IdsAreFresh
    <2>1. \A s \in Snaps : mtime[ManifestObj(s)] = 0
      BY ObjectNames, DistinctNames
    <2>2. meta.snaps = {} /\ meta.current = 0 /\ prep.snap = 0
      BY DEF NoCommit, NoSnap
    <2>3. \A s \in Snaps : s # 0
      BY TableAssumption DEF Snaps
    <2>4. \A s, r \in Snaps : s \notin lists[r]
      OBVIOUS
    <2>5. QED
      BY <2>1, <2>2, <2>3, <2>4 DEF IdsAreFresh, NoSnap
  <1>3. FilesAreFresh
    BY ObjectNames, TableAssumption DEF FilesAreFresh
  <1>4. NeededIsStored
    <2>1. Needed(meta.snaps) = {}
      BY DEF Needed, Reach, ManifestsOf, Named
    <2>2. \A v \in 0..meta.version : v = 0
      OBVIOUS
    <2>3. QED
      BY <2>1, <2>2 DEF NeededIsStored
  <1>5. CommitBringsItsOwn
    BY DEF CommitBringsItsOwn, NoCommit
  <1>6. ManifestsAreDisjoint
    BY DEF ManifestsAreDisjoint
  <1>7. QED
    BY <1>1, <1>2, <1>3, <1>4, <1>5, <1>6 DEF TableInv

-----------------------------------------------------------------------------
(* Each kind of step keeps the invariant.                                  *)
LEMMA WriteDataInv ==
    ASSUME TableInv, TableTypeOK', NEW f \in DataFiles, WriteData(f)
    PROVE  TableInv'
  <1> USE DEF TableInv
  <1>1. /\ mtime \in [Objects -> 0..MaxClock] /\ clock \in 1..MaxClock
        /\ DataObj(f) \in Objects /\ mtime[DataObj(f)] = 0
        /\ mtime' = [mtime EXCEPT ![DataObj(f)] = clock]
        /\ store' = store \cup {DataObj(f)} /\ inflight' = inflight \cup {f}
        /\ UNCHANGED <<clock, meta, lists, entries, removed, prep, garbage>>
    BY ObjectNames DEF WriteData, TableTypeOK
  <1>2. /\ \A o \in Objects : o # DataObj(f) => mtime'[o] = mtime[o]
        /\ mtime'[DataObj(f)] # 0
        /\ \A o \in Objects : mtime[o] # 0 => mtime'[o] # 0
    BY <1>1
  <1>3. \A s \in Snaps : /\ mtime'[ListObj(s)] = mtime[ListObj(s)]
                         /\ mtime'[ManifestObj(s)] = mtime[ManifestObj(s)]
    BY <1>2, ObjectNames, DistinctNames
  <1>4. IdsAreFresh'
    BY <1>1, <1>3 DEF IdsAreFresh
  <1>5. FilesAreFresh'
    <2>1. store \cup garbage \subseteq Objects
      BY DEF TableTypeOK
    <2>2. \A o \in store' \cup garbage' : mtime'[o] # 0
      BY <1>1, <1>2, <2>1 DEF FilesAreFresh
    <2>3. \A m \in Snaps : \A g \in entries'[m] : mtime'[DataObj(g)] # 0
      BY <1>1, <1>2, ObjectNames DEF FilesAreFresh, TableTypeOK
    <2>4. f \notin Named(ManifestsOf(meta.snaps)) /\ DataObj(f) \notin garbage
      <3>1. \A m \in Snaps : f \notin entries[m]
        BY <1>1 DEF FilesAreFresh
      <3>2. ManifestsOf(meta.snaps) \in SUBSET Snaps
        BY TypesOfTable
      <3>3. QED
        BY <1>1, <3>1, <3>2 DEF FilesAreFresh, Named
    <2>5. Named(ManifestsOf(meta.snaps))' = Named(ManifestsOf(meta.snaps))
      BY <1>1 DEF Named, ManifestsOf
    <2>6. QED
      BY <1>1, <2>2, <2>3, <2>4, <2>5 DEF FilesAreFresh
  <1>6. NeededIsStored'
    <2>1. Needed(meta.snaps)' = Needed(meta.snaps)
      BY <1>1 DEF Needed, Reach, Named, ManifestsOf, Alive
    <2>2. QED
      BY <1>1, <2>1 DEF NeededIsStored
  <1>7. CommitBringsItsOwn'
    BY <1>1 DEF CommitBringsItsOwn, CurrentManifests, Named, Alive
  <1>8. ManifestsAreDisjoint'
    BY <1>1 DEF ManifestsAreDisjoint
  <1>9. QED
    BY <1>4, <1>5, <1>6, <1>7, <1>8

(* The current snapshot is one of those retained.                          *)
LEMMA CurrentIsRetained ==
    ASSUME TableInv
    PROVE  /\ CurrentManifests \subseteq ManifestsOf(meta.snaps)
           /\ \A m, n \in CurrentManifests :
                m # n => (entries[m] \ removed[m]) \cap (entries[n] \ removed[n]) = {}
           /\ \A f \in inflight : f \notin Named(CurrentManifests)
           /\ \A s \in Snaps : mtime[ListObj(s)] = 0 =>
                /\ s \notin CurrentManifests /\ s \notin ManifestsOf(meta.snaps)
                /\ ListObj(s) \notin garbage /\ ManifestObj(s) \notin garbage
  <1> USE DEF TableInv
  <1>1. CASE meta.current = NoSnap
    BY <1>1, TypesOfTable DEF CurrentManifests, Named, IdsAreFresh, ManifestsOf, FilesAreFresh
  <1>2. CASE meta.current # NoSnap
    <2>1. meta.current \in meta.snaps /\ meta.snaps \in SUBSET Snaps
      BY <1>2, TypesOfTable DEF IdsAreFresh
    <2>2. CurrentManifests = lists[meta.current]
      BY <1>2 DEF CurrentManifests
    <2>3. CurrentManifests \subseteq ManifestsOf(meta.snaps)
      BY <2>1, <2>2 DEF ManifestsOf
    <2>4. \A f \in inflight : f \notin Named(CurrentManifests)
      BY <2>3 DEF Named, FilesAreFresh
    <2>5. \A m, n \in CurrentManifests :
            m # n => (entries[m] \ removed[m]) \cap (entries[n] \ removed[n]) = {}
      BY <2>1, <2>2 DEF ManifestsAreDisjoint
    <2>6. \A s \in Snaps : mtime[ListObj(s)] = 0 => s \notin ManifestsOf(meta.snaps)
      BY <2>1 DEF IdsAreFresh, ManifestsOf
    <2>7. \A s \in Snaps : mtime[ListObj(s)] = 0 =>
            ListObj(s) \notin garbage /\ ManifestObj(s) \notin garbage
      BY DEF IdsAreFresh, FilesAreFresh
    <2>8. QED
      BY <2>3, <2>4, <2>5, <2>6, <2>7
  <1>3. QED
    BY <1>1, <1>2

LEMMA PrepareInv ==
    ASSUME TableInv, TableTypeOK', NEW s \in Snaps, NEW add \in SUBSET inflight,
           NEW drop \in SUBSET Alive(CurrentManifests),
           NEW carry \in SUBSET CurrentManifests,
           Prepare(s, add, drop, carry)
    PROVE  TableInv'
  <1> DEFINE rewritten == Alive(CurrentManifests \ carry)
  <1>a. TableTypeOK /\ IdsAreFresh /\ FilesAreFresh /\ NeededIsStored
          /\ CommitBringsItsOwn /\ ManifestsAreDisjoint
    BY DEF TableInv
  <1>b. /\ CurrentManifests \subseteq Snaps /\ rewritten \subseteq DataFiles
        /\ rewritten \subseteq Alive(CurrentManifests)
        /\ meta.snaps \subseteq Snaps /\ ManifestsOf(meta.snaps) \subseteq Snaps
    BY <1>a, TypesOfTable DEF Alive
  <1>1. /\ mtime[ListObj(s)] = 0 /\ mtime[ManifestObj(s)] = 0
        /\ s \notin meta.snaps /\ s \notin CurrentManifests
        /\ s \notin ManifestsOf(meta.snaps)
        /\ ListObj(s) \notin garbage /\ ManifestObj(s) \notin garbage
        /\ \A r \in Snaps : s \notin lists[r]
    BY <1>a, CurrentIsRetained DEF Prepare, IdsAreFresh
  <1>2. /\ mtime' = [mtime EXCEPT ![ListObj(s)] = clock, ![ManifestObj(s)] = clock]
        /\ store' = store \cup {ListObj(s), ManifestObj(s)}
        /\ lists'[s] = carry \cup {s}
        /\ entries'[s] = add \cup rewritten
        /\ removed'[s] = drop
        /\ \A r \in Snaps : r # s => /\ lists'[r] = lists[r] /\ entries'[r] = entries[r]
                                     /\ removed'[r] = removed[r]
        /\ prep' = [snap |-> s, base |-> meta.version, add |-> add]
        /\ UNCHANGED <<clock, meta, inflight, garbage>>
    BY <1>a DEF Prepare, TableTypeOK
  <1>3. /\ \A o \in Objects : mtime[o] # 0 => mtime'[o] # 0
        /\ mtime'[ListObj(s)] # 0 /\ mtime'[ManifestObj(s)] # 0
        /\ \A r \in Snaps : r # s => /\ mtime'[ListObj(r)] = mtime[ListObj(r)]
                                     /\ mtime'[ManifestObj(r)] = mtime[ManifestObj(r)]
    <2>1. clock # 0 /\ mtime \in [Objects -> 0..MaxClock]
      BY <1>a DEF TableTypeOK
    <2>2. \A o \in Objects :
            mtime'[o] = IF o \in {ListObj(s), ManifestObj(s)} THEN clock ELSE mtime[o]
      BY <1>2, <2>1
    <2>3. QED
      BY <2>1, <2>2, ObjectNames, DistinctNames
  <1>4. /\ ManifestsOf(meta.snaps)' = ManifestsOf(meta.snaps)
        /\ CurrentManifests' = CurrentManifests
    <2>1. \A r \in meta.snaps : lists'[r] = lists[r]
      BY <1>b, <1>1, <1>2
    <2>2. CurrentManifests' = CurrentManifests
      BY <1>a, <1>2, <2>1 DEF CurrentManifests, IdsAreFresh
    <2>3. QED
      BY <1>2, <2>1, <2>2 DEF ManifestsOf
  <1>5. ASSUME NEW M \in SUBSET Snaps, s \notin M
        PROVE  /\ UNION {entries'[m] : m \in M} = Named(M)
               /\ UNION {entries'[m] \ removed'[m] : m \in M} = Alive(M)
    BY <1>2, <1>5 DEF Named, Alive
  <1>6. /\ Named(ManifestsOf(meta.snaps))' = Named(ManifestsOf(meta.snaps))
        /\ Alive(ManifestsOf(meta.snaps))' = Alive(ManifestsOf(meta.snaps))
        /\ Named(CurrentManifests)' = Named(CurrentManifests)
        /\ Alive(CurrentManifests)' = Alive(CurrentManifests)
    BY <1>b, <1>1, <1>4, <1>5 DEF Named, Alive
  <1>7. IdsAreFresh'
    <2>1. ASSUME NEW r \in Snaps, mtime'[ListObj(r)] = 0
          PROVE  /\ mtime'[ManifestObj(r)] = 0
                 /\ r \notin meta'.snaps /\ r # prep'.snap
                 /\ \A q \in Snaps : r \notin lists'[q]
      <3>1. r # s /\ mtime[ListObj(r)] = 0
        BY <1>3, <2>1
      <3>2. r \notin CurrentManifests
        BY <1>a, <3>1, CurrentIsRetained DEF TableInv
      <3>3. r \notin lists'[s]
        BY <1>2, <3>1, <3>2
      <3>4. QED
        BY <1>a, <1>2, <1>3, <3>1, <3>3 DEF IdsAreFresh
    <2>2. QED
      BY <1>a, <1>1, <1>2, <2>1 DEF IdsAreFresh
  <1>8. FilesAreFresh'
    <2>1. \A o \in store' \cup garbage' : mtime'[o] # 0
      <3>1. store \cup garbage \subseteq Objects
        BY <1>a DEF TableTypeOK
      <3>2. QED
        BY <1>a, <1>2, <1>3, <3>1 DEF FilesAreFresh
    <2>2. ASSUME NEW m \in Snaps, NEW f \in entries'[m]
          PROVE  mtime'[DataObj(f)] # 0
      <3>1. CASE m # s
        BY <1>a, <1>2, <1>3, <3>1, ObjectNames DEF FilesAreFresh, TableTypeOK
      <3>2. CASE m = s /\ f \in add
        BY <1>a, <1>3, <3>2, ObjectNames DEF FilesAreFresh, TableTypeOK
      <3>3. CASE m = s /\ f \in rewritten
        <4>1. PICK r \in CurrentManifests : f \in entries[r]
          BY <3>3 DEF Alive
        <4>2. QED
          BY <1>a, <1>b, <1>3, <4>1, ObjectNames DEF FilesAreFresh, TableTypeOK
      <3>4. QED
        BY <1>2, <3>1, <3>2, <3>3
    <2>3. QED
      BY <1>a, <1>2, <1>6, <2>1, <2>2 DEF FilesAreFresh
  <1>9. NeededIsStored'
    <2>1. Needed(meta.snaps)' = Needed(meta.snaps)
      BY <1>2, <1>4, <1>6 DEF Needed, Reach
    <2>2. QED
      BY <1>a, <1>2, <2>1 DEF NeededIsStored
  <1>10. CommitBringsItsOwn'
    <2>1. /\ Named(lists[s])' \subseteq Named(carry) \cup add \cup rewritten
          /\ Alive(lists[s])' \subseteq Alive(carry) \cup add \cup rewritten
      <3>1. carry \subseteq Snaps /\ s \notin carry
        BY <1>b, <1>1
      <3>2. \A m \in carry : entries'[m] = entries[m] /\ removed'[m] = removed[m]
        BY <1>2, <3>1
      <3>3. QED
        BY <1>2, <3>2 DEF Named, Alive
    <2>2. /\ Named(carry) \subseteq Named(CurrentManifests)
          /\ Alive(carry) \subseteq Alive(CurrentManifests)
          /\ Alive(CurrentManifests) \subseteq Named(CurrentManifests)
      BY DEF Named, Alive
    <2>3. meta.version <= meta.version
      BY <1>a, TypesOfTable
    <2>4. prep'.snap = s /\ prep'.base = meta.version /\ prep'.add = add
      BY <1>2
    <2>5. /\ Named(lists[prep.snap])' \subseteq Named(CurrentManifests)' \cup prep'.add
          /\ Alive(lists[prep.snap])' \subseteq Alive(CurrentManifests)' \cup prep'.add
      BY <1>b, <1>6, <2>1, <2>2, <2>4
    <2>6. lists'[prep'.snap] \subseteq CurrentManifests' \cup {prep'.snap}
      BY <1>2, <1>4, <2>4
    <2>7. {ListObj(prep'.snap), ManifestObj(prep'.snap)} \subseteq store' \ garbage'
      BY <1>1, <1>2, <2>4
    <2>8. prep'.base <= meta'.version /\ prep'.add \subseteq inflight'
      BY <1>2, <2>3, <2>4
    <2>9. QED
      BY <2>5, <2>6, <2>7, <2>8 DEF CommitBringsItsOwn
  <1>11. ManifestsAreDisjoint'
    <2> DEFINE live(m) == entries[m] \ removed[m]
               liveNext(m) == entries'[m] \ removed'[m]
    <2>1. ASSUME NEW r \in Snaps, NEW m \in lists'[r], NEW n \in lists'[r], m # n
          PROVE  liveNext(m) \cap liveNext(n) = {}
      <3>1. CASE r # s
        <4>1. m \in lists[r] /\ n \in lists[r]
          BY <1>2, <3>1
        <4>2. m \in Snaps /\ n \in Snaps /\ m # s /\ n # s
          BY <1>a, <1>1, <4>1 DEF TableTypeOK
        <4>3. QED
          BY <1>a, <1>2, <2>1, <4>1, <4>2 DEF ManifestsAreDisjoint
      <3>2. \A old \in carry : liveNext(old) = live(old) /\ old # s
        BY <1>b, <1>1, <1>2
      <3>3. \A old \in carry : live(old) \cap liveNext(s) = {}
        <4>1. liveNext(s) \subseteq add \cup rewritten
          BY <1>2
        <4>2. \A old \in carry : live(old) \cap add = {}
          BY <1>a, CurrentIsRetained DEF TableInv, Named
        <4>3. \A old \in carry : live(old) \cap rewritten = {}
          BY <1>a, CurrentIsRetained DEF TableInv, Alive
        <4>4. QED
          BY <4>1, <4>2, <4>3
      <3>4. CASE r = s
        <4>1. m \in carry \cup {s} /\ n \in carry \cup {s}
          BY <1>2, <3>4
        <4>2. CASE m \in carry /\ n \in carry
          <5>1. live(m) \cap live(n) = {}
            BY <1>a, <2>1, <4>2, CurrentIsRetained DEF TableInv
          <5>2. QED
            BY <3>2, <4>2, <5>1
        <4>3. CASE m = s /\ n \in carry
          BY <3>2, <3>3, <4>3
        <4>4. CASE n = s /\ m \in carry
          BY <3>2, <3>3, <4>4
        <4>5. QED
          BY <2>1, <4>1, <4>2, <4>3, <4>4
      <3>5. QED
        BY <3>1, <3>4
    <2>2. QED
      BY <2>1 DEF ManifestsAreDisjoint
  <1>12. QED
    BY <1>7, <1>8, <1>9, <1>10, <1>11 DEF TableInv

(* Metadata that retains no more than before, and unlinks nothing that it  *)
(* still needs, keeps the invariant: expiring a snapshot, moving a branch. *)
LEMMA PublishInv ==
    ASSUME TableInv, TableTypeOK', NEW current \in 0..MaxSnap, NEW snaps \in SUBSET meta.snaps,
           current = NoSnap \/ current \in snaps,
           Publish(current, snaps),
           garbage' \subseteq garbage \cup (Needed(meta.snaps) \ Needed(snaps)),
           UNCHANGED <<clock, lists, entries, removed, prep, inflight>>
    PROVE  TableInv'
  <1>a. TableTypeOK /\ IdsAreFresh /\ FilesAreFresh /\ NeededIsStored
          /\ CommitBringsItsOwn /\ ManifestsAreDisjoint
    BY DEF TableInv
  <1>b. /\ meta.snaps \in SUBSET Snaps /\ snaps \in SUBSET Snaps
        /\ meta.version \in Nat /\ meta.version + 1 \in 0..MaxVersion
        /\ MetadataObj(meta.version + 1) \in Objects
    <2>1. meta.version \in Nat /\ meta.version + 1 <= MaxVersion
      BY <1>a, TypesOfTable DEF Publish
    <2>2. QED
      BY <1>a, <2>1, TypesOfTable, TableAssumption, ObjectNames
  <1>1. /\ meta'.version = meta.version + 1 /\ meta'.current = current /\ meta'.snaps = snaps
        /\ store' = store \cup {MetadataObj(meta.version + 1)}
        /\ mtime' = [mtime EXCEPT ![MetadataObj(meta.version + 1)] = clock]
    BY DEF Publish
  <1>2. /\ \A o \in Objects : mtime[o] # 0 => mtime'[o] # 0
        /\ mtime'[MetadataObj(meta.version + 1)] # 0
        /\ \A s \in Snaps : /\ mtime'[ListObj(s)] = mtime[ListObj(s)]
                            /\ mtime'[ManifestObj(s)] = mtime[ManifestObj(s)]
    <2>1. clock # 0 /\ mtime \in [Objects -> 0..MaxClock]
      BY <1>a DEF TableTypeOK
    <2>2. \A o \in Objects :
            mtime'[o] = IF o = MetadataObj(meta.version + 1) THEN clock ELSE mtime[o]
      BY <1>1, <2>1
    <2>3. QED
      BY <1>b, <2>1, <2>2, ObjectNames, DistinctNames
  <1>3. /\ Needed(meta.snaps) \subseteq store \ garbage
        /\ Needed(snaps) \subseteq Needed(meta.snaps)
        /\ Needed(snaps) \cap garbage' = {}
    <2>1. Needed(snaps) \subseteq Needed(meta.snaps)
      BY <1>a, <1>b, NeededMonotone
    <2>2. Needed(meta.snaps) \subseteq store \ garbage
      BY <1>a DEF NeededIsStored
    <2>3. QED
      BY <2>1, <2>2
  <1>4. \A v : MetadataObj(v) \notin Needed(meta.snaps)
    BY <1>a, <1>b, NeededObjects, DistinctNames
  <1>5. \A f \in inflight : DataObj(f) \notin Needed(meta.snaps)
    <2>1. \A f \in inflight : f \notin Alive(ManifestsOf(meta.snaps))
      BY <1>a DEF FilesAreFresh, Alive, Named
    <2>2. QED
      BY <1>a, <1>b, <2>1, NeededObjects, DistinctNames
  <1>6. IdsAreFresh'
    BY <1>a, <1>1, <1>2 DEF IdsAreFresh
  <1>7. FilesAreFresh'
    <2>1. \A o \in store' \cup garbage' : mtime'[o] # 0
      <3>1. store \cup garbage \subseteq Objects
        BY <1>a DEF TableTypeOK
      <3>2. \A o \in store \cup garbage : mtime[o] # 0
        BY <1>a DEF FilesAreFresh
      <3>3. garbage' \subseteq store \cup garbage
        BY <1>3
      <3>4. QED
        BY <1>1, <1>2, <3>1, <3>2, <3>3
    <2>2. \A m \in Snaps : \A f \in entries'[m] : mtime'[DataObj(f)] # 0
      BY <1>a, <1>2, ObjectNames DEF FilesAreFresh, TableTypeOK
    <2>3. Named(ManifestsOf(meta.snaps))' \subseteq Named(ManifestsOf(meta.snaps))
      BY <1>1 DEF Named, ManifestsOf
    <2>4. QED
      BY <1>a, <1>1, <1>5, <2>1, <2>2, <2>3 DEF FilesAreFresh
  <1>8. NeededIsStored'
    <2>1. Needed(meta.snaps)' = Needed(snaps)
      BY <1>1 DEF Needed, Reach, Named, ManifestsOf, Alive
    <2>2. \A v \in 0..meta'.version : v \in 0..meta.version \/ v = meta.version + 1
      BY <1>b, <1>1
    <2>3. \A v \in 0..meta'.version : MetadataObj(v) \in store'
      BY <1>a, <1>1, <2>2 DEF NeededIsStored
    <2>4. \A v \in 0..MaxVersion : MetadataObj(v) \notin garbage'
      BY <1>a, <1>4 DEF NeededIsStored
    <2>5. QED
      BY <1>1, <1>3, <2>1, <2>3, <2>4 DEF NeededIsStored
  <1>9. CommitBringsItsOwn'
    <2>1. prep.base \in Nat
      BY <1>a, TableAssumption DEF TableTypeOK, PreparedCommit, NoCommit
    <2>2. prep'.base < meta'.version
      BY <1>a, <1>b, <1>1, <2>1 DEF CommitBringsItsOwn
    <2>3. prep'.base <= meta'.version /\ prep'.base # meta'.version
      BY <1>b, <1>1, <2>1, <2>2
    <2>4. QED
      BY <1>a, <2>3 DEF CommitBringsItsOwn
  <1>10. ManifestsAreDisjoint'
    BY <1>a DEF ManifestsAreDisjoint
  <1>11. QED
    BY <1>6, <1>7, <1>8, <1>9, <1>10 DEF TableInv

LEMMA ExpireInv ==
    ASSUME TableInv, TableTypeOK', NEW s \in Snaps, ExpireSnapshot(s)
    PROVE  TableInv'
  <1>1. /\ meta.current \in 0..MaxSnap /\ meta.snaps \in SUBSET Snaps
        /\ meta.current = NoSnap \/ meta.current \in meta.snaps \ {s}
    BY TypesOfTable DEF TableInv, IdsAreFresh, ExpireSnapshot
  <1>2. Needed({s}) \subseteq Needed(meta.snaps)
    <2>1. {s} \subseteq meta.snaps /\ {s} \in SUBSET Snaps
      BY DEF ExpireSnapshot
    <2>2. QED
      BY <1>1, <2>1, NeededMonotone DEF TableInv
  <1>3. garbage' \subseteq garbage \cup (Needed(meta.snaps) \ Needed(meta.snaps \ {s}))
    BY <1>2 DEF ExpireSnapshot
  <1>4. /\ Publish(meta.current, meta.snaps \ {s})
        /\ UNCHANGED <<clock, lists, entries, removed, prep, inflight>>
    BY DEF ExpireSnapshot
  <1>5. meta.snaps \ {s} \in SUBSET meta.snaps
    OBVIOUS
  <1>6. QED
    BY <1>1, <1>3, <1>4, <1>5, PublishInv

LEMMA CommitInv ==
    ASSUME TableInv, TableTypeOK', Commit
    PROVE  TableInv'
  <1> DEFINE s == prep.snap
             snaps == meta.snaps \cup {s}
  <1>a. TableTypeOK /\ IdsAreFresh /\ FilesAreFresh /\ NeededIsStored
          /\ CommitBringsItsOwn /\ ManifestsAreDisjoint
    BY DEF TableInv
  <1>b. /\ s \in Snaps /\ snaps \in SUBSET Snaps /\ meta.snaps \in SUBSET Snaps
        /\ meta.version \in Nat /\ meta.version + 1 \in 0..MaxVersion
        /\ MetadataObj(meta.version + 1) \in Objects
        /\ mtime[ListObj(s)] # 0
    <2>1. s \in Snaps /\ meta.snaps \in SUBSET Snaps
      BY <1>a, TypesOfTable DEF Commit, PreparedCommit, TableTypeOK
    <2>2. meta.version \in Nat /\ meta.version + 1 <= MaxVersion
      BY <1>a, TypesOfTable DEF Commit, Publish
    <2>3. mtime[ListObj(s)] # 0
      BY <1>a, <2>1 DEF IdsAreFresh
    <2>4. QED
      BY <2>1, <2>2, <2>3, TableAssumption, ObjectNames
  <1>1. /\ meta'.version = meta.version + 1 /\ meta'.current = s /\ meta'.snaps = snaps
        /\ store' = store \cup {MetadataObj(meta.version + 1)}
        /\ mtime' = [mtime EXCEPT ![MetadataObj(meta.version + 1)] = clock]
        /\ prep' = NoCommit /\ inflight' = inflight \ prep.add
        /\ UNCHANGED <<clock, lists, entries, removed, garbage>>
    BY DEF Commit, Publish
  <1>2. /\ lists[s] \subseteq CurrentManifests \cup {s}
        /\ Named(lists[s]) \subseteq Named(CurrentManifests) \cup prep.add
        /\ Alive(lists[s]) \subseteq Alive(CurrentManifests) \cup prep.add
        /\ {ListObj(s), ManifestObj(s)} \subseteq store \ garbage
        /\ prep.add \subseteq inflight
        /\ CurrentManifests \subseteq ManifestsOf(meta.snaps)
    BY <1>a, CurrentIsRetained DEF Commit, CommitBringsItsOwn, TableInv
  <1>3. /\ \A o \in Objects : mtime[o] # 0 => mtime'[o] # 0
        /\ mtime'[MetadataObj(meta.version + 1)] # 0
        /\ \A r \in Snaps : /\ mtime'[ListObj(r)] = mtime[ListObj(r)]
                            /\ mtime'[ManifestObj(r)] = mtime[ManifestObj(r)]
    <2>1. clock # 0 /\ mtime \in [Objects -> 0..MaxClock]
      BY <1>a DEF TableTypeOK
    <2>2. \A o \in Objects :
            mtime'[o] = IF o = MetadataObj(meta.version + 1) THEN clock ELSE mtime[o]
      BY <1>1, <2>1
    <2>3. QED
      BY <1>b, <2>1, <2>2, ObjectNames, DistinctNames
  <1>4. IdsAreFresh'
    <2>1. ASSUME NEW r \in Snaps, mtime'[ListObj(r)] = 0
          PROVE  r # s /\ r \notin meta.snaps /\ mtime'[ManifestObj(r)] = 0
                   /\ \A q \in Snaps : r \notin lists[q]
      BY <1>a, <1>b, <1>3, <2>1 DEF IdsAreFresh
    <2>2. prep'.snap = NoSnap /\ \A r \in Snaps : r # NoSnap
      BY <1>1, TableAssumption DEF NoCommit, NoSnap, Snaps
    <2>3. QED
      BY <1>b, <1>1, <2>1, <2>2 DEF IdsAreFresh
  <1>5. FilesAreFresh'
    <2>1. \A o \in store' \cup garbage' : mtime'[o] # 0
      BY <1>a, <1>1, <1>3 DEF FilesAreFresh, TableTypeOK
    <2>2. \A m \in Snaps : \A f \in entries'[m] : mtime'[DataObj(f)] # 0
      BY <1>a, <1>1, <1>3, ObjectNames DEF FilesAreFresh, TableTypeOK
    <2>3. Named(ManifestsOf(meta.snaps))'
            \subseteq Named(ManifestsOf(meta.snaps)) \cup Named(lists[s])
      BY <1>1 DEF Named, ManifestsOf
    <2>4. Named(CurrentManifests) \subseteq Named(ManifestsOf(meta.snaps))
      BY <1>2 DEF Named
    <2>5. QED
      BY <1>a, <1>1, <1>2, <2>1, <2>2, <2>3, <2>4 DEF FilesAreFresh
  <1>6. NeededIsStored'
    <2>1. Needed(meta.snaps)' = Needed(snaps)
      BY <1>1 DEF Needed, Reach, Named, ManifestsOf, Alive
    <2>2. /\ ManifestsOf(snaps) = ManifestsOf(meta.snaps) \cup lists[s]
          /\ Alive(ManifestsOf(snaps)) = Alive(ManifestsOf(meta.snaps)) \cup Alive(lists[s])
      BY DEF ManifestsOf, Alive
    <2>3. Alive(CurrentManifests) \subseteq Alive(ManifestsOf(meta.snaps))
      BY <1>2 DEF Alive
    <2>4. Needed(snaps) \subseteq Needed(meta.snaps) \cup {ListObj(s), ManifestObj(s)}
                                \cup {DataObj(f) : f \in prep.add}
      <3>1. Needed(snaps) = {ListObj(r) : r \in snaps}
                               \cup {ManifestObj(m) : m \in ManifestsOf(snaps)}
                               \cup {DataObj(f) : f \in Alive(ManifestsOf(snaps))}
        BY <1>a, <1>b, NeededObjects
      <3>2. Needed(meta.snaps) = {ListObj(r) : r \in meta.snaps}
                               \cup {ManifestObj(m) : m \in ManifestsOf(meta.snaps)}
                               \cup {DataObj(f) : f \in Alive(ManifestsOf(meta.snaps))}
        BY <1>a, <1>b, NeededObjects
      <3>3. ManifestsOf(snaps) \subseteq ManifestsOf(meta.snaps) \cup {s}
        BY <1>2, <2>2
      <3>4. Alive(ManifestsOf(snaps)) \subseteq Alive(ManifestsOf(meta.snaps)) \cup prep.add
        BY <1>2, <2>2, <2>3
      <3>5. QED
        BY <3>1, <3>2, <3>3, <3>4
    <2>5. \A f \in prep.add : DataObj(f) \in store \ garbage
      BY <1>a, <1>2 DEF FilesAreFresh
    <2>6. Needed(snaps) \subseteq store \ garbage
      BY <1>a, <1>2, <2>4, <2>5 DEF NeededIsStored
    <2>7. \A v \in 0..meta'.version : v \in 0..meta.version \/ v = meta.version + 1
      BY <1>b, <1>1
    <2>8. \A v \in 0..meta'.version : MetadataObj(v) \in store'
      BY <1>a, <1>1, <2>7 DEF NeededIsStored
    <2>9. QED
      BY <1>a, <1>1, <2>1, <2>6, <2>8 DEF NeededIsStored
  <1>7. CommitBringsItsOwn'
    BY <1>b, <1>1 DEF CommitBringsItsOwn, NoCommit
  <1>8. ManifestsAreDisjoint'
    BY <1>a, <1>1 DEF ManifestsAreDisjoint
  <1>9. QED
    BY <1>4, <1>5, <1>6, <1>7, <1>8 DEF TableInv

LEMMA AbandonInv ==
    ASSUME TableInv, AbandonCommit
    PROVE  TableInv'
  <1>1. /\ prep' = NoCommit
        /\ UNCHANGED <<clock, store, mtime, meta, lists, entries, removed, inflight, garbage>>
    BY DEF AbandonCommit
  <1>2. TableTypeOK'
    BY <1>1 DEF TableInv, TableTypeOK
  <1>3. IdsAreFresh'
    <2>1. prep'.snap = NoSnap /\ \A r \in Snaps : r # NoSnap
      BY <1>1, TableAssumption DEF NoCommit, NoSnap, Snaps
    <2>2. meta.snaps \subseteq Snaps
      BY TypesOfTable DEF TableInv
    <2>3. QED
      BY <1>1, <2>1, <2>2 DEF TableInv, IdsAreFresh
  <1>4. FilesAreFresh'
    BY <1>1 DEF TableInv, FilesAreFresh, Named, ManifestsOf
  <1>5. NeededIsStored'
    BY <1>1 DEF TableInv, NeededIsStored, Needed, Reach, Named, ManifestsOf, Alive
  <1>6. CommitBringsItsOwn'
    BY <1>1, TypesOfTable DEF TableInv, CommitBringsItsOwn, NoCommit
  <1>7. ManifestsAreDisjoint'
    BY <1>1 DEF TableInv, ManifestsAreDisjoint
  <1>8. QED
    BY <1>2, <1>3, <1>4, <1>5, <1>6, <1>7 DEF TableInv

LEMMA DeleteFileInv ==
    ASSUME TableInv, NEW o \in garbage, DeleteFile(o)
    PROVE  TableInv'
  <1>1. /\ store' = store \ {o} /\ garbage' = garbage \ {o}
        /\ UNCHANGED <<clock, mtime, meta, lists, entries, removed, prep, inflight>>
    BY DEF DeleteFile
  <1>2. store' \ garbage' = store \ garbage
    BY <1>1
  <1>3. TableTypeOK'
    BY <1>1 DEF TableInv, TableTypeOK
  <1>4. IdsAreFresh'
    BY <1>1 DEF TableInv, IdsAreFresh
  <1>5. FilesAreFresh'
    BY <1>1, <1>2 DEF TableInv, FilesAreFresh, Named, ManifestsOf
  <1>6. NeededIsStored'
    <2>1. Needed(meta.snaps)' = Needed(meta.snaps)
      BY <1>1 DEF Needed, Reach, Named, ManifestsOf, Alive
    <2>2. \A v \in 0..meta.version : MetadataObj(v) \in store'
      <3>1. 0..meta.version \subseteq 0..MaxVersion
        BY TypesOfTable, TableAssumption DEF TableInv
      <3>2. QED
        BY <1>1, <3>1 DEF TableInv, NeededIsStored
    <2>3. QED
      BY <1>1, <1>2, <2>1, <2>2 DEF TableInv, NeededIsStored
  <1>7. CommitBringsItsOwn'
    BY <1>1, <1>2 DEF TableInv, CommitBringsItsOwn, CurrentManifests, Named, Alive
  <1>8. ManifestsAreDisjoint'
    BY <1>1 DEF TableInv, ManifestsAreDisjoint
  <1>9. QED
    BY <1>3, <1>4, <1>5, <1>6, <1>7, <1>8 DEF TableInv

(* The passing of time and the steps of the readers change no table.       *)
LEMMA StutterInv ==
    ASSUME TableInv, clock' \in 1..MaxClock,
           UNCHANGED <<store, mtime, meta, lists, entries, removed, prep, inflight, garbage>>
    PROVE  TableInv'
  <1>1. TableTypeOK'
    BY DEF TableInv, TableTypeOK
  <1>2. IdsAreFresh'
    BY DEF TableInv, IdsAreFresh
  <1>3. FilesAreFresh'
    BY DEF TableInv, FilesAreFresh, Named, ManifestsOf
  <1>4. NeededIsStored'
    BY DEF TableInv, NeededIsStored, Needed, Reach, Named, ManifestsOf, Alive
  <1>5. CommitBringsItsOwn'
    BY DEF TableInv, CommitBringsItsOwn, CurrentManifests, Named, Alive
  <1>6. ManifestsAreDisjoint'
    BY DEF TableInv, ManifestsAreDisjoint
  <1>7. QED
    BY <1>1, <1>2, <1>3, <1>4, <1>5, <1>6 DEF TableInv

(* Every step of the writers keeps the invariant of the table.             *)
THEOREM WritersInv == TableInv /\ Writers => TableInv'
  <1> SUFFICES ASSUME TableInv, Writers
               PROVE  TableInv'
    OBVIOUS
  <1>1. TableTypeOK'
    BY WritersTypeOK DEF TableInv
  <1>2. ASSUME NEW f \in DataFiles, WriteData(f)
        PROVE  TableInv'
    BY <1>1, <1>2, WriteDataInv
  <1>3. ASSUME NEW s \in Snaps, NEW add \in SUBSET inflight,
               NEW drop \in SUBSET Alive(CurrentManifests),
               NEW carry \in SUBSET CurrentManifests,
               Prepare(s, add, drop, carry)
        PROVE  TableInv'
    BY <1>1, <1>3, PrepareInv
  <1>4. CASE Commit
    BY <1>1, <1>4, CommitInv
  <1>5. CASE AbandonCommit
    BY <1>5, AbandonInv
  <1>6. ASSUME NEW s \in Snaps, ExpireSnapshot(s)
        PROVE  TableInv'
    BY <1>1, <1>6, ExpireInv
  <1>7. ASSUME NEW o \in garbage, DeleteFile(o)
        PROVE  TableInv'
    BY <1>7, DeleteFileInv
  <1>8. QED
    BY <1>2, <1>3, <1>4, <1>5, <1>6, <1>7 DEF Writers

-----------------------------------------------------------------------------
(* What a reader may hold on to while writers go on: a snapshot that was   *)
(* written once stays what it is, and the catalog only moves forward.      *)
Unaltered(s) ==
    /\ mtime'[ListObj(s)] = mtime[ListObj(s)]
    /\ lists'[s] = lists[s]
    /\ \A m \in lists[s] : entries'[m] = entries[m] /\ removed'[m] = removed[m]

(* Publishing touches no snapshot.                                         *)
LEMMA PublishAlters ==
    ASSUME TableTypeOK, NEW current, NEW snaps, Publish(current, snaps),
           UNCHANGED <<lists, entries, removed>>, NEW s \in Snaps
    PROVE  Unaltered(s)
  <1>1. mtime' = [mtime EXCEPT ![MetadataObj(meta.version + 1)] = clock]
    BY DEF Publish
  <1>2. mtime'[ListObj(s)] = mtime[ListObj(s)]
    BY <1>1, ObjectNames, DistinctNames DEF TableTypeOK
  <1>3. QED
    BY <1>2 DEF Unaltered

(* A snapshot whose manifest list is written never changes again, nor does *)
(* any manifest it names.                                                  *)
THEOREM SnapshotsAreImmutable ==
    ASSUME TableInv, Writers, NEW s \in Snaps, mtime[ListObj(s)] # 0
    PROVE  Unaltered(s)
  <1>a. TableTypeOK /\ mtime \in [Objects -> 0..MaxClock] /\ ListObj(s) \in Objects
    BY ObjectNames DEF TableInv, TableTypeOK
  <1>1. ASSUME NEW f \in DataFiles, WriteData(f)
        PROVE  Unaltered(s)
    <2>1. /\ mtime' = [mtime EXCEPT ![DataObj(f)] = clock]
          /\ UNCHANGED <<lists, entries, removed>>
      BY <1>1 DEF WriteData
    <2>2. mtime'[ListObj(s)] = mtime[ListObj(s)]
      BY <1>a, <2>1, DistinctNames
    <2>3. QED
      BY <2>1, <2>2 DEF Unaltered
  <1>2. ASSUME NEW t \in Snaps, NEW add \in SUBSET inflight,
               NEW drop \in SUBSET Alive(CurrentManifests),
               NEW carry \in SUBSET CurrentManifests,
               Prepare(t, add, drop, carry)
        PROVE  Unaltered(s)
    <2>1. /\ mtime' = [mtime EXCEPT ![ListObj(t)] = clock, ![ManifestObj(t)] = clock]
          /\ \A r \in Snaps : r # t => /\ lists'[r] = lists[r] /\ entries'[r] = entries[r]
                                       /\ removed'[r] = removed[r]
          /\ mtime[ListObj(t)] = 0
      BY <1>a, <1>2 DEF Prepare, TableTypeOK
    <2>2. s # t /\ \A m \in lists[s] : m # t /\ m \in Snaps
      BY <1>a, <2>1 DEF TableInv, IdsAreFresh, TableTypeOK
    <2>3. ListObj(s) # ListObj(t) /\ ListObj(s) # ManifestObj(t)
      BY <2>2, DistinctNames
    <2>4. mtime'[ListObj(s)] = mtime[ListObj(s)]
      BY <1>a, <2>1, <2>3
    <2>5. QED
      BY <2>1, <2>2, <2>4 DEF Unaltered
  <1>3. CASE Commit
    BY <1>a, <1>3, PublishAlters DEF Commit
  <1>4. CASE AbandonCommit
    BY <1>4 DEF AbandonCommit, Unaltered
  <1>5. ASSUME NEW t \in Snaps, ExpireSnapshot(t)
        PROVE  Unaltered(s)
    BY <1>a, <1>5, PublishAlters DEF ExpireSnapshot
  <1>6. ASSUME NEW o \in garbage, DeleteFile(o)
        PROVE  Unaltered(s)
    BY <1>6 DEF DeleteFile, Unaltered
  <1>7. QED
    BY <1>1, <1>2, <1>3, <1>4, <1>5, <1>6 DEF Writers

(* Only the commit being attempted can add a snapshot, the version never   *)
(* goes back, and a new attempt takes a snapshot id never written before:  *)
(* a snapshot that was expired does not come back.                         *)
THEOREM CatalogMovesForward ==
    ASSUME TableInv, Writers
    PROVE  /\ meta'.snaps \subseteq meta.snaps \cup {prep.snap}
           /\ meta.version <= meta'.version
           /\ prep'.snap # prep.snap =>
                prep'.snap = NoSnap \/ mtime[ListObj(prep'.snap)] = 0
  <1>a. TableTypeOK /\ meta.version \in Nat
    BY TypesOfTable DEF TableInv
  <1>1. ASSUME NEW f \in DataFiles, WriteData(f)
        PROVE  UNCHANGED <<meta, prep>>
    BY <1>1 DEF WriteData
  <1>2. ASSUME NEW t \in Snaps, NEW add \in SUBSET inflight,
               NEW drop \in SUBSET Alive(CurrentManifests),
               NEW carry \in SUBSET CurrentManifests,
               Prepare(t, add, drop, carry)
        PROVE  meta' = meta /\ mtime[ListObj(prep'.snap)] = 0
    BY <1>2 DEF Prepare
  <1>3. CASE Commit
    <2>1. /\ meta'.snaps = meta.snaps \cup {prep.snap}
          /\ meta'.version = meta.version + 1
          /\ prep'.snap = NoSnap
      BY <1>3 DEF Commit, Publish, NoCommit
    <2>2. QED
      BY <1>a, <2>1
  <1>4. CASE AbandonCommit
    BY <1>a, <1>4 DEF AbandonCommit, NoCommit
  <1>5. ASSUME NEW t \in Snaps, ExpireSnapshot(t)
        PROVE  /\ meta'.snaps \subseteq meta.snaps
               /\ meta'.version = meta.version + 1
               /\ prep' = prep
    BY <1>5 DEF ExpireSnapshot, Publish
  <1>6. ASSUME NEW o \in garbage, DeleteFile(o)
        PROVE  UNCHANGED <<meta, prep>>
    BY <1>6 DEF DeleteFile
  <1>7. QED
    BY <1>a, <1>1, <1>2, <1>3, <1>4, <1>5, <1>6 DEF Writers

=============================================================================
