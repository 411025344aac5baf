----------------------------- MODULE OrphanScan -----------------------------
(***************************************************************************)
(* `iceberg-sentry orphans` (internal/cli/orphans.go and                   *)
(* internal/orphans/orphans.go) against a table that keeps changing.       *)
(*                                                                         *)
(* The command loads the metadata pointer, reads that metadata file, walks *)
(* every snapshot, manifest list and manifest in it to build the set of    *)
(* referenced paths, only then reads the clock to fix the cutoff, and      *)
(* lists the prefix object by object.  Each step is one action, so that    *)
(* writers, expiry and time can move between any two of them.              *)
(***************************************************************************)
EXTENDS IcebergTable

CONSTANTS
    GracePeriod,   \* --grace-period as parsed: any integer, 0 and negative too
    DefaultGrace,  \* the 24 h that replace a grace period of 0
    MaxWalk,       \* longest time from loading the pointer to fixing the cutoff
    PreviewN,      \* --preview: 0 means "all"
    Prefix,        \* the objects under --data-prefix
    RefSpelling,   \* how metadata spells URIs of the table
    ListSpelling,  \* how List spells URIs under the prefix given by the user
    Timeless,      \* the objects for which List reports no modification time
    NamedMetadata  \* the objects whose names say metadata: *.metadata.json,
                   \* snap-*.avro, version-hint.text*

Spellings == {"bare", "file", "hdfs", "hdfs-authority"}

ASSUME ScanAssumption ==
    /\ GracePeriod \in Int
    /\ DefaultGrace \in Nat \ {0}
    /\ MaxWalk \in Nat
    /\ PreviewN \in Int
    /\ Prefix \subseteq Objects
    /\ RefSpelling \in Spellings
    /\ ListSpelling \in Spellings
    /\ Timeless \subseteq Objects
    /\ NamedMetadata \subseteq Objects

VARIABLES
    phase,       \* "idle", "loaded", "walk", "list", "done" or "failed"
    locked,      \* md: the metadata the whole scan works from
    loadedAt,    \* when LoadTable returned the pointer
    todo,        \* snapshots of md still to walk
    manifests,   \* mfs: manifests of the current snapshot still to read
    active,      \* active: normalized URIs of everything referenced
    scannedAt,   \* now, read after the walk
    due,         \* what was under the prefix when the listing began
    visited,     \* objects handed to the visit callback (ScannedObjects)
    counted,     \* objects whose size is in TotalBytes
    candidates   \* r.Candidates

scanVars == <<phase, locked, loadedAt, todo, manifests, active, scannedAt,
              due, visited, counted, candidates>>
vars == <<tableVars, scanVars>>

-----------------------------------------------------------------------------
(* Helpers.  Where a definition is preceded by a variant of its name, the  *)
(* variant is a slip the code could contain and a property below would     *)
(* notice; no action uses it.                                              *)

(* normalize drops "file://" and leaves every other spelling as it is.     *)
Normalize(spelling) == IF spelling = "file" THEN "bare" ELSE spelling

Ref(o)    == [spelling |-> Normalize(RefSpelling), obj |-> o]
Listed(o) == [spelling |-> Normalize(ListSpelling), obj |-> o]

Grace == IF GracePeriod = 0 THEN DefaultGrace ELSE GracePeriod

IsMetadataPath(o) == o \in NamedMetadata

UpdatedAt(o) == IF o \in Timeless THEN 0 ELSE mtime[o]

RecentFromCutoff(o) == UpdatedAt(o) # 0 /\ UpdatedAt(o) >= scannedAt - Grace
Recent(o) == UpdatedAt(o) # 0 /\ UpdatedAt(o) > scannedAt - Grace

OrphanedWithoutGrace(o) == Listed(o) \notin active /\ ~IsMetadataPath(o)
Orphaned(o) == ~Recent(o) /\ Listed(o) \notin active /\ ~IsMetadataPath(o)

(* The list of candidates takes one more.                                  *)
Room == PreviewN = 0 \/ Cardinality(candidates) < PreviewN

(* The walk covers every snapshot of md, not just the current one.         *)
CurrentToWalkUnchecked == locked.snaps \cup {locked.current}
LatestToWalk == meta.snaps
SnapshotsToWalk == locked.snaps

-----------------------------------------------------------------------------
ScanInit ==
    /\ phase = "idle"
    /\ locked = meta
    /\ loadedAt = 0
    /\ todo = {}
    /\ manifests = {}
    /\ active = {}
    /\ scannedAt = 0
    /\ due = {}
    /\ visited = {}
    /\ counted = {}
    /\ candidates = {}

Init == TableInit /\ ScanInit

LoadTable ==
    /\ phase = "idle"
    /\ phase' = "loaded"
    /\ locked' = meta
    /\ loadedAt' = clock
    /\ UNCHANGED <<tableVars, todo, manifests, active, scannedAt, due, visited,
                   counted, candidates>>

ReadMetadata ==
    /\ phase = "loaded"
    /\ MetadataObj(locked.version) \in store
    /\ phase' = "walk"
    /\ todo' = SnapshotsToWalk
    /\ UNCHANGED <<tableVars, locked, loadedAt, manifests, active, scannedAt, due,
                   visited, counted, candidates>>

(* One turn of the loop over md.Snapshots: the manifest list is added,     *)
(* opened and read.                                                        *)
WalkList(s) ==
    /\ phase = "walk"
    /\ manifests = {}
    /\ s \in todo
    /\ ListObj(s) \in store
    /\ todo' = todo \ {s}
    /\ manifests' = lists[s]
    /\ active' = active \cup {Ref(ListObj(s))}
    /\ UNCHANGED <<tableVars, phase, locked, loadedAt, scannedAt, due, visited,
                   counted, candidates>>

(* readManifestEntries: the manifest is added, and every path it names,    *)
(* whatever the entry's status.                                            *)
WalkManifest(m) ==
    /\ phase = "walk"
    /\ m \in manifests
    /\ ManifestObj(m) \in store
    /\ manifests' = manifests \ {m}
    /\ active' = active \cup {Ref(ManifestObj(m))} \cup {Ref(DataObj(f)) : f \in entries[m]}
    /\ UNCHANGED <<tableVars, phase, locked, loadedAt, todo, scannedAt, due, visited,
                   counted, candidates>>

(* The walk is over: the metadata file is added, now is read, List begins. *)
BeginList ==
    /\ phase = "walk"
    /\ todo = {} /\ manifests = {}
    /\ phase' = "list"
    /\ active' = active \cup {Ref(MetadataObj(locked.version))}
    /\ scannedAt' = clock
    /\ due' = store \cap Prefix
    /\ UNCHANGED <<tableVars, locked, loadedAt, todo, manifests, visited, counted,
                   candidates>>

(* The visit callback.  The exact set decides whatever the Bloom filter    *)
(* says, so the filter does not appear.                                    *)
Visit(o) ==
    /\ phase = "list"
    /\ o \in (store \cap Prefix) \ visited
    /\ visited' = visited \cup {o}
    /\ counted' = IF Orphaned(o) THEN counted \cup {o} ELSE counted
    /\ candidates' =
         IF Orphaned(o) /\ Room THEN candidates \cup {o} ELSE candidates
    /\ UNCHANGED <<tableVars, phase, locked, loadedAt, todo, manifests, active,
                   scannedAt, due>>

(* The listing ends once it has shown all that was there throughout;       *)
(* objects created meanwhile may or may not have been seen.                *)
EndList ==
    /\ phase = "list"
    /\ due \cap store \subseteq visited
    /\ phase' = "done"
    /\ UNCHANGED <<tableVars, locked, loadedAt, todo, manifests, active, scannedAt,
                   due, visited, counted, candidates>>

(* Any Open, Read or List may fail, and must fail when the object is gone: *)
(* the whole scan returns an error and no report.                          *)
ScanError ==
    /\ phase \in {"loaded", "walk", "list"}
    /\ phase' = "failed"
    /\ todo' = {} /\ manifests' = {} /\ active' = {} /\ scannedAt' = 0 /\ due' = {}
    /\ visited' = {} /\ counted' = {} /\ candidates' = {}
    /\ UNCHANGED <<tableVars, locked, loadedAt>>

Scanner ==
    \/ LoadTable
    \/ ReadMetadata
    \/ \E s \in Snaps : WalkList(s)
    \/ \E m \in Snaps : WalkManifest(m)
    \/ BeginList
    \/ \E o \in Objects : Visit(o)
    \/ EndList
    \/ ScanError

(* Time passes, but the walk takes no longer than MaxWalk.                 *)
Walking == phase \in {"loaded", "walk"}
TimePasses == (Walking => clock < loadedAt + MaxWalk) /\ Tick /\ UNCHANGED scanVars

Next ==
    \/ Writers /\ UNCHANGED scanVars
    \/ TimePasses
    \/ Scanner

Spec == Init /\ [][Next]_vars

-----------------------------------------------------------------------------
(* Properties                                                              *)

Reference(set) == {Ref(o) : o \in set}

(* Every variable keeps its type.                                          *)
TypeOK ==
    /\ TableTypeOK
    /\ phase \in {"idle", "loaded", "walk", "list", "done", "failed"}
    /\ locked \in TableMetadata
    /\ loadedAt \in 0..MaxClock
    /\ todo \in SUBSET Snaps
    /\ manifests \in SUBSET Snaps
    /\ active \in SUBSET Reference(Objects)
    /\ scannedAt \in 0..MaxClock
    /\ due \in SUBSET Objects
    /\ visited \in SUBSET Objects
    /\ counted \in SUBSET Objects
    /\ candidates \in SUBSET Objects

(* What the command is for: no object it reports is needed by a snapshot   *)
(* the table retains, at that moment or at any later one, whatever was     *)
(* committed, expired or rewritten since the pointer was loaded.  Of an    *)
(* object without a modification time nothing can be promised: the grace   *)
(* period does not protect it (orphans.go:95).                             *)
LiveNeverFlagged == counted \cap Live \subseteq Timeless

(* The active set is exactly what the locked metadata references: commits  *)
(* and expiries during the walk neither add to it nor take from it.        *)
SnapshotLocked ==
    phase \in {"list", "done"} =>
        active = Reference(Reach(locked.snaps) \cup {MetadataObj(locked.version)})

(* A finished scan missed no data file: one that was under the prefix      *)
(* throughout the listing, is past the grace period or of unknown age, is  *)
(* not referenced by the locked metadata and is not named like metadata is *)
(* counted; and what was counted is listed, all of it or as much as        *)
(* --preview allows (all of it for 0, none for a negative number).         *)
PreviewLimit == IF PreviewN < 0 THEN 0 ELSE PreviewN

NoOrphanMissed ==
    phase = "done" =>
        /\ \A o \in due \cap store :
              (/\ o.kind = "data" /\ ~IsMetadataPath(o)
               /\ o \notin Reach(locked.snaps)
               /\ o \in Timeless \/ mtime[o] <= scannedAt - Grace) => o \in counted
        /\ candidates \subseteq counted
        /\ candidates # counted =>
             PreviewN # 0 /\ Cardinality(candidates) = PreviewLimit
        /\ PreviewN # 0 => Cardinality(candidates) <= PreviewLimit

(* cli/orphans.go:46 of the help text: the grace period excludes files     *)
(* written during concurrent jobs, here the ones written after the scan    *)
(* began.                                                                  *)
ConcurrentFilesExcluded == \A o \in counted \cap Live : mtime[o] < loadedAt

-----------------------------------------------------------------------------
(* The inductive invariant behind LiveNeverFlagged and SnapshotLocked.     *)

(* Snapshot ids are handed out once: one whose manifest list was never     *)
(* written occurs nowhere.                                                 *)
FreshIds ==
    \A s \in Snaps : mtime[ListObj(s)] = 0 =>
        /\ mtime[ManifestObj(s)] = 0
        /\ s \notin meta.snaps \cup locked.snaps
        /\ s # prep.snap
        /\ \A r \in Snaps : s \notin lists[r]

(* Objects in storage were written, and not in the future.                 *)
Written ==
    /\ \A o \in store : mtime[o] # 0
    /\ \A o \in Objects : mtime[o] <= clock
    /\ \A v \in 0..MaxVersion : v > meta.version => mtime[MetadataObj(v)] = 0
    /\ meta.current # NoSnap => meta.current \in meta.snaps

(* A commit that can still succeed brings only files of its own and files  *)
(* that are live.                                                          *)
CommitAddsOwnFiles ==
    /\ prep.base <= meta.version
    /\ prep # NoCommit /\ prep.base = meta.version =>
         Reach({prep.snap}) \subseteq
             Live \cup {ListObj(prep.snap), ManifestObj(prep.snap)}
                  \cup {DataObj(f) : f \in prep.add}

(* What became live after the pointer was loaded was written at most       *)
(* MaxCommit before.                                                       *)
LateIsYoung ==
    phase # "idle" =>
        /\ loadedAt <= clock
        /\ \A o \in Live : o \in Reach(locked.snaps) \/ mtime[o] + MaxCommit >= loadedAt

(* The walk has added everything but what it still has to do.              *)
WalkCovers ==
    phase = "walk" =>
        /\ todo \subseteq locked.snaps
        /\ \A s \in locked.snaps : s \notin todo =>
             /\ Ref(ListObj(s)) \in active
             /\ \A m \in lists[s] : m \notin manifests =>
                  /\ Ref(ManifestObj(m)) \in active
                  /\ \A f \in entries[m] : Ref(DataObj(f)) \in active

(* ... and nothing the locked metadata does not reference.                 *)
WalkStaysInside ==
    /\ phase \in {"idle", "loaded"} => active = {} /\ manifests = {}
    /\ phase = "walk" =>
         /\ manifests \subseteq ManifestsOf(locked.snaps)
         /\ active \subseteq Reference(Reach(locked.snaps))

(* Once the cutoff is fixed, it is at most MaxWalk after the load.         *)
CutoffInTime ==
    /\ Walking => clock <= loadedAt + MaxWalk
    /\ phase \in {"list", "done"} => scannedAt <= loadedAt + MaxWalk

(* What was counted is unreferenced and, if it has a modification time, old*)
CountedIsOld ==
    /\ phase \notin {"list", "done"} => counted = {}
    /\ \A o \in counted :
         /\ mtime[o] # 0
         /\ Listed(o) \notin active
         /\ o \notin Timeless => mtime[o] <= scannedAt - Grace

IInv ==
    /\ TypeOK
    /\ FreshIds
    /\ Written
    /\ CommitAddsOwnFiles
    /\ LateIsYoung
    /\ WalkCovers
    /\ WalkStaysInside
    /\ SnapshotLocked
    /\ CutoffInTime
    /\ CountedIsOld
=============================================================================
