---------------------------- MODULE IcebergTable ----------------------------
(***************************************************************************)
(* The environment of every scan: one Iceberg table that other engines     *)
(* (Spark, Flink, an expiry job) keep changing while iceberg-sentry reads  *)
(* it.  None of these writers is part of the repository; the module says   *)
(* what the readers under src/internal rely on: files are immutable and    *)
(* written once, a snapshot names one manifest list, a list names          *)
(* manifests, a manifest names data files (types.go, manifest.go), and the *)
(* table changes by swapping the metadata pointer.                         *)
(***************************************************************************)
EXTENDS Integers, FiniteSets

CONSTANTS
    DataFiles,   \* names of the data files writers may create
    MaxSnap,     \* bound: snapshots ever prepared
    MaxVersion,  \* bound: metadata versions ever published
    MaxClock,    \* bound: last instant of the run
    MaxCommit    \* longest time from writing a file to committing it

ASSUME TableAssumption ==
    /\ IsFiniteSet(DataFiles)
    /\ MaxSnap \in Nat
    /\ MaxVersion \in Nat
    /\ MaxClock \in Nat \ {0}
    /\ MaxCommit \in Nat

VARIABLES
    clock,     \* wall clock, common to writers, storage and scanner
    store,     \* objects that exist in storage
    mtime,     \* modification time of each object, 0 = never written
    meta,      \* what the catalog's metadata pointer leads to
    lists,     \* lists[s]: manifests named by the manifest list of snapshot s
    entries,   \* entries[m]: data files named by the manifest written by m
    removed,   \* removed[m]: those of them it records as deleted
    prep,      \* the commit being attempted
    inflight,  \* data files written by a job and not yet committed
    garbage    \* objects an expiry has unlinked and not yet deleted

tableVars ==
    <<clock, store, mtime, meta, lists, entries, removed, prep, inflight, garbage>>

Snaps == 1..MaxSnap
NoSnap == 0

-----------------------------------------------------------------------------
(* Storage objects.  The manifest that snapshot s adds is named after s.   *)

DataObj(f)     == [kind |-> "data", id |-> f]
ManifestObj(s) == [kind |-> "manifest", id |-> s]
ListObj(s)     == [kind |-> "list", id |-> s]
MetadataObj(v) == [kind |-> "metadata", id |-> v]

Objects ==
    {DataObj(f) : f \in DataFiles}
        \cup {ManifestObj(s) : s \in Snaps}
        \cup {ListObj(s) : s \in Snaps}
        \cup {MetadataObj(v) : v \in 0..MaxVersion}

TableMetadata == [version : 0..MaxVersion, current : 0..MaxSnap, snaps : SUBSET Snaps]

(* The manifests that the lists of a set of snapshots name, the data files *)
(* that a set of manifests names, and every object a set of snapshots      *)
(* leads to.                                                               *)
ManifestsOf(snaps) == UNION {lists[s] : s \in snaps}
Named(manifests) == UNION {entries[m] : m \in manifests}

Reach(snaps) ==
    {ListObj(s) : s \in snaps}
        \cup {ManifestObj(m) : m \in ManifestsOf(snaps)}
        \cup {DataObj(f) : f \in Named(ManifestsOf(snaps))}

(* The data files that belong to the table as seen by a set of manifests:  *)
(* a manifest goes on naming the files its snapshot deleted.               *)
Alive(manifests) == UNION {entries[m] \ removed[m] : m \in manifests}

(* Everything the retained snapshots lead to, and the part of it a set of  *)
(* snapshots cannot be read without.                                       *)
Live == Reach(meta.snaps)
Needed(snaps) == Reach(snaps) \ {DataObj(f) : f \in DataFiles \ Alive(ManifestsOf(snaps))}

CurrentManifests == IF meta.current = NoSnap THEN {} ELSE lists[meta.current]

PreparedCommit == [snap : Snaps, base : 0..MaxVersion, add : SUBSET DataFiles]
NoCommit == [snap |-> NoSnap, base |-> 0, add |-> {}]

-----------------------------------------------------------------------------
TableInit ==
    /\ clock = 1
    /\ store = {MetadataObj(0)}
    /\ mtime = [o \in Objects |-> IF o = MetadataObj(0) THEN 1 ELSE 0]
    /\ meta = [version |-> 0, current |-> NoSnap, snaps |-> {}]
    /\ lists = [s \in Snaps |-> {}]
    /\ entries = [s \in Snaps |-> {}]
    /\ removed = [s \in Snaps |-> {}]
    /\ prep = NoCommit
    /\ inflight = {}
    /\ garbage = {}

(* A job finishes writing a data file under a fresh name.                  *)
WriteData(f) ==
    /\ mtime[DataObj(f)] = 0
    /\ mtime' = [mtime EXCEPT ![DataObj(f)] = clock]
    /\ store' = store \cup {DataObj(f)}
    /\ inflight' = inflight \cup {f}
    /\ UNCHANGED <<clock, meta, lists, entries, removed, prep, garbage>>

(* A file may still be committed while it is no older than MaxCommit.      *)
Fresh(o) == clock - mtime[o] <= MaxCommit

(* The committer writes the manifest and the manifest list of the next     *)
(* snapshot: the manifests in carry are referenced again, the live files   *)
(* of the others are listed anew, those in drop as deleted.                *)
Prepare(s, add, drop, carry) ==
    LET rewritten == Alive(CurrentManifests \ carry) IN
    /\ prep = NoCommit
    /\ mtime[ListObj(s)] = 0
    /\ \A r \in Snaps : r < s => mtime[ListObj(r)] # 0
    /\ add # {} \/ rewritten # {}
    /\ drop \subseteq rewritten
    /\ \A f \in add : Fresh(DataObj(f))
    /\ mtime' = [mtime EXCEPT ![ListObj(s)] = clock, ![ManifestObj(s)] = clock]
    /\ store' = store \cup {ListObj(s), ManifestObj(s)}
    /\ lists' = [lists EXCEPT ![s] = carry \cup {s}]
    /\ entries' = [entries EXCEPT ![s] = add \cup rewritten]
    /\ removed' = [removed EXCEPT ![s] = drop]
    /\ prep' = [snap |-> s, base |-> meta.version, add |-> add]
    /\ UNCHANGED <<clock, meta, inflight, garbage>>

(* The pointer moves to a new metadata file.                               *)
Publish(current, snaps) ==
    LET v == meta.version + 1 IN
    /\ v <= MaxVersion
    /\ meta' = [version |-> v, current |-> current, snaps |-> snaps]
    /\ store' = store \cup {MetadataObj(v)}
    /\ mtime' = [mtime EXCEPT ![MetadataObj(v)] = clock]

(* The compare-and-swap of a commit: it succeeds only on the version the   *)
(* commit was prepared against.                                            *)
Commit ==
    /\ prep # NoCommit
    /\ prep.base = meta.version
    /\ Fresh(ListObj(prep.snap)) /\ Fresh(ManifestObj(prep.snap))
    /\ \A f \in prep.add : Fresh(DataObj(f))
    /\ Publish(prep.snap, meta.snaps \cup {prep.snap})
    /\ prep' = NoCommit
    /\ inflight' = inflight \ prep.add
    /\ UNCHANGED <<clock, lists, entries, removed, garbage>>

(* The commit loses its race or the job dies: its files stay behind.       *)
AbandonCommit ==
    /\ prep # NoCommit
    /\ prep' = NoCommit
    /\ UNCHANGED <<clock, store, mtime, meta, lists, entries, removed, inflight, garbage>>

(* expire_snapshots first publishes metadata without the snapshot ...      *)
ExpireSnapshot(s) ==
    /\ s \in meta.snaps \ {meta.current}
    /\ Publish(meta.current, meta.snaps \ {s})
    /\ garbage' = garbage \cup (Needed({s}) \ Needed(meta.snaps \ {s}))
    /\ UNCHANGED <<clock, lists, entries, removed, prep, inflight>>

(* ... and then deletes, one by one, what only that snapshot needed.       *)
DeleteFile(o) ==
    /\ o \in garbage
    /\ store' = store \ {o}
    /\ garbage' = garbage \ {o}
    /\ UNCHANGED <<clock, mtime, meta, lists, entries, removed, prep, inflight>>

Writers ==
    \/ \E f \in DataFiles : WriteData(f)
    \/ \E s \in Snaps, add \in SUBSET inflight, drop \in SUBSET Alive(CurrentManifests),
          carry \in SUBSET CurrentManifests : Prepare(s, add, drop, carry)
    \/ Commit
    \/ AbandonCommit
    \/ \E s \in Snaps : ExpireSnapshot(s)
    \/ \E o \in garbage : DeleteFile(o)

Tick ==
    /\ clock < MaxClock
    /\ clock' = clock + 1
    /\ UNCHANGED <<store, mtime, meta, lists, entries, removed, prep, inflight, garbage>>

TableTypeOK ==
    /\ clock \in 1..MaxClock
    /\ store \in SUBSET Objects
    /\ mtime \in [Objects -> 0..MaxClock]
    /\ meta \in TableMetadata
    /\ lists \in [Snaps -> SUBSET Snaps]
    /\ entries \in [Snaps -> SUBSET DataFiles]
    /\ removed \in [Snaps -> SUBSET DataFiles]
    /\ prep \in PreparedCommit \cup {NoCommit}
    /\ inflight \in SUBSET DataFiles
    /\ garbage \in SUBSET Objects
-----------------------------------------------------------------------------
(* What the writers rely on among themselves and the readers on them, part *)
(* by part: TableInv is inductive.                                         *)

(* Snapshot ids are handed out once: one whose manifest list was never     *)
(* written occurs nowhere, and one being committed is not retained yet.    *)
IdsAreFresh ==
    /\ \A s \in Snaps : mtime[ListObj(s)] = 0 =>
         /\ mtime[ManifestObj(s)] = 0
         /\ s \notin meta.snaps /\ s # prep.snap
         /\ \A r \in Snaps : s \notin lists[r]
    /\ prep.snap \notin meta.snaps
    /\ meta.current # NoSnap => meta.current \in meta.snaps

(* What manifests name, storage holds or expiry deletes was written once.  *)
(* A file that waits for its commit is in storage and in no manifest of    *)
(* the table.                                                              *)
FilesAreFresh ==
    /\ \A o \in store \cup garbage : mtime[o] # 0
    /\ \A m \in Snaps : \A f \in entries[m] : mtime[DataObj(f)] # 0
    /\ \A f \in inflight :
         /\ DataObj(f) \in store \ garbage
         /\ f \notin Named(ManifestsOf(meta.snaps))

(* Expiry leaves alone whatever the retained snapshots are read by.        *)
NeededIsStored ==
    /\ Needed(meta.snaps) \subseteq store \ garbage
    /\ \A v \in 0..meta.version : MetadataObj(v) \in store
    /\ \A v \in 0..MaxVersion : MetadataObj(v) \notin garbage

(* A commit that can still succeed brings files of its own and otherwise   *)
(* only what the current snapshot has.                                     *)
CommitBringsItsOwn ==
    /\ prep.base <= meta.version /\ prep.add \subseteq inflight
    /\ prep # NoCommit /\ prep.base = meta.version =>
         /\ lists[prep.snap] \subseteq CurrentManifests \cup {prep.snap}
         /\ Named(lists[prep.snap]) \subseteq Named(CurrentManifests) \cup prep.add
         /\ Alive(lists[prep.snap]) \subseteq Alive(CurrentManifests) \cup prep.add
         /\ {ListObj(prep.snap), ManifestObj(prep.snap)} \subseteq store \ garbage

(* No two manifests of one snapshot have a live file in common.            *)
ManifestsAreDisjoint ==
    \A s \in Snaps : \A m, n \in lists[s] :
        m # n => (entries[m] \ removed[m]) \cap (entries[n] \ removed[n]) = {}

TableInv ==
    /\ TableTypeOK
    /\ IdsAreFresh
    /\ FilesAreFresh
    /\ NeededIsStored
    /\ CommitBringsItsOwn
    /\ ManifestsAreDisjoint
=============================================================================
