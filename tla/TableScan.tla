----------------------------- MODULE TableScan ------------------------------
(***************************************************************************)
(* scan.Engine.Scan (internal/scan/scan.go), the walk behind audit, export *)
(* and bench: load the pointer, read that metadata file, pick a snapshot,  *)
(* read its manifest list and then each manifest, counting entries.  Each  *)
(* Open is one action; commits, expiry and time move between any two.      *)
(***************************************************************************)
EXTENDS IcebergTable, Sequences, FiniteSetsExt

CONSTANTS
    DeleteFiles,  \* the files that hold position or equality deletes
    Skew,         \* how far the scanner's clock is behind the writers'
    Nothing,      \* no report yet
    NoReport      \* the scan returned an error

ASSUME TableScanAssumption ==
    /\ DeleteFiles \subseteq DataFiles
    /\ Skew \in Int

VARIABLES
    useBranch,   \* opts.Branch is given
    branch,      \* refs[--branch] of the table, NoSnap when there is none
    phase,       \* "idle", "loaded", "list", "manifests", "done", "missing", "failed"
    locked,      \* md: the metadata the whole scan works from
    lockedRef,   \* md.Refs[--branch]
    now,         \* e.Now() of collectStats
    pending,     \* manifests still to read
    stats        \* what was counted so far

scanVars == <<useBranch, phase, locked, lockedRef, now, pending, stats>>
vars == <<tableVars, branch, scanVars>>

-----------------------------------------------------------------------------
(* Helpers.  A definition preceded by a variant of its name: the variant   *)
(* is a slip that a property below would notice, and no action uses it.    *)

ResolveSnapshot(md, ref) ==
    LET target == IF useBranch THEN ref ELSE md.current
    IN  IF target \in md.snaps THEN target ELSE NoSnap

TargetNow == ResolveSnapshot(meta, branch)
Target == ResolveSnapshot(locked, lockedRef)

Counted(m) == entries[m] \ removed[m]

ManifestsOfAll == ManifestsOf(locked.snaps)
ManifestsToRead == lists[Target]

(* The age of a snapshot by the scanner's clock.                           *)
AgeUnclamped(s) == clock - Skew - mtime[ListObj(s)]
Age(s) == Max({clock - Skew - mtime[ListObj(s)], 0})

(* The order in which a metadata file lists its snapshots: any.            *)
Orders(snaps) ==
    {order \in [1..Cardinality(snaps) -> snaps] :
        \A s \in snaps : \E k \in DOMAIN order : order[k] = s}

(* The loop over md.Snapshots.  The best age so far is 0 also when there   *)
(* is none yet.                                                            *)
OldestAge(order) ==
    LET best[k \in 0..Len(order)] ==
          IF k = 0 THEN 0
          ELSE IF best[k - 1] = 0 \/ Age(order[k]) > best[k - 1] THEN Age(order[k])
          ELSE best[k - 1]
    IN  best[Len(order)]
NewestAgeUnset(order) ==
    LET best[k \in 0..Len(order)] ==
          IF k = 0 THEN 0
          ELSE IF Age(order[k]) < best[k - 1] THEN Age(order[k])
          ELSE best[k - 1]
    IN  best[Len(order)]
NewestAge(order) ==
    LET best[k \in 0..Len(order)] ==
          IF k = 0 THEN 0
          ELSE IF best[k - 1] = 0 \/ Age(order[k]) < best[k - 1] THEN Age(order[k])
          ELSE best[k - 1]
    IN  best[Len(order)]

NoStats == [snap |-> NoSnap, snapshots |-> 0, oldest |-> 0, newest |-> 0,
            manifests |-> 0, data |-> 0, deletes |-> 0]

-----------------------------------------------------------------------------
Init ==
    /\ TableInit
    /\ useBranch \in BOOLEAN
    /\ branch = NoSnap
    /\ phase = "idle"
    /\ locked = meta
    /\ lockedRef = NoSnap
    /\ now = 0
    /\ pending = {}
    /\ stats = NoStats

LoadTable ==
    /\ phase = "idle"
    /\ phase' = "loaded"
    /\ locked' = meta
    /\ lockedRef' = branch
    /\ UNCHANGED <<tableVars, useBranch, branch, now, pending, stats>>

(* readMetadata and the head of collectStats: ages by the clock as it is   *)
(* now, then the snapshot to scan.  Without one, that is the whole report. *)
ReadMetadata ==
    /\ phase = "loaded"
    /\ MetadataObj(locked.version) \in store
    /\ phase' = IF Target = NoSnap THEN "done" ELSE "list"
    /\ now' = clock - Skew
    /\ \E order \in Orders(locked.snaps) :
         stats' = [stats EXCEPT !.snap = Target,
                                !.snapshots = Cardinality(locked.snaps),
                                !.oldest = OldestAge(order),
                                !.newest = NewestAge(order)]
    /\ UNCHANGED <<tableVars, useBranch, branch, locked, lockedRef, pending>>

(* loadManifests.                                                          *)
ReadList ==
    /\ phase = "list"
    /\ ListObj(Target) \in store
    /\ phase' = "manifests"
    /\ pending' = ManifestsToRead
    /\ stats' = [stats EXCEPT !.manifests = Cardinality(ManifestsToRead)]
    /\ UNCHANGED <<tableVars, useBranch, branch, locked, lockedRef, now>>

(* scanManifest: entries recorded as deleted are skipped.                  *)
ReadManifest(m) ==
    /\ phase = "manifests"
    /\ m \in pending
    /\ ManifestObj(m) \in store
    /\ pending' = pending \ {m}
    /\ stats' = [stats EXCEPT !.data = @ + Cardinality(Counted(m) \ DeleteFiles),
                              !.deletes = @ + Cardinality(Counted(m) \cap DeleteFiles)]
    /\ UNCHANGED <<tableVars, useBranch, branch, phase, locked, lockedRef, now>>

Finish ==
    /\ phase = "manifests"
    /\ pending = {}
    /\ phase' = "done"
    /\ UNCHANGED <<tableVars, useBranch, branch, locked, lockedRef, now, pending, stats>>

(* The object to open next, one at a time.                                 *)
Wanted ==
    CASE phase = "loaded" -> {MetadataObj(locked.version)}
      [] phase = "list" -> {ListObj(Target)}
      [] phase = "manifests" -> {ManifestObj(m) : m \in pending}
      [] OTHER -> {}

(* Open finds no such object: the scan returns the error and no report.    *)
OpenMissing ==
    /\ \E o \in Wanted : o \notin store
    /\ phase' = "missing"
    /\ stats' = NoStats
    /\ UNCHANGED <<tableVars, useBranch, branch, locked, lockedRef, now, pending>>

(* Any other error of the catalog, the storage or a decoder.               *)
ScanError ==
    /\ phase \in {"loaded", "list", "manifests"}
    /\ phase' = "failed"
    /\ stats' = NoStats
    /\ UNCHANGED <<tableVars, useBranch, branch, locked, lockedRef, now, pending>>

Scanner ==
    \/ LoadTable
    \/ ReadMetadata
    \/ ReadList
    \/ \E m \in Snaps : ReadManifest(m)
    \/ Finish
    \/ OpenMissing
    \/ ScanError

(* External: the branch is created or moved; expiry keeps its snapshot.    *)
SetBranch(s) ==
    /\ s \in meta.snaps
    /\ branch' = s
    /\ Publish(meta.current, meta.snaps)
    /\ UNCHANGED <<clock, lists, entries, removed, prep, inflight, garbage>>

TableChanges ==
    \/ Writers /\ branch \notin meta.snaps \ meta'.snaps /\ UNCHANGED branch
    \/ \E s \in Snaps : SetBranch(s)

Next ==
    \/ TableChanges /\ UNCHANGED scanVars
    \/ Tick /\ UNCHANGED <<branch, scanVars>>
    \/ Scanner

Spec == Init /\ [][Next]_vars

-----------------------------------------------------------------------------
(* Properties                                                              *)

(* Every variable keeps its type; in particular no age is negative.        *)
TypeOK ==
    /\ TableTypeOK
    /\ useBranch \in BOOLEAN
    /\ branch \in 0..MaxSnap
    /\ phase \in {"idle", "loaded", "list", "manifests", "done", "missing", "failed"}
    /\ locked \in TableMetadata
    /\ lockedRef \in 0..MaxSnap
    /\ now \in (1 - Skew)..(MaxClock - Skew) \cup {0}
    /\ pending \in SUBSET Snaps
    /\ stats \in [snap : 0..MaxSnap, snapshots : Nat, oldest : Nat, newest : Nat,
                  manifests : Nat, data : Nat, deletes : Nat]

(* A snapshot in figures: every file that belongs to it, once.             *)
Figures(s) ==
    LET manifests == IF s = NoSnap THEN {} ELSE lists[s]
    IN  [snap |-> s,
         manifests |-> Cardinality(manifests),
         data |-> Cardinality(Alive(manifests) \ DeleteFiles),
         deletes |-> Cardinality(Alive(manifests) \cap DeleteFiles)]
Reported == [snap |-> stats.snap, manifests |-> stats.manifests,
             data |-> stats.data, deletes |-> stats.deletes]

(* The ages in a report, whichever way the file lists the snapshots and    *)
(* the clocks disagree: the oldest is the oldest; the newest is the age of *)
(* some snapshot, and the least unless one was written now or later by the *)
(* scanner's clock, whose age of 0 counts as none at scan.go:94.           *)
AgesOf(snaps) == {Max({now - mtime[ListObj(s)], 0}) : s \in snaps}
AgesAreExtreme ==
    phase = "done" /\ locked.snaps # {} =>
        LET ages == AgesOf(locked.snaps)
        IN  /\ stats.oldest = Max(ages)
            /\ stats.newest \in ages
            /\ 0 \notin ages => stats.newest = Min(ages)

(* Open finds something missing only when the scanned snapshot has been    *)
(* expired since the lock: expiring any other leaves the scan undisturbed. *)
MissingMeansExpired == phase = "missing" => Target \notin meta.snaps

(* README.md:384: every scan locks to a snapshot at start; commits in      *)
(* flight are invisible.  The report is what the table was at one instant. *)
Views == [snap : 0..MaxSnap, manifests : Nat, data : Nat, deletes : Nat]
ASSUME ReportAssumption ==
    Nothing # NoReport /\ Nothing \notin Views /\ NoReport \notin Views
Report ==
    CASE phase = "done" -> Reported
      [] phase \in {"missing", "failed"} -> NoReport
      [] OTHER -> Nothing
Lock == INSTANCE PointInTime WITH
    None <- Nothing,
    Failed <- NoReport,
    table <- Figures(ResolveSnapshot(meta, branch)),
    locked <- IF phase = "idle" THEN Nothing ELSE Figures(Target),
    report <- Report
IsPointInTime == Lock!Spec
=============================================================================
