# Formal models of iceberg-sentry

TLA+ specifications of iceberg-sentry, the configurations that check them with
TLC on small instances, and proofs, checked with TLAPS, of what matters most
for instances of any size. Everything is translated from the code under `src/`;
what is outside it (the engines that write the table, catalog and token servers,
scrapers) is modelled from how the code uses it and called external in the
modules. `PROJECT.json` gives, for every definition, the lines of code it stands
for, and lists the hazards the properties are aimed at.

1. [The system](#1-the-system)
2. [Modules and code](#2-modules-and-code)
3. [What the runs show](#3-what-the-runs-show)
4. [What is proved](#4-what-is-proved)
5. [Environment, fairness and bounds](#5-environment-fairness-and-bounds)
6. [Divergences between code and documentation](#6-divergences-between-code-and-documentation)
7. [What is not modelled](#7-what-is-not-modelled)
8. [Plan](#8-plan)

## 1. The system

iceberg-sentry is a command-line program that reads the metadata of Apache
Iceberg tables, and sometimes a sample of the data, while other engines go on
writing them. It takes no lock and writes nothing to the table. Each command is
one process that ends with a report and an exit code; `export` alone stays up.

| Component | State it keeps | Operations | What makes it correct |
| --- | --- | --- | --- |
| Orphan scan (`internal/orphans`, `cli/orphans.go`) | locked metadata, active set, cutoff, totals, capped list | load, walk lists and manifests, list the prefix | a file the table needs is never reported; an old orphan is never missed |
| Bloom filter (`internal/bloom`) | bits | size, add, test | what was added is found |
| Scan engine (`internal/scan`) | locked metadata, running figures | load, resolve snapshot or branch, read list and manifests | the report is the table at one instant; each file counts once |
| audit (`cli/audit.go`) | worst code, reports | setup, list, apply policy, scan, emit, push, Atlas | the exit code can be trusted by CI |
| Policy (`internal/policy`) | list of policies | match, apply | a table is judged by its own policy |
| Health score (`internal/health`) | none | six dimensions, sum, worst severity | neglect never pays; skew is seen |
| Write pattern (`internal/writepattern`) | none | sort, cut, intervals, median, CV | bursty is mixed; steady gets its name |
| export (`cli/export.go`) | body, time, error under an RWMutex; ticker; context | first scan, loop, handlers, shutdown | a 200 is a whole scan; scanning survives failures; cancelling ends it |
| Glue and REST (`internal/catalog`) | page token, result | list page by page, load one by one | every Iceberg table, and only those; "not found" means dropped |
| Hive (`internal/catalog/hive`) | what is decoded of one reply | dial, send, decode item by item | the stream stays aligned; half a reply is an error |
| REST token (`internal/catalog/rest`) | cached token, expiry, mutex | wait, check, fetch, store, send | no expired token is sent; an old one never displaces a new one; every call gets past the mutex |
| localfs catalog (`internal/catalog/localfs.go`) | none; a directory tree | walk, load the last metadata file | the newest version |
| pii (`cli/pii.go`, `internal/pii`) | files collected, tally | collect, sample one by one, detect, report | only the locked snapshot; within the limits, the verdict is that of all its values |
| migration (`cli/migration.go`, `internal/migration`) | findings, counts, worst code | metadata findings, sweep of manifests, risk | a complete sweep gives the exact report and risk |
| cost (`cli/cost.go`, `internal/cost`) | running sum | sort, accumulate | the timeline invents no bytes |
| bench (`cli/bench.go`) | one baseline file per table and tag | start, compare | a delta is against a whole baseline of that table and tag |
| Renderers, storage protocols, CLI shell | — | — | section 7 |

How they interact: a command builds a catalog and a storage resolver; the
catalog yields the pointer to one metadata file; from there on everything is
read from storage, object by object. The only state that goroutines share in the
shipped commands is `exporterState`. The cached token is guarded by a mutex for
callers that nobody starts yet: each command uses its catalog from one goroutine,
and `export` builds a new catalog for each pass. The only state shared between
processes is the baseline file of `bench`. The table is shared with everybody else.

What is hard, therefore, is not concurrency inside the program but what happens
between two of its reads: a commit, a rewrite of manifests, an expiry that
deletes the object to be opened next, a file that becomes live after the active
set was built, a table created between two pages of a listing. Besides that:
partial failure (one table of several, one file of several, delivery after the
scans), replies that break off or hold what nobody expected, retained state (token, baseline file, last body), and numerical edges
(zero as "unknown", twelve Newton steps, lexical order of numbers).

## 2. Modules and code

| Module | Models | Builds on |
| --- | --- | --- |
| `IcebergTable` | the environment: data files, manifests, lists, metadata versions; optimistic commits, rewrites, expiry, deletion, time | — |
| `IcebergTableProofs` | what the writers keep true, for all readers' proofs | `IcebergTable`, TLAPS |
| `OrphanScan` | `orphans.Scan` and `runOrphans` | `IcebergTable` |
| `OrphanScanProofs` | theorems about it and about the filter it uses | `OrphanScan`, `BloomFilter`, `IcebergTableProofs`, TLAPS |
| `BloomFilter`, `ApproxSet` | `bloom.go`, and the set it approximates | `BloomFilter` implements `ApproxSet` |
| `TableScan`, `PointInTime` | `scan.Engine.Scan`, and the promise of one instant | `IcebergTable`; `TableScan` implements `PointInTime` |
| `TableScanProofs` | theorems about it | `TableScan`, `IcebergTableProofs`, TLAPS |
| `AuditRun` | `runAudit`, policies, exit codes | a scan is one step |
| `AuditRunProofs` | theorems about it | `AuditRun`, TLAPS |
| `HealthScore`, `WritePattern`, `NewtonRoot` | `score.go`, `classifier.go` and the approximate square root both use | — |
| `CostTimeline` | `cost.Timeline` | — |
| `Assessments` | what is computed from the figures of one table | the sum of `WritePattern`, `HealthScore`, `CostTimeline` |
| `AssessmentsProofs` | theorems about all three | `Assessments`, TLAPS |
| `Exporter` | `runExport`, `exporterState`, the handlers | a scan is one read per table |
| `ExporterProofs` | theorems about it | `Exporter`, TLAPS |
| `CatalogListing`, `LocalFSCatalog`, `HiveCatalog`, `Catalogs` | `ListTables` and `LoadTable` of Glue and REST; the localfs catalog; the Hive client and its decoder; `buildCatalogFromAudit`, which selects one | `Catalogs` is the sum of the three |
| `OAuthToken` | `ensureOAuthToken` and its use in `do` | — |
| `CatalogsProofs` | theorems about the catalogs and the token | `Catalogs`, `OAuthToken`, TLAPS |
| `SnapshotWalk` | what `pii`, `migration` and `cost` do alike: load, read the metadata, follow the current snapshot | `IcebergTable` |
| `PIIScan` | `runPII`: collection, sampling, detection, aggregation | `SnapshotWalk` |
| `MigrationAudit` | `runMigration` and `migration.Audit` | `SnapshotWalk` |
| `Commands` | one run of one of the three commands among writers | `PIIScan`, `MigrationAudit` |
| `Bench` | `bench start`, `bench compare`, the baseline file | — |
| `CommandsProofs` | theorems about `pii`, `migration` and `bench` | `Commands`, `Bench`, `IcebergTableProofs`, TLAPS |

`MC...` modules and `.cfg` files of the same name are the instances for TLC.

Conventions. State variables carry the names of the code where there is one
(`active`, `candidates`, `worst`, `reports`, `token`); *history* variables, which
only properties read, say so in their comment. One action is one step between
two points where somebody else can move: one `Open`, one page, one table, one
`os.WriteFile` in its two halves (truncate, write). Every error return is an
action or a disjunct. Where a helper is preceded by a variant of its name
(`RecentFromCutoff` before `Recent`), the variant is a slip the code could contain and a
property notices; no action uses it.

Some correspondences worth spelling out:

- `OrphanScan!IsMetadataPath` is about names, as the code is: `NamedMetadata` is
  the set of objects whose names say metadata, whatever they are. `Timeless` are
  those for which `List` has no modification time.
- `TableScan!OldestAge` and `NewestAge` go through the snapshots in the order of
  the file (`Orders`), which need not be that of their timestamps, and take an
  age of 0 for "none yet", as `scan.go:86-97` does.
- `OrphanScan!BeginList` reads the clock *after* the walk, as `orphans.go:82`
  does, so that `scannedAt` and `loadedAt` are different instants.
- `orphans.go:116` appends while the list is shorter than `--preview`, or always
  when that is 0. A negative number therefore lists nothing and still counts:
  `PreviewLimit` in `NoOrphanMissed`.
- `OrphanScan!Visit` decides by the exact set; the Bloom filter only shortens
  the way there (`orphans.go:98-105`), which is why `OrphanScan` does not
  mention it and `BloomFilter` is a module of its own.
- `IcebergTable!Prepare` lets a commit carry manifests over, rewrite them, or
  record files as deleted in the rewritten ones. A deleted file stays named in
  the manifest; `TableScan!Counted` and `SnapshotWalk!Present` skip it,
  `OrphanScan!WalkManifest` does not, as in the code.
- `Exporter`: the loop and the first scan are one set of actions with two
  continuations (`AfterScan`, `AfterFailure`); `state` is replaced as a whole, as
  `exporterState.set` does under its mutex, and a handler holds a copy.
- `Exporter!ServeFails` is a listener that breaks after it was bound.
- `Bench!Open` and `Bench!Write` are the two effects of `os.WriteFile`;
  `ShortWrite` is a full disk, `Fail` a kill at any other point. `compare` opens,
  reads and decodes in steps of their own (`CompareOpen`, `CompareRead`,
  `CompareDecode`), and what it reads may be part of one content and part of another.
- `LocalFSCatalog!Walk` lists a directory with `metadata/` in it, with or without
  a metadata file.
- `AuditRun!WriteAtlas`: the error of a payload file is an exit code, that of a
  payload printed to standard output (`--atlas-output -`) is dropped.
- `Catalogs!Init` chooses the catalog as `--catalog` does: when localfs is
  chosen no server holds a table, so the instance is a sum and not a product.
- `HiveCatalog` decodes as the code does, by recursive descent, but with the
  stack of active readers as a variable (`todo`): each action takes the next item
  of the reply (`wire`) and leaves readers in place of the innermost one. What an
  item *is* and what the reader *reads* are compared by `ReplyUnderstood` and by
  no guard, so a decoder out of step is seen. The library's `Skip` is external.
- `PIIScan!Cells` names a value by its row group and its row, and the counters
  of the aggregator are numbers of cells: what `Record` adds file by file is
  compared with what the whole snapshot holds. `Read` passes over nulls and stops
  at `--rows-per-group` values of a column, as `sample.go:92-112` does.
- `PIIScan!Detect` takes a value as what the expressions, the Luhn sum and the
  entropy say of it, and models what the code makes of that: validation,
  suppression of types that look like a card, and the entropy of what is left.
- Some files of a table hold deletes (`DeleteFiles`): `migration` counts them with
  the data files, `pii` leaves them out (`PIIScan!Sampled`), `scan` counts them apart.
- `MigrationAudit`: each error the sweep drops is an action (`SwallowList`,
  `SkipManifest`, `SweepBreaks`), noted in the history variable `swallowed`. The
  limit of 256 manifests is a parameter; 1 and 2 are checked.
- `Commands!Step` keeps the variables of the commands that do not run unchanged,
  and `Init` gives them one value, so that this instance is a sum as well.
- `OAuthToken`: `wait` is a goroutine at `oauthMu.Lock()`; `TakeCached` and
  `StartFetch` are the two ways on from there.
- Times and sizes are in coarse units. `NewtonRoot` nevertheless starts from
  half of the variance *in the code's unit*, since the result of twelve steps
  depends on it. It divides all that the loop holds by the mean, which leaves the
  steps as they are, and replaces double precision by fixed point, fourteen binary
  digits after the point. A variance other than zero thus takes its twelve steps,
  however small the spread.

## 3. What the runs show

All passing runs together fire every action. `Assessments` is about pure functions
of a state that the environment sets: its properties are about the functions, and
it has no type invariant apart from them. Deadlock is not checked: a command ends, and bounded
writers and histories run out of moves.

| Run | Instance | Properties | Distinct states |
| --- | --- | --- | --- |
| `MCOrphanScan` | 2 data files, 2 snapshots, 3 versions, 4 instants; walk and commit of one instant each, the default grace of 3; the data directory; one of the files listed without a time | `TypeOK`, `LiveNeverFlagged`, `SnapshotLocked`, `NoOrphanMissed` | 2.92 M |
| `MCOrphanSlowWalk` | the same with one file, the whole table directory and a walk of up to 3 instants against a grace of 2 | `ConcurrentFilesExcluded`, violated | — |
| `MCBloomFilter` | four keys, two words of four bits, digests that collide and wrap | `BloomTypeOK`, `NoFalseNegatives`, `IsApproxSet` | 443 |
| `MCTableScan` | 2 files, one of them of deletes, 2 snapshots, 3 versions, clocks one apart, snapshots in any order in the file, with and without `--branch` | `TypeOK`, `AgesAreExtreme`, `MissingMeansExpired`, `IsPointInTime` | 1.16 M |
| `MCAuditRun` | 2 tables; every command line (Atlas payload to a file, to standard output, or none), and every pair of policies | `TypeOK`, `ExitCodeIsHonest`, `OwnPolicyOnly` | 185 k |
| `MCExporter` | 2 tables, 1 scraper, 2 scans told apart by their time | `TypeOK`, `RepliesAreWholeScans`, `RepliesNeverGoBack`, `ChangesAreExported`, `KeepsScanning`, `CancelEnds` | 86 k |
| `MCCatalogs` | 3 names, pages of 0 to 2, one change, loads of what was listed; 3 directories, with `metadata/` or not, and versions 8 to 10; Hive replies with two spellings of the location, three values, unknown fields of five types before and after what is looked for, and a break after any item | `TypeOK`, `ListingIsExact`, `NotFoundMeansDropped`, `HighestNumbered`, `ReplyUnderstood` | 167 k |
| `MCOAuthToken` | 2 callers, 3 tokens, a latency of 1, a margin of 2, lifetimes within and beyond the margin, stated or not | `TokenTypeOK`, `SentTokenIsLive`, `NewestWins`, `CallsReturn` | 232 k |
| `MCAssessments` | 5 commits at 7 intervals, a window of 4; figures 0 to 2 around thresholds 1 and 2, 6 partition layouts, 3 policies; 3 commits of 0 to 2 bytes, in and out of order, with rollback and expiry | `PatternFitsHistory`, `OnlyTheWindowCounts`, `SkewNeverMissed`, `NoGainFromNeglect`, `NoBytesInvented` | 99 k |
| `MCCommands` | 2 data files of 2 and 1 row groups, one of them on HDFS, and a delete file; values, nulls, a hit rate of exactly the confidence; 2 snapshots, 3 versions; `--max-files` 1 and 2, rows per group 2 and 3, exhaustive and not; 4 layouts, limits 1 and 2 | `TypeOK`, `OneSnapshotSampled`, `ExhaustiveIsExact`, `ReportIsExact` | 1.32 M |
| `MCMigration` | the same with a limit that is not reached | `ZeroIsClean`, violated | — |
| `MCBench` | 3 jobs, 2 tables, 2 tags | `BenchTypeOK`, `DeltaOfACapture` | 144 k |

What they say, in the order of importance:

- **Nothing needed is reported as an orphan** (`LiveNeverFlagged`), at the moment
  of the report or at any later one, provided that the manifest walk and the
  longest write-to-commit time fit together in the grace period, that metadata and
  listing spell URIs alike, and that the listing knows when the object was written:
  one without a modification time is reported whatever its age (section 6).
  `MCOrphanSlowWalk` shows that the condition is needed: the cutoff is computed
  after the walk, so a walk longer than the grace period lets a freshly committed
  file count as old. The converse, `NoOrphanMissed`, is about data files: an old one that nothing
  refers to is counted, unless its name says metadata.
- **One instant per report** (`IsPointInTime`): whatever is committed, rewritten
  or expired during the walk, `scan.Engine` reports the figures the table had
  when its pointer was loaded, each file once, or an error; and an object can only be missing
  after the scanned snapshot itself was expired (`MissingMeansExpired`). The age of the
  oldest snapshot is exact; the newest age is, too, unless a snapshot is from the
  future of the scanning clock (`AgesAreExtreme`).
- **Exit codes** of `audit`: 0 means that every listed table was scanned, none
  reached `--fail-on`, and the reports are where they were to go; 1 and 2 mean
  that everything was scanned and delivered and name the worst severity. A
  payload file of `--atlas-output` is part of that; a payload printed to standard
  output is not, since a failed print goes unnoticed.
- **export** never serves a half scan, never goes back in time, goes on after
  failed scans, and ends when its context is cancelled or its listener breaks, at
  whatever stage.
- **Tokens**: no request carries an expired token, if answers take no longer than
  the 30 s margin, tokens live longer than answers take, and one whose lifetime the server does not
  state lives at least the hour that is assumed. For callers that share a catalog,
  which the shipped commands do not have yet: since the mutex is held
  across the request, a late answer cannot displace a newer token. A caller that
  waits for the mutex gets past it, whatever becomes of the requests of others.
- **Catalogs**: between pages tables may come and go; what was there throughout
  is listed, and nothing that never was an Iceberg table. The former is claimed
  of REST for one-page answers only (section 6). A listed table that is loaded
  later is "not found" only if it was dropped. A Hive reply is understood
  whatever else is in it, and one that breaks off gives nothing half read.
- **pii** with `--row-group-fraction 1` and no warning answers for the whole
  snapshot, if its limits have room for it: no more data files than `--max-files`,
  no more values of a column in a row group than `--rows-per-group` (1024 by
  default). Then exit code 3 means that in some column the hit rate over all values
  that are not null reaches `--min-confidence`, and it is given whenever one
  exceeds it, although files are tallied one after another, and although a value is
  given its types by rules that depend on each other. At the confidence itself code
  and documentation differ (section 6), and the property leaves the case open. Of
  a table beyond the limits an exit code 0 says nothing.
- **migration**: of a sweep in which nothing was swallowed the report counts every
  live file, delete files included; LOW means no finding, a HIGH finding makes the
  risk HIGH, and one finding that is not HIGH makes it MEDIUM. Of several such
  findings code and documentation differ (section 6), and the property is silent.
  `MCMigration` shows what the condition hides: with a swallowed error a table on
  HDFS is reported LOW, with exit code 0.
- **cost**: the timeline is right for commits in order with their sizes, and too
  low, never too high, once old snapshots have expired.
- **bench**: overlapping, killed and failing jobs never make up a baseline, not
  even for a compare that reads while a start writes.

## 4. What is proved

Everything in this section holds for every value of the constants that satisfies
the assumptions named in the modules, so for any number of files, snapshots,
versions, tables, scrapers, callers and any bounds. Nearly every property needed a
stronger invariant, since it speaks of the end of a run, or of what an
observer has, and says nothing of the steps that lead there. Each strengthening
is a conjunction of named parts that TLC has checked on the instances of
section 3 as well, `HiveInv` excepted (it speaks of sequences of any length). It is called `IInv`, and the theorem that it holds `Inductive`,
or it has the name of its part of the module (`BenchInv`, `ListingInv`, `TreeInv`,
`HiveInv`, `TokenInv`, `HealthInv`, `TimelineInv`, `SnapsInv`); the properties follow from it.

| Module | Theorem | Property |
| --- | --- | --- |
| `IcebergTableProofs` | `WritersInv`, `SnapshotsAreImmutable`, `CatalogMovesForward` | what the readers' proofs rest on |
| `OrphanScanProofs` | `TypeCorrect` | `TypeOK` |
| | `WalkIsSnapshotLocked` | `SnapshotLocked` |
| | `LiveFilesAreSafe` | `LiveNeverFlagged` |
| | `FinishedScanIsComplete` | `NoOrphanMissed` |
| | `FilterTypeCorrect` | `BloomTypeOK` |
| | `AddedIsFound` | `NoFalseNegatives` |
| | `Implements` | `IsApproxSet`, the refinement of `ApproxSet` |
| `TableScanProofs` | `TypeCorrect` | `TypeOK` |
| | `ReportIsPointInTime` | `IsPointInTime`, the refinement of `PointInTime` |
| | `OnlyExpiryDisturbs` | `MissingMeansExpired` |
| | `AgesOfAReport` | `AgesAreExtreme` |
| `CommandsProofs` | `TypeCorrect` | `TypeOK` |
| | `OneSnapshotOnly` | `OneSnapshotSampled` |
| | `ExhaustiveScanIsExact` | `ExhaustiveIsExact` |
| | `MigrationReportIsExact` | `ReportIsExact` |
| | `BenchTypeCorrect` | `BenchTypeOK` |
| | `DeltaIsOfACapture` | `DeltaOfACapture` |
| `AuditRunProofs` | `TypeCorrect` | `TypeOK` |
| | `CodeSaysWhatWasFound` | `ExitCodeIsHonest` |
| | `JudgedByItsOwnPolicy` | `OwnPolicyOnly` |
| `ExporterProofs` | `TypeCorrect` | `TypeOK` |
| | `TwoHundredIsOneScan` | `RepliesAreWholeScans` |
| | `ScrapersSeeTimeAdvance` | `RepliesNeverGoBack` |
| `CatalogsProofs` | `ListingsAreExact` | `ListingIsExact` |
| | `NotFoundWasDropped` | `NotFoundMeansDropped` |
| | `LoadsHighestNumbered` | `HighestNumbered` |
| | `ReplyIsUnderstood` | `ReplyUnderstood` |
| | `CatalogsTypeCorrect` | `TypeOK` of the selected catalog |
| | `TokenTypeCorrect` | `TokenTypeOK` |
| | `SentTokensAreLive` | `SentTokenIsLive` |
| | `NewestTokenWins` | `NewestWins` |
| `AssessmentsProofs` | `NeglectNeverPays` | `NoGainFromNeglect` |
| | `NoBytesAreInvented` | `NoBytesInvented` |
| | `OldSnapshotsAreIgnored` | `OnlyTheWindowCounts` |

### The table under its writers

`TableInv` (in `IcebergTable`) is inductive under every action of the writers
(`WritersInv`). Its parts say that a snapshot not yet written occurs nowhere
(`IdsAreFresh`), that what is named, stored or waiting for deletion was written
once (`FilesAreFresh`), that expiry leaves alone what the retained snapshots are
read by (`NeededIsStored`), that a commit that can still succeed brings its own
files and otherwise what is live (`CommitBringsItsOwn`), and that the manifests
of one snapshot share no live file (`ManifestsAreDisjoint`). The last depends on
the one before it: a commit that carries manifests over would break it if the
current snapshot could change under a commit that still succeeds.

`SnapshotsAreImmutable` is the fact a walk relies on: between two reads the
list of a written snapshot, its manifests and their entries stay as they are.
`CatalogMovesForward` is the other one: a snapshot that was expired never comes
back, so "missing" is final.

### Orphan scan

`LiveFilesAreSafe` has two named assumptions: `WindowsFitGrace` (`MaxWalk +
MaxCommit < Grace`) and `SpellingsAgree` (metadata and `List` spell URIs alike once
`file://` is dropped). Each is needed; section 6 says where the
code does not ensure it. `LiveNeverFlagged` says of a counted object with a
modification time that it is not live; for it to stay so one must know that it can
never become live again.

| Conjunct of `IInv` | Why it is needed |
| --- | --- |
| `FreshIds` | a snapshot not yet prepared occurs nowhere, so preparing one disturbs nobody |
| `Written` | what is in storage was written, and not in the future |
| `CommitAddsOwnFiles` | a commit that can still succeed makes live only its own files and files that are live |
| `LateIsYoung` | hence what became live after the load was written at most `MaxCommit` before it |
| `WalkCovers`, `WalkStaysInside` | what the walk has added so far is neither less nor more than it should be; at its end they give `SnapshotLocked` |
| `CutoffInTime` | the cutoff is at most `MaxWalk` later than the load, less the grace period |
| `CountedIsOld` | what was counted is not in the active set and, if it has a modification time, older than the cutoff |

The rest is arithmetic: a counted live object with a modification time would not be in the
active set, so not among the locked references, so written no earlier than
`MaxCommit` before the load, so younger than the cutoff.

`FinishedScanIsComplete` is the converse and needs two parts more.
`OrphansCounted`: what the listing has shown is counted if it is an old orphan among the data files, and
since an object is written once, none that was deleted meanwhile comes back.
`PreviewKept`: the capped list is complete or full, at every object and for every
number given to `--preview`.

### Table scan

`ReportIsPointInTime` maps the walk to three steps of `PointInTime` (lock,
report or failure) and everything else to stutters.

| Conjunct of `IInv` | Why it is needed |
| --- | --- |
| `TableInv` | what the writers keep, see above |
| `SnapshotFound` | a list is read only of a snapshot the lock or the branch gave |
| `LockIsOld` | what was locked was published and written: no commit on its way is part of it, so `SnapshotsAreImmutable` applies |
| `CountedSoFar` | at any time the figures are the live files of the manifests already read, each once; that no file counts twice is `ManifestsAreDisjoint` |
| `AgesSoFar` | the loop of `scan.go:88-98` ends with the largest age, and with the least if none is 0 |
| `GoneIsExpired` | a missing object means that the snapshot is no longer retained, and `CatalogMovesForward` keeps it so |

The loop over the snapshots is a recursive function of the place in the file in
`TableScan`, with 0 standing for "no age yet" as well as for an age of zero, as in
the code. It is proved for every order of the file, and for clocks that disagree by any amount,
from the least place at which it could go wrong. For the oldest age the 0 does no harm: nothing is younger.
For the newest it does, which is why `AgesAreExtreme` has the condition that no
age is 0: a snapshot from the future of the scanning clock that is listed before
an older one is forgotten (section 6).

### pii and migration

| Conjunct of `IInv` | Why it is needed |
| --- | --- |
| `LockedIsWritten` | the locked snapshots are written, hence immutable |
| `WalkStaysInside` | what is pending and collected belongs to the target |
| `CollectsWhatFits` | `--max-files` drops no data file if they fit |
| `TallySoFar` | the tally is that of all cells of the files sampled so far; the next file adds cells of its own |
| `SweepCounts` | the count of `migration` is that of the live files of the manifests swept, delete files included, unless an error was swallowed |
| `RiskOfFindings` | the risk comes from all findings, and the code covers it |

`TallySoFar` holds because row groups belong to one file
(`PIIAssumption`). It is a tally of what is *read*, for any `--rows-per-group`;
`AllAreRead` says that this is everything where the groups stay within it.
`TallyDecides` turns a tally of all files into the definition
by whole columns, and `DetectIsKind` shows that the rules for types that
look like a card give what the property says they should. Finiteness of the
findings, which `Cardinality` in `Risk` needs, follows from the finitely many
snapshots and properties. `ExhaustiveScanIsExact` is thus about runs that meet the
conditions of `WholeSnapshotRead`: every row group drawn, no warning, and limits
that have room for the snapshot. Of other runs nothing is claimed.

### bench

| Conjunct of `BenchInv` | Why it is needed |
| --- | --- |
| `BenchTypes` | a file is absent, torn or whole; only a start opens and writes, only a compare reads |
| `CapturedOnly` | what a whole file holds, and what a job carries between its steps, was captured by a start: `Open` and `ShortWrite` leave nothing that decodes, `Write` leaves what was captured |
| `InItsFile` | a whole file holds the table and the tag it is named after |
| `ReadOfItsFile` | what `compare` has read so far is torn, or a captured baseline, and then of the file it was read from: a start may overwrite the file between two reads |

The first two, and that what was read was captured, hold whatever the names are
(`ComparedWasCaptured` is that half of `DeltaOfACapture`). `InItsFile` and the rest of
`ReadOfItsFile` need `NamesApart`: the file that `compare` looks for under the
table as it was typed is the one `start` writes for that table and tag. The code
does not ensure it (section 6: two tables and tags can share a file, and
`compare` uses the raw spelling), so it is a hypothesis of `DeltaIsOfACapture` and
no assumption of the module; the instance `MCBench` satisfies it.

### Listings and the localfs catalog

| Conjunct of `ListingInv` | Why it is needed |
| --- | --- |
| `OutInOrder` | the names listed so far ascend, end at the page token, and were Iceberg tables at some time |
| `NothingPassedBy` | a table that was there all along is listed as soon as the token is beyond it |
| `Histories` | what is there now has been there; what was there throughout is there now |

What a page adds is a recursive function of the names, one after the other;
`AppendedPage` shows, from the least name at which it could go wrong, that the list stays in
order and gains exactly the Iceberg tables of the page.

`LoadsHighestNumbered` is about the lexical order of file names. `Rank` maps a
version to where the order puts its name (`v9` after `v10`), `NamesInOrder` proves it
from the digits, and among names of equal length the rank is the
number.

### The Hive decoder

`ReplyUnderstood` compares a stack of readers with the rest of a reply. That the
next item fits the innermost reader is not inductive by itself: after it, the item
that follows has to fit the reader that is uncovered. `HiveInv` therefore says of
the whole stack what it is going to meet.

| Part | What it says |
| --- | --- |
| `Ways` | the points at which a value nobody asked for can be left: the readers that skip it and the items of it that remain, for every type a field may have |
| `Point` | the points of a reply outside such a value: before the message, between the fields of each struct, between the keys, values and names of the map and the list; and what has been decoded by then |
| `Aligned` | while a reply is read, the readers are those of a way followed by those of a point, and so are the items |
| `HiveInv` | `Aligned` while reading; before it nothing has been decoded; at the end the result is `Meaning`, or an error of an exchange that failed or broke off |

A step inside a skipped value moves along its way (`WayGoesOn`) and leaves the point
alone, whatever the point is. A step at a point (`PointIsSound`) reads one item and
leads to another point, through a way if the field was unknown, or to the result. The items of a point are
given as what is *left*, from the end of the reply backwards, so that taking one is the
head of a sequence; where the decoder stands in the map of the parameters is a number, and what it
has collected is `FirstOf` that many keys. The number of parameters and names, their values and the
spellings are arbitrary; the shape of an unknown value is, for each type, the
one of `HiveCatalog!Value`.

`HiveInv` quantifies over sequences of readers and items of any length, which TLC does not
enumerate; TLC checks what it implies, `ReplyUnderstood` and `TypeOK`.

### Health, write pattern, cost

`HealthInv` says that the figures are numbers; the rest of `NeglectNeverPays` is
that each dimension is monotone in the figure it looks at (`MoreDeletesNoBetter`,
`MoreManifestsNoBetter`, `OlderOrMoreNoBetter`) and the others do not see it, and that the worst
severity of six (`WorstIsWorst`) and their sum follow.

`TimelineInv` says of a history of commits in order that each
point is the one before it, plus and minus what its commit states (`InOrder`),
and starts from nothing unless something expired (`FromTheFirst`). The sort of the
code is unstable, so the model lets it be any order by time; in such a history there is one
(`InOrderIsSorted`), and the running sum, which is cut off at zero, stays below
what is there (`SumsFit`).

`OldSnapshotsAreIgnored` rests on a count: the number of elements *after* an
element in the sorted history tells its place from the end, each place has exactly
one element (`OneHasSoManyAfter`), and removing one that has at least `MaxWindow`
newer ones changes no smaller count (`AfterRemoval`).

### audit

`ScansSoFar` says what has been listed, scanned and reported, `WorstSoFar` that the
running code is that of the worst report or of a failure, `WrittenSoFar` which
output holds what at which step, `EndsWithWorst` that the last step keeps all of
it, and `JudgedByMatch` that a report's thresholds are what the first matching policy
makes of the defaults. First match is shown with the least index of a
matching policy. The proof needed the thresholds of a report to be typed by the
length of the policy list, which the model now says.

### export

`RepliesNeverGoBack` compares two replies to one scraper; between them lies a
handler that holds a copy while scans go on. `RecordsInOrder` therefore orders
three records at once, the last reply, what the handler holds, and the state,
and `RecordsAreWhole` says that each is one complete scan that ended before the
one in progress began. `ReadsAfterBegin` keeps the scan in progress newer than
all of them. `ServedAfterStart` excludes a handler before the first scan.

### Tokens

`SentTokensAreLive` has its condition `LatencyCovered` in its statement: the latency is within the
margin and below every lifetime, and a token whose lifetime is not stated lives at
least as long as the client assumes (`GuessIsSafe`). `IInv` says that the cached
expiry is late by at most the latency (`CacheOK`), and that the one answer on its
way carries the newest token of the server, no older than the latency allows
(`AnswerOK`); that there is only one follows from the mutex.

### Assumptions, and what is model-checked only

Assumptions on constants are named in the modules that declare them and
evaluated by TLC in every run that uses the module. They say that bounds are numbers,
that constant functions have their domains, that data files, row groups and
tables are finite, and that a row group belongs to one file; only the conditions
of `LiveFilesAreSafe`, `SentTokensAreLive` and `DeltaIsOfACapture` restrict what
the program is run on, and they are in the statements.

What stays with TLC, and why:

- Liveness: `ChangesAreExported`, `KeepsScanning` and `CancelEnds` of `Exporter`,
  `CallsReturn` of `OAuthToken`. They need fairness and `ENABLED`, which are out of
  the prover's reach.
- `PatternFitsHistory` and `SkewNeverMissed`: they compare twelve Newton steps in
  fixed point with the exact root. What the steps reach
  for *every* input is an induction over data, whose theorems take an
  operator as a parameter, which the installed provers cannot instantiate; and
  they do not come close for every input, which is why the properties are about the figures
  of a table, in bytes and milliseconds, and not about all numbers.

## 5. Environment, fairness and bounds

**Writers** follow the Iceberg format and nothing more: files are written once
under fresh names, commits swap the pointer and fail when it moved, expiry
publishes metadata first and deletes afterwards what only the expired snapshot
needed. Any of them may stop for ever at any point.

**Fairness** is assumed in two modules. In `Exporter`: weak fairness of the scan, the loop,
the main goroutine and each handler, and of the ticker. This is what the Go
scheduler and `time.Ticker` give, under one condition the code does not ensure:
calls to catalog and storage return (there is no timeout on them; the shipped
binary never cancels its context either, so `CancelEnds` speaks of `runExport`
and not of a signal). Nobody has to scrape, to change a table or to cancel.
In `OAuthToken`: strong fairness of taking the mutex, since a
waiting goroutine may be overtaken but not for ever (a Go mutex that somebody has
waited for longer than a millisecond is handed to the waiter), and weak fairness
of the rest of a call and of the exchange with the server, which has to end in an
answer or an error under the same condition as above. Nobody has to call. The
commands that end by themselves have no liveness property: each has finitely
many steps and may fail at any of them.

**Bounds.** Two snapshots and three metadata versions are the least with which a
scan can meet a commit, a rewrite that carries a manifest over, and an expiry
with deletions, all during one walk. Two data files are a live file and an
orphan, a data file and a delete file, or one with and one without a modification time. Four instants are a walk, a commit, and
the grace period. Two policies are the least for first-match order; two tables
the least for one table's policy or failure to affect another. Three names and
pages of up to two tables give a listing of several pages, empty ones among
them. A Hive struct with one unknown field before and one after what is looked
for, of each type, nested once, is enough for a reader that takes an item too few
or too many to go wrong. Three commits are the least in which one follows an
expired one and one precedes it. Versions 8 to 10 include the step from one digit to two. Three bench jobs
are two overlapping starts and a compare. `MaxPass` makes later scans of the
exporter look alike; the two before that are enough to go back from one to the
other. Intervals of ten seconds that differ by as much are the least spread with which the
Newton steps start; longer ones make them start further off. Symmetry is used for the jobs of
`MCBench`, and nowhere else.

## 6. Divergences between code and documentation

`MCOrphanSlowWalk` checks the first of these, `MCMigration` the second. The others were met while
translating; the models follow the code, and the property, constant or
assumption named keeps each from hiding something else.

| Code | What it does | What is said | In the models |
| --- | --- | --- | --- |
| `orphans.go:82` | the cutoff is computed after the walk | "A grace period (default 24h) excludes files written during concurrent jobs" (`cli/orphans.go:46`) | `WindowsFitGrace` |
| `migration/audit.go:136,145,168` | errors of list and manifests are dropped: a table on HDFS may be LOW with exit code 0 | "`0` — clean." (`site/docs/migration.html:92`) | `swallowed` in `ReportIsExact` |
| `orphans.go:95` | an unknown modification time passes as old | "files newer than this are never flagged" (`orphans.go:52`) | `Timeless`; `LiveNeverFlagged` promises nothing of such objects |
| `orphans.go:107` | an unreferenced manifest is reported, unless its name begins with `snap-` | "Don't flag metadata-side files (vN.metadata.json, manifest-list, manifests)." (`orphans.go:106`) | `NoOrphanMissed` says nothing of manifests |
| `orphans.go:235-249` | metadata is told by its name: a data file named like a manifest list is never reported, a manifest list of another name is | "paths that should never be flagged as orphans even if our active-set walk missed them" (`orphans.go:232-233`) | `NamedMetadata` is any set of objects |
| `orphans.go:127-187` | statistics files that the metadata names (`types.go:42`) are not in the active set | "files that no snapshot points at" (`cli/orphans.go:41-42`) | not modelled, section 7 |
| `scan.go:94` | an age of 0 counts as none: the newest of a future snapshot and one of age 5, listed in this order, is 5 | `NewestSnapshotAgeMs` (`health/types.go:107`) | the condition of `AgesAreExtreme` |
| `cli/orphans.go:155` | "Found %d" prints the length of the capped list | "preserving the totals" (`orphans.go:54-56`) | `candidates` and `counted` |
| `orphans.go:224` | only `file://` is dropped; `hdfs://authority/` never matches | "files that no snapshot points at" (`cli/orphans.go:41-42`) | `SpellingsAgree` |
| `bloom.go:86` | true for keys never added; absence is what is definite | 'Membership in the filter means "definitely referenced"' (`bloom.go:5-6`) | `ApproxSet` |
| `export.go:90` | serves the last background scan | "re-runs the audit on each scrape" (`metrics/prometheus.go:6-7`) | `Exporter!Get` |
| `scan.go:141` | an unknown branch gives an empty report | "falls back to current-snapshot if the branch is missing" (`scan.go:133-135`) | `TableScan!ResolveSnapshot` |
| `audit.go:162` | a failed table makes the code 5 | "--fail-on never always exits 0" (`site/docs/audit.html:159`); "The exit code is the worst severity across all tables" (`quickstart.html:98`) | `ScanFails`; `ExitCodeIsHonest` says nothing of 5 |
| `audit.go:159` | each table is locked when its turn comes | "Every command locks to a specific snapshot ID at start" (`concepts.html:98`) | `ScanTable` reads `world` then |
| `audit.go:238-240`, `pii.go:251-254` | a payload that cannot be printed to standard output goes unnoticed, and the exit code is that of the findings | "write Atlas/UC bulk-import payload [...] to this path (use - for stdout)" (`audit.go:83`); a path that cannot be written gives exit code 4 | `ExitCodeIsHonest` speaks of payload files only |
| `audit.go:137-139` | when nothing matches the code is 0 and no payload is written, not even an empty one | `audit.go:83` again | `ExitCodeIsHonest` counts no payload for no report as delivered |
| `rest.go:255-257` | a lifetime that is not stated is taken for an hour; a server that grants less gets expired tokens | — | `GuessIsSafe` |
| `rest.go:198` | `next-page-token` is dropped: tables of later pages are lost | "every Iceberg table under the namespace is scored" (`cli/audit.go:62`) | `cut` in `ListingIsExact` |
| `localfs.go:60` | lexical order: `v9` after `v10` | "the highest-numbered metadata.json" (`localfs.go:19`) | equal digits in `HighestNumbered` |
| `localfs.go:96` | a path of three names becomes an identifier that cannot be loaded | `cli/audit.go:62` again | `LocalFSCatalog!LoadTable` loads what `TableDir` finds |
| `classifier.go:181` | twelve steps overestimate the root of a variance in ms²: an hourly writer with some jitter is "mixed", and so is a writer of 25 intervals of 10 s and 24 of 0 | `concepts.html:91-92` | `Jitter` in `SteadyIsNamed`, for the differences and as the least interval |
| `score.go:263` | the same in bytes²: partitions of 100 and 104 MB are CRITICAL skew | "converges fast" (`score.go:261`), `concepts.html:134` | `SkewNeverMissed` has no converse |
| `score.go:87` | small files are those below 128 MB whatever the policy or the pattern says | `concepts.html:95,104,106`, `policy.html:71` | `Stats.small` |
| `bench.go:161` | `compare` names the file after the raw `--table`, `start` after the parsed one | `bench.go:38-40` | `IdOf`; the instance has one spelling per table |
| `bench.go:152` | `db.t_a` with tag `b` and `db.t` with tag `a_b` share a file | `site/docs/bench.html:32` | `FileName`; the instance keeps them apart |
| `migration/audit.go:200` | two MEDIUM findings are HIGH | "≥1 HIGH finding" is HIGH, "≥1 MEDIUM finding" is MEDIUM (`site/docs/migration.html:45-46`) | `Risk`; `ReportIsExact` says nothing of two |
| `migration/audit.go:149-152` | delete files are counted | "Data files" (`cli/migration.go:143`), `data_file_count` (`migration/audit.go:53`) | `ReportIsExact` counts them |
| `pii/detect.go:224` | a hit rate of exactly `--min-confidence` is a finding | "exceeds" (`detect.go:211`, `site/docs/pii.html:45`) | `Reaches` and `Exceeds` in `ExhaustiveIsExact` |
| `migration/audit.go:112` | `write.distribution-mode` is a finding whatever its value | "value 'hadoop' is HDFS-only" (`audit.go:61`) | `MetadataFindings` |
| `migration/audit.go:81` | every retained snapshot has findings of its own, also ones that are not current | one table of the codes 0, 1 and 2 (`site/docs/migration.html:88-92`), which leaves 4 and 5 out | `MetadataFindings`, `OtherCodes` |
| `hive.go:129` | tables of every kind are listed; a table that is not Iceberg then fails to load, and makes the code of the run 5 | "every Iceberg table under the namespace is scored" (`cli/audit.go:62`) | `HiveCatalog!Listing`, `Entry` |
| `thrift_client.go:242` | a parameter map that is not from strings to strings counts as no parameters at all | `hive.go:102` then asks "is it an Iceberg table?" | `ForeignPairs` |
| `cost.go:83` | the sum starts at the first retained snapshot and keeps what was rolled back | "Walks the snapshot history, summing" (`site/docs/cost.html:35`) | `spoilt` in `NoBytesInvented` |

## 7. What is not modelled

- **Manifests inline in a snapshot** (`orphans.go:174-181`, `scan.go:179-184`,
  `pii.go:205-208`, `migration/audit.go:210-216`): old v1 tables name their
  manifests in the metadata and have no manifest list. The models have tables with lists; an
  inline snapshot would be one whose list cannot be missing.
- **Statistics files**: writers of the model produce none, so nothing is claimed of
  what the orphan scan makes of them.
- **Kerberos** (`hive/kerberos.go`): the SASL handshake of the transport is the
  library's; `HiveCatalog!CallFails` stands for its failures.
- **Layout of a Thrift item** in bytes, sequence numbers, and the text of an
  exception.
- **Dollars** of `cost`, its mark for a cold tier, and `Reclaimable`, which
  nothing calls.
- **Renderers, metrics text, CLI shell**: formatting and flag declarations.
- **Storage protocols**: what `List` and `Open` return is in the models of their
  users; retries are the libraries'.
- **Decoding** of Avro, JSON, YAML and Parquet: abstracted to what is read out of
  them; a document that is rejected is an error of the scan.
- **Inputs whose effect is one step**: an `--interval` of zero makes
  `time.NewTicker` panic (`export.go:76`); of a small table the sampling seed may
  draw no row group at all (`cli/pii.go:105`, the model lets every subset be drawn).
- **Reactions the code does not have**: a token revoked before it expires is sent
  until then (`rest.go:216`), and an exchange with a Hive or OAuth server that
  never answers is waited for without a limit.
- **PII detectors**: regular expressions, the Luhn sum and the entropy are part
  of a value; what follows from them is modelled.

What the properties leave out, although the code can come to it, because the code
promises nothing there or promises it in words that it does not keep:

- the orphan scan with spellings that disagree, or a walk longer than the grace period allows;
- a torn combination of body, time and error in `exporterState`: it is one value
  under one mutex, in the code and in the model;
- a REST listing of more than one page, and metadata versions of different length;
- the overestimate of the Newton root, in the skew of partitions and in the
  pattern of commits with more spread or shorter intervals than `Steady`;
- what `cost` sums up after a rollback;
- two tables and tags of `bench` that share a file name;
- the reaction of `export` to a signal: the shipped binary never cancels the context.

## 8. Plan

The order was: the orphan scan, since what it reports is deleted by people; the
scan engine, behind four commands; the exporter and the token, where goroutines
share state; audit, listing and bench, where partial failure decides; the pure
algorithms. What is left, in this order:

1. A composition of `AuditRun` with a listing that changes under it, and of
   `Exporter` with `TableScan` in place of its one read per table.
2. The parser of policy durations.
