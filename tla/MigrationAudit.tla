--------------------------- MODULE MigrationAudit ---------------------------
(***************************************************************************)
(* The migration command (internal/cli/migration.go) and its audit of one  *)
(* table (internal/migration/audit.go): findings from the metadata, then a *)
(* sweep of the manifests of the current snapshot in which every error is  *)
(* swallowed, then a risk and an exit code.  Other tables of a namespace   *)
(* are abstracted to the worst code among them, byte totals to counts.     *)
(***************************************************************************)
EXTENDS SnapshotWalk

CONSTANTS
    Layouts,       \* where a table may lie and what it is set to
    HdfsData,      \* data files under hdfs://
    Limits         \* the values of limit considered; it is 256 in the code

Places == {"hdfs", "bare", "cloud"}   \* hdfs://..., /user/hive/..., s3://...

ASSUME MigrationAssumption ==
    /\ \A l \in Layouts :
          /\ l.location \in Places /\ l.metadata \in Places /\ l.lists \in [Snaps -> Places]
          /\ l.properties \subseteq
                {"write.metadata.path", "write.folder-storage.path", "write.distribution-mode",
                 "hadoop.use.file.transfer.scheme"}
          /\ l.version \in {1, 2}
    /\ HdfsData \subseteq DataFiles /\ Limits \subseteq Nat

VARIABLES
    layout,     \* of the table; its properties may come from the catalog
    limit,      \* manifests swept at most
    fileCount,  \* r.DataFileCount
    risk,       \* r.Risk, "none" before the report
    swallowed   \* history: an error of the sweep was dropped

migrationVars == <<layout, limit, fileCount, risk, swallowed>>

-----------------------------------------------------------------------------
(* A definition preceded by a variant of its name: the variant is a slip   *)
(* that a property below would notice, and no action uses it.              *)

(* A finding is a code and what it is about.                               *)
OfPath(place, about) ==
    CASE place = "hdfs" -> {<<"HDFS_PATH", about>>}
      [] place = "bare" -> {<<"HDFS_BARE_PATH", about>>}
      [] OTHER -> {}

(* From the metadata: every retained snapshot has its say.                 *)
MetadataFindings ==
    OfPath(layout.location, "location") \cup OfPath(layout.metadata, "metadata")
        \cup (UNION {OfPath(layout.lists[s], s) : s \in locked.snaps})
        \cup {<<"HDFS_PROPERTY", key>> : key \in layout.properties}
        \cup (IF layout.version = 1 THEN {<<"V1_UPGRADE_RECOMMENDED", "version">>} ELSE {})

(* From the sweep: once, whatever the number of files.                     *)
DataFindings(fs) == IF fs \cap HdfsData = {} THEN {} ELSE {<<"HDFS_DATA_PATH", "data">>}

High(findings) == {f \in findings : f[1] \in {"HDFS_PATH", "HDFS_DATA_PATH"}}
Medium(findings) == findings \ High(findings)

RiskByNumber(findings) ==
    IF Cardinality(findings) >= 2 THEN "HIGH"
    ELSE IF findings # {} THEN "MEDIUM" ELSE "LOW"
Risk(findings) ==
    IF High(findings) # {} \/ Cardinality(Medium(findings)) >= 2 THEN "HIGH"
    ELSE IF Medium(findings) # {} THEN "MEDIUM" ELSE "LOW"

CodeOf(r) == CASE r = "HIGH" -> 2 [] r = "MEDIUM" -> 1 [] r = "LOW" -> 0
OtherCodes == {0, 1, 2, 5}

Swept == Cardinality(TargetManifests) - Cardinality(pending)
Over == pending = {} \/ Swept >= limit

-----------------------------------------------------------------------------
MigrationInit ==
    /\ layout \in Layouts /\ limit \in Limits
    /\ fileCount = 0 /\ risk = "none" /\ swallowed = FALSE

(* The list cannot be read: no manifests, no count, and no word of it.     *)
SwallowList ==
    /\ phase = "list"
    /\ phase' = "manifests" /\ swallowed' = TRUE
    /\ UNCHANGED <<tableVars, command, locked, pending, files, exit, layout, limit, fileCount, risk>>

SweepManifest(m) ==
    /\ phase = "manifests" /\ ~Over
    /\ m \in pending /\ ManifestObj(m) \in store
    /\ pending' = pending \ {m}
    /\ files' = files \cup Present(m)
    /\ fileCount' = fileCount + Cardinality(Present(m))
    /\ UNCHANGED <<tableVars, command, phase, locked, exit, layout, limit, risk, swallowed>>

(* A manifest cannot be opened: on to the next.                            *)
SkipManifest(m) ==
    /\ phase = "manifests" /\ ~Over
    /\ m \in pending
    /\ pending' = pending \ {m} /\ swallowed' = TRUE
    /\ UNCHANGED <<tableVars, command, phase, locked, files, exit, layout, limit, fileCount, risk>>

(* A manifest breaks off while it is decoded: what was counted stays, and  *)
(* the sweep is over.                                                      *)
SweepBreaks(m) ==
    /\ phase = "manifests" /\ ~Over
    /\ m \in pending /\ ManifestObj(m) \in store
    /\ \E some \in SUBSET Present(m) :
          files' = files \cup some /\ fileCount' = fileCount + Cardinality(some)
    /\ pending' = {} /\ swallowed' = TRUE
    /\ UNCHANGED <<tableVars, command, phase, locked, exit, layout, limit, risk>>

(* The report, and the worst code of the tables, other ones included.      *)
ReportRisk ==
    /\ phase = "manifests" /\ Over
    /\ phase' = "done"
    /\ risk' = Risk(MetadataFindings \cup DataFindings(files))
    /\ \E other \in OtherCodes : exit' = Max({other, CodeOf(risk')})
    /\ UNCHANGED <<tableVars, command, locked, pending, files, layout, limit, fileCount, swallowed>>

(* The output cannot be written.                                           *)
RiskUnwritten ==
    /\ phase = "manifests" /\ Over
    /\ phase' = "done" /\ exit' = 4
    /\ UNCHANGED <<tableVars, command, locked, pending, files, migrationVars>>

MigrationStep ==
    \/ Walk /\ UNCHANGED migrationVars
    \/ SwallowList \/ ReportRisk \/ RiskUnwritten
    \/ \E m \in Snaps : SweepManifest(m) \/ SkipManifest(m) \/ SweepBreaks(m)

-----------------------------------------------------------------------------
(* Properties                                                              *)

MigrationTypeOK ==
    /\ layout \in Layouts /\ limit \in Limits /\ fileCount \in Nat
    /\ risk \in {"none", "LOW", "MEDIUM", "HIGH"} /\ swallowed \in BOOLEAN

(* Of a table whose manifests were all read, the report is that of the     *)
(* locked snapshot, whatever was committed, expired or deleted since: it   *)
(* counts each live file once, delete files included; it is LOW if and     *)
(* only if there is no finding, HIGH if one of them is, and MEDIUM if the  *)
(* only finding is not (of several such the code and migration.html:45     *)
(* disagree, and this says nothing).  Exit code 0 is for LOW.              *)
ReportIsExact ==
    LET findings == MetadataFindings \cup DataFindings(TargetFiles)
    IN  /\ (risk # "none" /\ ~swallowed
            /\ Cardinality(TargetManifests) <= limit)
           => /\ fileCount = Cardinality(TargetFiles)
              /\ risk = "LOW" <=> findings = {}
              /\ High(findings) # {} => risk = "HIGH"
              /\ High(findings) = {} /\ (\E f \in findings : findings = {f}) => risk = "MEDIUM"
        /\ command = "migration" /\ exit \in {0, 1} => exit >= CodeOf(risk)

(* site/docs/migration.html:92: exit code 0 is for a clean table.          *)
ZeroIsClean ==
    command = "migration" /\ exit = 0 => TargetFiles \cap HdfsData = {}
=============================================================================
