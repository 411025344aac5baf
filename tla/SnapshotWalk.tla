---------------------------- MODULE SnapshotWalk ----------------------------
(***************************************************************************)
(* What the commands pii, migration and cost (internal/cli) do alike:      *)
(* load the table, read its metadata once, and follow the current snapshot *)
(* of that metadata from its manifest list to the data files, while        *)
(* writers go on.  Each command has its own copy of this code; where the   *)
(* copies differ, the difference is in the modules of the commands.        *)
(***************************************************************************)
EXTENDS IcebergTable, FiniteSetsExt

CONSTANT DeleteFiles   \* those of the files that hold deletes, not data

ASSUME DeleteFilesAssumption == DeleteFiles \subseteq DataFiles

VARIABLES
    command,  \* "pii", "migration" or "cost"
    phase,    \* "idle", "loaded", "list", "manifests", "sampling", "done"
    locked,   \* md
    pending,  \* manifests still to read
    files,    \* the files collected
    exit      \* exit code, -1 while running

walkVars == <<command, phase, locked, pending, files, exit>>

Running == -1
Target == IF locked.current \in locked.snaps THEN locked.current ELSE NoSnap
TargetManifests == IF Target = NoSnap THEN {} ELSE lists[Target]

-----------------------------------------------------------------------------
(* A definition preceded by a variant of its name: the variant is a slip   *)
(* that a property below would notice, and no action uses it.              *)

(* The files of a manifest: not those it records as deleted (status 2).    *)
PresentOrNot(m) == entries[m]
Present(m) == entries[m] \ removed[m]

-----------------------------------------------------------------------------
WalkInit ==
    /\ command \in {"pii", "migration", "cost"}
    /\ phase = "idle" /\ locked = meta /\ pending = {}
    /\ files = {} /\ exit = Running

(* No catalog or, before the table is looked for, a flag that is wrong.    *)
SetupFails ==
    /\ phase = "idle"
    /\ phase' = "done" /\ exit' \in {4, 5}
    /\ UNCHANGED <<tableVars, command, locked, pending, files>>

LoadTable ==
    /\ phase = "idle"
    /\ phase' = "loaded" /\ locked' = meta
    /\ UNCHANGED <<tableVars, command, pending, files, exit>>

(* Without a current snapshot there is nothing to follow: migration goes   *)
(* on with no manifests.  The timeline of cost needs the metadata only.    *)
ReadMetadata ==
    /\ phase = "loaded" /\ MetadataObj(locked.version) \in store
    /\ CASE command = "cost" \/ (command = "pii" /\ Target = NoSnap) -> phase' = "done" /\ exit' = 0
         [] command = "migration" /\ Target = NoSnap -> phase' = "manifests" /\ exit' = exit
         [] OTHER -> phase' = "list" /\ exit' = exit
    /\ UNCHANGED <<tableVars, command, locked, pending, files>>

ReadList ==
    /\ phase = "list" /\ ListObj(Target) \in store
    /\ phase' = "manifests"
    /\ pending' = lists[Target]
    /\ UNCHANGED <<tableVars, command, locked, files, exit>>

(* The table cannot be loaded, or its metadata not opened or parsed.       *)
LoadFails ==
    /\ phase \in {"idle", "loaded"}
    /\ phase' = "done" /\ exit' = 5
    /\ UNCHANGED <<tableVars, command, locked, pending, files>>

Walk == SetupFails \/ LoadTable \/ LoadFails \/ ReadMetadata \/ ReadList

-----------------------------------------------------------------------------
(* Properties                                                              *)

TargetFiles == Alive(TargetManifests)

WalkTypeOK ==
    /\ command \in {"pii", "migration", "cost"}
    /\ phase \in {"idle", "loaded", "list", "manifests", "sampling", "done"}
    /\ locked \in TableMetadata /\ pending \subseteq Snaps /\ files \subseteq DataFiles
    /\ exit \in Running..5 /\ (phase = "done" <=> exit # Running)

(* site/docs/pii.html:41, migration.html:36: the files are those of the    *)
(* current snapshot, one snapshot.  Whatever was deleted from the table    *)
(* before the command began, and whatever is committed while it runs, is   *)
(* neither sampled nor counted; and pii opens no delete file.              *)
OneSnapshotSampled ==
    files \subseteq TargetFiles /\ (command = "pii" => files \cap DeleteFiles = {})
=============================================================================
