------------------------------ MODULE Commands ------------------------------
(***************************************************************************)
(* One run of pii, migration or cost over a table that writers keep        *)
(* changing.  Time plays no part: writers commit what they write at once   *)
(* or later.                                                               *)
(***************************************************************************)
EXTENDS PIIScan, MigrationAudit

vars == <<tableVars, walkVars, piiVars, migrationVars>>

(* The flags and layouts that a command does not look at are some value.   *)
Init ==
    /\ TableInit /\ WalkInit /\ PIIInit /\ MigrationInit
    /\ command # "pii" => flags = CHOOSE f \in Flags : TRUE
    /\ command # "migration" => /\ layout = CHOOSE l \in Layouts : TRUE
                               /\ limit = CHOOSE n \in Limits : TRUE

(* The cost command has done its work once the metadata is read, unless    *)
(* its timeline cannot be written.                                         *)
TimelineUnwritten ==
    /\ phase = "loaded"
    /\ phase' = "done" /\ exit' = 4
    /\ UNCHANGED <<tableVars, command, locked, pending, files>>
CostStep == Walk \/ TimelineUnwritten

Step ==
    \/ command = "pii" /\ PIIStep /\ UNCHANGED migrationVars
    \/ command = "migration" /\ MigrationStep /\ UNCHANGED piiVars
    \/ command = "cost" /\ CostStep /\ UNCHANGED <<piiVars, migrationVars>>

Next == Step \/ (Writers /\ UNCHANGED <<walkVars, piiVars, migrationVars>>)

Spec == Init /\ [][Next]_vars

-----------------------------------------------------------------------------
(* Every variable keeps its type; files are collected within --max-files   *)
(* and opened once each; and a command that is over has an exit code.      *)
TypeOK == TableTypeOK /\ WalkTypeOK /\ PIITypeOK /\ MigrationTypeOK
=============================================================================
