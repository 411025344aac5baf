------------------------------ MODULE AuditRun ------------------------------
(***************************************************************************)
(* `iceberg-sentry audit` (runAudit in internal/cli/audit.go): read the    *)
(* policy file, list the tables, scan them one after another under the     *)
(* thresholds of their policy, emit the reports, push or write them, and   *)
(* turn it all into one exit code.  A scan is one step here: TableScan     *)
(* shows that it reports what the table was at one instant.                *)
(***************************************************************************)
EXTENDS Naturals, Sequences, FiniteSets

CONSTANTS
    Tables,      \* tables of the namespace
    Thresholds,  \* the thresholds a policy may set
    Policies,    \* the policies a policy file may hold
    Inputs       \* the command lines and policy files considered

Severities == {"OK", "WARNING", "CRITICAL"}

(* exitcode.go.                                                            *)
OK == 0
Warning == 1
Critical == 2
ConfigError == 4
ConnectionFail == 5
Codes == {OK, Warning, Critical, ConfigError, ConnectionFail}

(* match: the tables whose namespace target_namespace matches; sets: the   *)
(* thresholds it overrides; valid: max_snapshot_age parses.                *)
Policy == [match : SUBSET Tables, sets : SUBSET Thresholds, valid : BOOLEAN]
Flag == [failOn : {"warn", "critical", "never"},
         output : {"render", "prometheus", "push"},
         atlas : {"none", "file", "-"}]

ASSUME AuditAssumption ==
    /\ Policies \subseteq Policy
    /\ Inputs \subseteq [flags : Flag, policies : Seq(Policies)]
    /\ IsFiniteSet(Tables)

VARIABLES
    world,     \* world[t]: what a scan of t would find now
    flags,     \* f
    policies,  \* policyFile.Policies
    pc,        \* "setup", "list", "scan", "emit", "push", "atlas" or "exit"
    ids,       \* the tables listed
    todo,      \* those not yet scanned
    worst,     \* worst
    reports,   \* reports, in the order of the scans
    stdout,    \* the reports written to standard output
    pushed,    \* the reports the push gateway accepted
    atlas,     \* the reports in the payload of --atlas-output, where it arrived
    exit       \* the exit code of the process

vars == <<world, flags, policies, pc, ids, todo, worst, reports, stdout, pushed,
          atlas, exit>>

Base == 0

Init ==
    /\ world \in [Tables -> Severities]
    /\ \E input \in Inputs : flags = input.flags /\ policies = input.policies
    /\ pc = "setup"
    /\ ids = {} /\ todo = {}
    /\ worst = OK
    /\ reports = <<>> /\ stdout = <<>> /\ pushed = <<>> /\ atlas = <<>>
    /\ exit = OK

-----------------------------------------------------------------------------
(* Helpers.  A definition preceded by a variant of its name: the variant   *)
(* is a slip that a property below would notice, and no action uses it.    *)

(* MatchTable: the first policy that matches, 0 when none does.            *)
Match(t) ==
    LET matching == {i \in DOMAIN policies : t \in policies[i].match}
    IN  IF matching = {} THEN 0 ELSE CHOOSE i \in matching : \A j \in matching : i <= j

(* ApplyThresholds, from the spec defaults: which policy set a threshold.  *)
AppliedToPrevious(i) ==
    LET start == IF reports = <<>> THEN [d \in Thresholds |-> Base]
                                   ELSE reports[Len(reports)].thresholds
    IN  [d \in Thresholds |-> IF i # 0 /\ d \in policies[i].sets THEN i ELSE start[d]]
Applied(i) ==
    [d \in Thresholds |-> IF i # 0 /\ d \in policies[i].sets THEN i ELSE Base]

ExitFromReport(severity) ==
    CASE severity = "CRITICAL" /\ flags.failOn # "never" -> Critical
      [] severity = "WARNING" /\ flags.failOn = "warn" -> Warning
      [] OTHER -> OK

Worse(a, b) == IF a > b THEN a ELSE b

(* runAudit returns an error.  One without a code of its own becomes       *)
(* ConfigError in main.                                                    *)
Return(code) == pc' = "exit" /\ exit' = code
GoOn(next) == pc' = next /\ UNCHANGED exit

AfterEmit == IF flags.atlas # "none" THEN GoOn("atlas") ELSE Return(worst)

-----------------------------------------------------------------------------
(* ParseFormat, the catalog, the storage, the policy file: each may fail.  *)
Setup ==
    /\ pc = "setup"
    /\ \/ GoOn("list")
       \/ Return(ConfigError)
       \/ Return(ConnectionFail)
    /\ UNCHANGED <<world, flags, policies, ids, todo, worst, reports, stdout, pushed,
                   atlas>>

(* ListTables, or the one table of --table.  An empty answer is a success. *)
ListTables(listed) ==
    /\ pc = "list"
    /\ ids' = listed /\ todo' = listed
    /\ IF listed = {} THEN Return(OK) ELSE GoOn("scan")
    /\ UNCHANGED <<world, flags, policies, worst, reports, stdout, pushed, atlas>>

ListFails ==
    /\ pc = "list"
    /\ Return(ConnectionFail)
    /\ UNCHANGED <<world, flags, policies, ids, todo, worst, reports, stdout, pushed,
                   atlas>>

(* One turn of the loop over ids: the policy does not apply ...            *)
PolicyFails(t) ==
    /\ pc = "scan" /\ t \in todo
    /\ Match(t) # 0 /\ ~policies[Match(t)].valid
    /\ Return(ConfigError)
    /\ UNCHANGED <<world, flags, policies, ids, todo, worst, reports, stdout, pushed,
                   atlas>>

PolicyApplies(t) == Match(t) # 0 => policies[Match(t)].valid

(* ... or the table is scanned ...                                         *)
ScanTableTwice(t) ==
    /\ pc = "scan" /\ t \in todo /\ PolicyApplies(t)
    /\ Len(reports) < 2 * Cardinality(ids)
    /\ reports' = Append(reports, [table |-> t, severity |-> world[t],
                                   thresholds |-> Applied(Match(t))])
    /\ worst' = Worse(worst, ExitFromReport(world[t]))
    /\ UNCHANGED <<world, flags, policies, pc, ids, todo, stdout, pushed, atlas, exit>>
ScanTable(t) ==
    /\ pc = "scan" /\ t \in todo /\ PolicyApplies(t)
    /\ todo' = todo \ {t}
    /\ reports' = Append(reports, [table |-> t, severity |-> world[t],
                                   thresholds |-> Applied(Match(t))])
    /\ worst' = Worse(worst, ExitFromReport(world[t]))
    /\ UNCHANGED <<world, flags, policies, pc, ids, stdout, pushed, atlas, exit>>

(* ... or its scan fails, and the loop goes on without a report.           *)
ScanFailsSilently(t) ==
    /\ pc = "scan" /\ t \in todo /\ PolicyApplies(t)
    /\ todo' = todo \ {t}
    /\ UNCHANGED <<world, flags, policies, pc, ids, worst, reports, stdout, pushed,
                   atlas, exit>>
ScanFails(t) ==
    /\ pc = "scan" /\ t \in todo /\ PolicyApplies(t)
    /\ todo' = todo \ {t}
    /\ worst' = Worse(worst, ConnectionFail)
    /\ UNCHANGED <<world, flags, policies, pc, ids, reports, stdout, pushed, atlas,
                   exit>>

EndLoop ==
    /\ pc = "scan" /\ todo = {}
    /\ GoOn(IF flags.output = "push" THEN "push" ELSE "emit")
    /\ UNCHANGED <<world, flags, policies, ids, todo, worst, reports, stdout, pushed,
                   atlas>>

(* Render writes report after report; prometheus all in one write.         *)
RenderOne ==
    /\ pc = "emit" /\ flags.output = "render"
    /\ Len(stdout) < Len(reports)
    /\ stdout' = Append(stdout, reports[Len(stdout) + 1])
    /\ UNCHANGED <<world, flags, policies, pc, ids, todo, worst, reports, pushed,
                   atlas, exit>>

RenderedAll ==
    /\ pc = "emit" /\ flags.output = "render"
    /\ Len(stdout) = Len(reports)
    /\ AfterEmit
    /\ UNCHANGED <<world, flags, policies, ids, todo, worst, reports, stdout, pushed,
                   atlas>>

WriteMetrics ==
    /\ pc = "emit" /\ flags.output = "prometheus"
    /\ stdout' = reports
    /\ AfterEmit
    /\ UNCHANGED <<world, flags, policies, ids, todo, worst, reports, pushed, atlas>>

WriteFails ==
    /\ pc = "emit"
    /\ flags.output = "render" => Len(stdout) < Len(reports)
    /\ Return(ConfigError)
    /\ UNCHANGED <<world, flags, policies, ids, todo, worst, reports, stdout, pushed,
                   atlas>>

Push ==
    /\ pc = "push"
    /\ \/ pushed' = reports /\ AfterEmit
       \/ UNCHANGED pushed /\ Return(ConnectionFail)
    /\ UNCHANGED <<world, flags, policies, ids, todo, worst, reports, stdout, atlas>>

(* writeAtlasHealth: the error of a file is returned, that of a print to   *)
(* standard output (--atlas-output -) is dropped.                          *)
WriteAtlas ==
    /\ pc = "atlas"
    /\ \/ atlas' = reports /\ Return(worst)
       \/ UNCHANGED atlas /\ Return(IF flags.atlas = "-" THEN worst ELSE ConfigError)
    /\ UNCHANGED <<world, flags, policies, ids, todo, worst, reports, stdout, pushed>>

Audit ==
    \/ Setup
    \/ \E listed \in SUBSET Tables : ListTables(listed)
    \/ ListFails
    \/ \E t \in Tables : PolicyFails(t) \/ ScanTable(t) \/ ScanFails(t)
    \/ EndLoop
    \/ RenderOne \/ RenderedAll \/ WriteMetrics \/ WriteFails
    \/ Push \/ WriteAtlas

(* External: another engine writes to a table.                             *)
TableChanges(t) ==
    /\ pc # "exit"
    /\ world' \in {[world EXCEPT ![t] = s] : s \in Severities \ {world[t]}}
    /\ UNCHANGED <<flags, policies, pc, ids, todo, worst, reports, stdout, pushed, atlas,
                   exit>>

Next == Audit \/ \E t \in Tables : TableChanges(t)

Spec == Init /\ [][Next]_vars

-----------------------------------------------------------------------------
(* Properties                                                              *)

Report == [table : Tables, severity : Severities,
           thresholds : [Thresholds -> 0..Len(policies)]]

(* Every variable keeps its type, and no table is scanned twice.           *)
TypeOK ==
    /\ world \in [Tables -> Severities]
    /\ [flags |-> flags, policies |-> policies] \in Inputs
    /\ pc \in {"setup", "list", "scan", "emit", "push", "atlas", "exit"}
    /\ ids \subseteq Tables /\ todo \subseteq ids
    /\ worst \in Codes /\ exit \in Codes
    /\ \A out \in {reports, stdout, pushed, atlas} :
         /\ out \in Seq(Report)
         /\ \A i, j \in DOMAIN out : out[i].table = out[j].table => i = j

Done == pc = "exit"
ReportedTables == {reports[i].table : i \in DOMAIN reports}
Delivered == (IF flags.output = "push" THEN pushed ELSE stdout) = reports

(* The exit codes of the audit itself (exitcode.go:3, a contract for CI)   *)
(* say what was found: every listed table was scanned, the reports went    *)
(* where they were meant to go, the Atlas payload too if a file was named  *)
(* for it, and the code is that of the worst of them, 0 if none reaches    *)
(* --fail-on.  A table that could not be scanned, or a report that did not *)
(* arrive, never looks like a clean run or like a finding.  Of a payload   *)
(* printed to standard output (-) the code says nothing.                   *)
ExitCodeIsHonest ==
    Done /\ exit \in {OK, Warning, Critical} =>
        /\ ReportedTables = ids
        /\ Delivered
        /\ flags.atlas = "file" => atlas = reports
        /\ \A i \in DOMAIN reports : ExitFromReport(reports[i].severity) <= exit
        /\ exit # OK => \E i \in DOMAIN reports : ExitFromReport(reports[i].severity) = exit

(* A table is judged by the first policy that matches it and by no other,  *)
(* whatever was scanned before it.                                         *)
OwnPolicyOnly ==
    \A i \in DOMAIN reports :
        LET r == reports[i] IN
        \A d \in Thresholds :
            IF r.thresholds[d] = Base
            THEN \/ \A p \in DOMAIN policies : r.table \notin policies[p].match
                 \/ \E p \in DOMAIN policies :
                      /\ r.table \in policies[p].match /\ d \notin policies[p].sets
                      /\ \A q \in 1..(p - 1) : r.table \notin policies[q].match
            ELSE /\ r.table \in policies[r.thresholds[d]].match
                 /\ \A q \in 1..(r.thresholds[d] - 1) : r.table \notin policies[q].match
=============================================================================
