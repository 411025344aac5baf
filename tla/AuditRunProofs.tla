--------------------------- MODULE AuditRunProofs ---------------------------
(***************************************************************************)
(* What holds of an audit for every set of tables, every policy file and   *)
(* every command line, whatever fails on the way.                          *)
(***************************************************************************)
EXTENDS AuditRun, WellFoundedInduction, TLAPS

-----------------------------------------------------------------------------
(* The invariant, part by part.                                            *)

(* What was listed is waiting or was scanned; it has its report unless a   *)
(* scan failed, which worst remembers.                                     *)
ScansSoFar ==
    /\ pc \in {"setup", "list"} => ids = {} /\ reports = <<>> /\ worst = OK
    /\ pc \in {"emit", "push", "atlas"} => todo = {}
    /\ ReportedTables \subseteq ids \ todo
    /\ worst # ConnectionFail => ids \ todo \subseteq ReportedTables

(* worst is the worst of the reports, or stands for a failed scan.         *)
WorstSoFar ==
    /\ worst \in {OK, Warning, Critical, ConnectionFail}
    /\ \A i \in DOMAIN reports : ExitFromReport(reports[i].severity) <= worst
    /\ worst \in {Warning, Critical} =>
         \E i \in DOMAIN reports : ExitFromReport(reports[i].severity) = worst

(* Reports leave in their order, and only where the flags send them.       *)
WrittenSoFar ==
    /\ pc \in {"setup", "list", "scan"} => pushed = <<>> /\ atlas = <<>>
    /\ pc \in {"setup", "list", "scan", "push"} => stdout = <<>>
    /\ Len(stdout) <= Len(reports) /\ \A i \in DOMAIN stdout : stdout[i] = reports[i]
    /\ pushed \in {<<>>, reports} /\ atlas \in {<<>>, reports}
    /\ pc = "emit" => flags.output # "push"
    /\ pc = "push" => flags.output = "push"
    /\ pc = "atlas" => Delivered

(* The code of a run that got to its end is worst.                         *)
EndsWithWorst ==
    Done /\ exit \in {OK, Warning, Critical} =>
        /\ exit = worst /\ todo = {}
        /\ Delivered
        /\ flags.atlas = "file" => atlas = reports

JudgedByMatch ==
    \A i \in DOMAIN reports : reports[i].thresholds = Applied(Match(reports[i].table))

IInv ==
    /\ TypeOK
    /\ ScansSoFar
    /\ WorstSoFar
    /\ WrittenSoFar
    /\ EndsWithWorst
    /\ JudgedByMatch

-----------------------------------------------------------------------------
(* The operators.                                                          *)

(* A non-empty set of naturals has a least element.                        *)
LEMMA LeastNatural ==
    ASSUME NEW T \in SUBSET Nat, T # {}
    PROVE  \E x \in T : \A y \in T : x <= y
  <1>1. PICK x \in T : \A y \in T : ~ (<<y, x>> \in OpToRel(<, Nat))
    BY NatLessThanWellFounded, WFMin
  <1>2. \A y \in T : ~ (y < x)
    BY <1>1 DEF OpToRel
  <1>3. QED
    BY <1>2

LEMMA InputTypes ==
    ASSUME TypeOK
    PROVE  /\ flags \in Flag /\ policies \in Seq(Policies)
           /\ \A i \in DOMAIN policies : policies[i] \in Policy
  <1>1. [flags |-> flags, policies |-> policies] \in [flags : Flag, policies : Seq(Policies)]
    BY AuditAssumption DEF TypeOK
  <1>2. flags \in Flag /\ policies \in Seq(Policies)
    BY <1>1
  <1>3. QED
    BY <1>2, AuditAssumption

(* MatchTable returns the first policy that matches, or none matches.      *)
LEMMA MatchFirst ==
    ASSUME policies \in Seq(Policies), NEW t
    PROVE  /\ Match(t) \in 0..Len(policies)
           /\ Match(t) = 0 => \A p \in DOMAIN policies : t \notin policies[p].match
           /\ Match(t) # 0 =>
                /\ Match(t) \in DOMAIN policies /\ t \in policies[Match(t)].match
                /\ \A q \in 1..(Match(t) - 1) : t \notin policies[q].match
  <1> DEFINE matching == {i \in DOMAIN policies : t \in policies[i].match}
  <1>1. DOMAIN policies = 1..Len(policies) /\ Len(policies) \in Nat
    OBVIOUS
  <1>2. CASE matching = {}
    BY <1>1, <1>2 DEF Match
  <1>3. CASE matching # {}
    <2>1. matching \in SUBSET Nat
      BY <1>1
    <2>2. \E i \in matching : \A j \in matching : i <= j
      BY <1>3, <2>1, LeastNatural
    <2>3. Match(t) \in matching /\ \A j \in matching : Match(t) <= j
      BY <1>3, <2>2 DEF Match
    <2>4. \A q \in 1..(Match(t) - 1) : q \in DOMAIN policies /\ ~ (Match(t) <= q)
      BY <1>1, <2>3
    <2>5. QED
      BY <1>1, <2>3, <2>4
  <1>4. QED
    BY <1>2, <1>3

(* The thresholds of a report name policies of the file.                   *)
LEMMA AppliedType ==
    ASSUME policies \in Seq(Policies), NEW t
    PROVE  Applied(Match(t)) \in [Thresholds -> 0..Len(policies)]
  <1>1. Match(t) \in 0..Len(policies) /\ Base \in 0..Len(policies)
    BY MatchFirst DEF Base
  <1>2. QED
    BY <1>1 DEF Applied

LEMMA ExitCodes ==
    ASSUME NEW s
    PROVE  ExitFromReport(s) \in {OK, Warning, Critical}
  BY DEF ExitFromReport

LEMMA WorseOfTwo ==
    ASSUME NEW a \in Nat, NEW b \in Nat
    PROVE  /\ Worse(a, b) \in {a, b} /\ a <= Worse(a, b) /\ b <= Worse(a, b)
  BY DEF Worse

LEMMA Appended ==
    ASSUME NEW S, NEW s \in Seq(S), NEW e \in S
    PROVE  /\ Append(s, e) \in Seq(S)
           /\ DOMAIN s = 1..Len(s) /\ Len(s) \in Nat
           /\ Len(Append(s, e)) = Len(s) + 1
           /\ DOMAIN Append(s, e) = 1..(Len(s) + 1)
           /\ \A i \in 1..Len(s) : Append(s, e)[i] = s[i]
           /\ Append(s, e)[Len(s) + 1] = e
  OBVIOUS

LEMMA SameSequence ==
    ASSUME NEW S, NEW s \in Seq(S), NEW r \in Seq(S), Len(s) = Len(r),
           \A i \in DOMAIN s : s[i] = r[i]
    PROVE  s = r
  OBVIOUS

-----------------------------------------------------------------------------
(* The invariant holds at the start ...                                    *)
LEMMA InitIInv == Init => IInv
  <1> SUFFICES ASSUME Init
               PROVE  IInv
    OBVIOUS
  <1>1. reports = <<>> /\ stdout = <<>> /\ pushed = <<>> /\ atlas = <<>>
    BY DEF Init
  <1>2. [flags |-> flags, policies |-> policies] \in Inputs
    <2>1. PICK input \in Inputs : flags = input.flags /\ policies = input.policies
      BY DEF Init
    <2>2. input = [flags |-> input.flags, policies |-> input.policies]
      BY AuditAssumption
    <2>3. QED
      BY <2>1, <2>2
  <1>3. \A out \in {reports, stdout, pushed, atlas} : out \in Seq(Report) /\ DOMAIN out = {}
    <2>1. <<>> \in Seq(Report) /\ DOMAIN <<>> = {}
      OBVIOUS
    <2>2. \A out \in {reports, stdout, pushed, atlas} : out = <<>>
      BY <1>1
    <2>3. QED
      BY <2>1, <2>2, Zenon
  <1>4. TypeOK
    BY <1>2, <1>3 DEF Init, TypeOK, Codes
  <1>5. ReportedTables = {}
    BY <1>3 DEF ReportedTables
  <1>6. QED
    BY <1>1, <1>3, <1>4, <1>5
       DEF Init, IInv, ScansSoFar, WorstSoFar, WrittenSoFar, EndsWithWorst,
           JudgedByMatch, Done, OK, Warning, Critical, ConnectionFail

-----------------------------------------------------------------------------
(* ... and every step keeps it: types.                                     *)

(* A sequence in which no table occurs twice.                              *)
EachOnce(out) == \A i, j \in DOMAIN out : out[i].table = out[j].table => i = j

LEMMA Returns ==
    ASSUME TypeOK,
           \/ \E code \in Codes : Return(code)
           \/ \E next \in {"list", "scan", "emit", "push", "atlas"} : GoOn(next)
           \/ AfterEmit
    PROVE  /\ pc' \in {"setup", "list", "scan", "emit", "push", "atlas", "exit"}
           /\ exit' \in Codes
  BY DEF TypeOK, Return, GoOn, AfterEmit

LEMMA CodesAreCodes ==
    /\ Codes \subseteq Nat
    /\ OK \in Codes /\ Warning \in Codes /\ Critical \in Codes
    /\ ConfigError \in Codes /\ ConnectionFail \in Codes
  BY DEF Codes, OK, Warning, Critical, ConfigError, ConnectionFail

(* The report of one more table, one that has none.                        *)
LEMMA OneMoreReport ==
    ASSUME TypeOK, ScansSoFar, NEW t \in todo, NEW sev \in Severities
    PROVE  LET r == [table |-> t, severity |-> sev, thresholds |-> Applied(Match(t))]
           IN  /\ r \in Report
               /\ Append(reports, r) \in Seq(Report) /\ EachOnce(Append(reports, r))
  <1> DEFINE r == [table |-> t, severity |-> sev, thresholds |-> Applied(Match(t))]
             out == Append(reports, r)
  <1>1. r \in Report
    BY InputTypes, AppliedType DEF Report, TypeOK
  <1>2. reports \in Seq(Report) /\ EachOnce(reports)
    BY DEF TypeOK, EachOnce
  <1>3. /\ out \in Seq(Report)
        /\ DOMAIN reports = 1..Len(reports) /\ Len(reports) \in Nat
        /\ DOMAIN out = 1..(Len(reports) + 1)
        /\ \A i \in 1..Len(reports) : out[i] = reports[i]
        /\ out[Len(reports) + 1] = r
    BY <1>1, <1>2, Appended
  <1>4. \A i \in DOMAIN reports : reports[i].table # t
    BY DEF ScansSoFar, ReportedTables
  <1> HIDE DEF out
  <1>5. r.table = t
    OBVIOUS
  <1> HIDE DEF r
  <1>6. EachOnce(out)
    BY <1>2, <1>3, <1>4, <1>5 DEF EachOnce
  <1>7. QED
    BY <1>1, <1>3, <1>6 DEF out, r

(* Rendering one more report leaves a prefix of the reports.               *)
LEMMA OneMoreRendered ==
    ASSUME TypeOK, WrittenSoFar, Len(stdout) < Len(reports)
    PROVE  LET out == Append(stdout, reports[Len(stdout) + 1])
           IN  /\ out \in Seq(Report) /\ EachOnce(out)
               /\ Len(out) <= Len(reports) /\ \A i \in DOMAIN out : out[i] = reports[i]
  <1> DEFINE out == Append(stdout, reports[Len(stdout) + 1])
  <1>1. /\ reports \in Seq(Report) /\ EachOnce(reports)
        /\ stdout \in Seq(Report)
    BY DEF TypeOK, EachOnce
  <1>2. /\ DOMAIN reports = 1..Len(reports) /\ Len(reports) \in Nat
        /\ Len(stdout) \in Nat /\ Len(stdout) + 1 \in DOMAIN reports
        /\ reports[Len(stdout) + 1] \in Report
    BY <1>1
  <1>3. /\ out \in Seq(Report)
        /\ DOMAIN stdout = 1..Len(stdout)
        /\ Len(out) = Len(stdout) + 1
        /\ DOMAIN out = 1..(Len(stdout) + 1)
        /\ \A i \in 1..Len(stdout) : out[i] = stdout[i]
        /\ out[Len(stdout) + 1] = reports[Len(stdout) + 1]
    BY <1>1, <1>2, Appended
  <1> HIDE DEF out
  <1>4. \A i \in DOMAIN out : out[i] = reports[i] /\ i \in DOMAIN reports
    BY <1>2, <1>3 DEF WrittenSoFar
  <1>5. EachOnce(out)
    BY <1>1, <1>4 DEF EachOnce
  <1>6. QED
    BY <1>2, <1>3, <1>4, <1>5 DEF out

(* A step that leaves the sequences alone.                                 *)
LEMMA SequencesKept ==
    ASSUME TypeOK, UNCHANGED <<policies, reports, stdout, pushed, atlas>>
    PROVE  \A out \in {reports', stdout', pushed', atlas'} :
             out \in Seq(Report') /\ EachOnce(out)
  <1>1. Report' = Report
    BY DEF Report
  <1>2. QED
    BY <1>1 DEF TypeOK, EachOnce

LEMMA NextTypeOK == IInv /\ [Next]_vars => TypeOK'
  <1> SUFFICES ASSUME IInv, [Next]_vars
               PROVE  TypeOK'
    OBVIOUS
  <1> DEFINE Outs == \A out \in {reports', stdout', pushed', atlas'} :
                       out \in Seq(Report') /\ EachOnce(out)
             Rest == /\ world' \in [Tables -> Severities]
                     /\ UNCHANGED <<flags, policies>>
                     /\ pc' \in {"setup", "list", "scan", "emit", "push", "atlas", "exit"}
                     /\ ids' \subseteq Tables /\ todo' \subseteq ids'
                     /\ worst' \in Codes /\ exit' \in Codes
  <1>t. TypeOK /\ ScansSoFar /\ WrittenSoFar
    BY DEF IInv
  <1>w. worst \in Codes
    BY <1>t DEF TypeOK
  <1>k. \A out \in {reports, stdout, pushed, atlas} : out \in Seq(Report) /\ EachOnce(out)
    BY <1>t DEF TypeOK, EachOnce
  <1>r. UNCHANGED policies => Report' = Report
    BY DEF Report
  <1> SUFFICES Rest /\ Outs
    BY <1>t DEF TypeOK, EachOnce
  <1>1. CASE Setup
    BY <1>1, <1>t, Returns, SequencesKept, CodesAreCodes DEF Setup, TypeOK
  <1>2. ASSUME NEW listed \in SUBSET Tables, ListTables(listed)
        PROVE  Rest /\ Outs
    BY <1>2, <1>t, Returns, SequencesKept, CodesAreCodes DEF ListTables, TypeOK
  <1>3. CASE ListFails
    BY <1>3, <1>t, Returns, SequencesKept, CodesAreCodes DEF ListFails, TypeOK
  <1>4. ASSUME NEW t \in Tables, PolicyFails(t)
        PROVE  Rest /\ Outs
    BY <1>4, <1>t, Returns, SequencesKept, CodesAreCodes DEF PolicyFails, TypeOK
  <1>5. ASSUME NEW t \in Tables, ScanTable(t)
        PROVE  Rest /\ Outs
    <2>1. world[t] \in Severities /\ t \in todo
      BY <1>5, <1>t DEF ScanTable, TypeOK
    <2>2. worst' \in Codes
      BY <1>5, <1>w, CodesAreCodes, ExitCodes, WorseOfTwo DEF ScanTable
    <2>3. Rest
      BY <1>5, <1>t, <2>2 DEF ScanTable, TypeOK
    <2>4. reports' \in Seq(Report) /\ EachOnce(reports')
      BY <1>5, <1>t, <2>1, OneMoreReport DEF ScanTable
    <2>5. QED
      BY <1>5, <1>k, <1>r, <2>3, <2>4 DEF ScanTable
  <1>6. ASSUME NEW t \in Tables, ScanFails(t)
        PROVE  Rest /\ Outs
    <2>1. worst' \in Codes
      BY <1>6, <1>w, CodesAreCodes, WorseOfTwo DEF ScanFails
    <2>2. QED
      BY <1>6, <1>t, <2>1, SequencesKept DEF ScanFails, TypeOK
  <1>7. CASE EndLoop
    BY <1>7, <1>t, Returns, SequencesKept DEF EndLoop, TypeOK
  <1>8. CASE RenderOne
    <2>1. stdout' \in Seq(Report) /\ EachOnce(stdout')
      BY <1>8, <1>t, OneMoreRendered DEF RenderOne
    <2>2. QED
      BY <1>8, <1>t, <1>k, <1>r, <2>1 DEF RenderOne, TypeOK
  <1>9. CASE RenderedAll
    BY <1>9, <1>t, Returns, SequencesKept DEF RenderedAll, TypeOK
  <1>10. CASE WriteMetrics
    BY <1>10, <1>t, <1>k, <1>r, Returns DEF WriteMetrics, TypeOK
  <1>11. CASE WriteFails
    BY <1>11, <1>t, Returns, SequencesKept, CodesAreCodes DEF WriteFails, TypeOK
  <1>12. CASE Push
    BY <1>12, <1>t, <1>k, <1>r, Returns, CodesAreCodes DEF Push, TypeOK
  <1>13. CASE WriteAtlas
    BY <1>13, <1>t, <1>k, <1>r, Returns, CodesAreCodes DEF WriteAtlas, TypeOK
  <1>14. ASSUME NEW t \in Tables, TableChanges(t)
         PROVE  Rest /\ Outs
    BY <1>14, <1>t, SequencesKept DEF TableChanges, TypeOK
  <1>15. CASE UNCHANGED vars
    BY <1>15, <1>t, SequencesKept DEF vars, TypeOK
  <1>16. QED
    BY <1>1, <1>2, <1>3, <1>4, <1>5, <1>6, <1>7, <1>8, <1>9, <1>10, <1>11, <1>12, <1>13,
       <1>14, <1>15 DEF Next, Audit

-----------------------------------------------------------------------------
(* The scans and the worst of them.                                        *)
LEMMA NextScans == IInv /\ [Next]_vars => ScansSoFar'
  <1> SUFFICES ASSUME IInv, [Next]_vars
               PROVE  ScansSoFar'
    OBVIOUS
  <1>t. TypeOK /\ ScansSoFar
    BY DEF IInv
  <1>r. UNCHANGED reports => ReportedTables' = ReportedTables
    BY DEF ReportedTables
  <1>1. CASE Setup
    BY <1>1, <1>t, <1>r DEF Setup, ScansSoFar, Return, GoOn
  <1>2. ASSUME NEW listed \in SUBSET Tables, ListTables(listed)
        PROVE  ScansSoFar'
    BY <1>2, <1>t, <1>r DEF ListTables, ScansSoFar, Return, GoOn
  <1>3. CASE ListFails
    BY <1>3, <1>t, <1>r DEF ListFails, ScansSoFar, Return
  <1>4. ASSUME NEW t \in Tables, PolicyFails(t)
        PROVE  ScansSoFar'
    BY <1>4, <1>t, <1>r DEF PolicyFails, ScansSoFar, Return
  <1>5. ASSUME NEW t \in Tables, ScanTable(t)
        PROVE  ScansSoFar'
    <2>1. world[t] \in Severities /\ t \in todo /\ todo \subseteq ids
      BY <1>5, <1>t DEF ScanTable, TypeOK
    <2>2. ReportedTables' = ReportedTables \cup {t}
      <3> DEFINE r == [table |-> t, severity |-> world[t], thresholds |-> Applied(Match(t))]
      <3>1. reports \in Seq(Report) /\ r \in Report /\ reports' = Append(reports, r)
        BY <1>5, <1>t, <2>1, OneMoreReport DEF ScanTable, TypeOK
      <3>2. r.table = t
        OBVIOUS
      <3> HIDE DEF r
      <3>3. /\ DOMAIN reports' = DOMAIN reports \cup {Len(reports) + 1}
            /\ \A i \in DOMAIN reports : reports'[i] = reports[i]
            /\ reports'[Len(reports) + 1] = r
        BY <3>1, Appended
      <3>4. QED
        BY <3>2, <3>3 DEF ReportedTables
    <2>3. worst' # ConnectionFail => worst # ConnectionFail
      <3>1. CASE worst = ConnectionFail
        BY <1>5, <3>1, ExitCodes
           DEF ScanTable, Worse, OK, Warning, Critical, ConnectionFail
      <3>2. QED
        BY <3>1
    <2>4. QED
      BY <1>5, <1>t, <2>1, <2>2, <2>3 DEF ScanTable, ScansSoFar
  <1>6. ASSUME NEW t \in Tables, ScanFails(t)
        PROVE  ScansSoFar'
    <2>1. worst' = ConnectionFail
      BY <1>6, <1>t DEF ScanFails, Worse, TypeOK, Codes, OK, Warning, Critical, ConfigError,
                        ConnectionFail, IInv, WorstSoFar
    <2>2. t \notin ReportedTables
      BY <1>6, <1>t DEF ScanFails, ScansSoFar
    <2>3. QED
      BY <1>6, <1>t, <1>r, <2>1, <2>2 DEF ScanFails, ScansSoFar, TypeOK
  <1>7. CASE EndLoop
    BY <1>7, <1>t, <1>r DEF EndLoop, ScansSoFar, GoOn
  <1>8. CASE RenderOne
    BY <1>8, <1>t, <1>r DEF RenderOne, ScansSoFar
  <1>9. CASE RenderedAll
    BY <1>9, <1>t, <1>r DEF RenderedAll, ScansSoFar, AfterEmit, Return, GoOn
  <1>10. CASE WriteMetrics
    BY <1>10, <1>t, <1>r DEF WriteMetrics, ScansSoFar, AfterEmit, Return, GoOn
  <1>11. CASE WriteFails
    BY <1>11, <1>t, <1>r DEF WriteFails, ScansSoFar, Return
  <1>12. CASE Push
    BY <1>12, <1>t, <1>r DEF Push, ScansSoFar, AfterEmit, Return, GoOn
  <1>13. CASE WriteAtlas
    BY <1>13, <1>t, <1>r DEF WriteAtlas, ScansSoFar, Return
  <1>14. ASSUME NEW t \in Tables, TableChanges(t)
         PROVE  ScansSoFar'
    BY <1>14, <1>t, <1>r DEF TableChanges, ScansSoFar
  <1>15. CASE UNCHANGED vars
    BY <1>15, <1>t, <1>r DEF vars, ScansSoFar
  <1>16. QED
    BY <1>1, <1>2, <1>3, <1>4, <1>5, <1>6, <1>7, <1>8, <1>9, <1>10, <1>11, <1>12, <1>13,
       <1>14, <1>15 DEF Next, Audit

(* The steps that touch worst, the reports or --fail-on are the scans.     *)
LEMMA OnlyScansJudge ==
    ASSUME Next
    PROVE  \/ \E t \in Tables : ScanTable(t) \/ ScanFails(t)
           \/ UNCHANGED <<flags, policies, worst, reports>>
  BY DEF Next, Audit, Setup, ListTables, ListFails, PolicyFails, EndLoop, RenderOne,
         RenderedAll, WriteMetrics, WriteFails, Push, WriteAtlas, TableChanges

LEMMA ExitFromReportKept ==
    ASSUME UNCHANGED flags, NEW s
    PROVE  ExitFromReport(s)' = ExitFromReport(s)
  BY DEF ExitFromReport

LEMMA NextWorst == IInv /\ [Next]_vars => WorstSoFar'
  <1> SUFFICES ASSUME IInv, [Next]_vars
               PROVE  WorstSoFar'
    OBVIOUS
  <1>t. TypeOK /\ ScansSoFar /\ WorstSoFar
    BY DEF IInv
  <1>c. OK = 0 /\ Warning = 1 /\ Critical = 2 /\ ConnectionFail = 5
    BY DEF OK, Warning, Critical, ConnectionFail
  <1>1. ASSUME NEW t \in Tables, ScanTable(t)
        PROVE  WorstSoFar'
    <2> DEFINE r == [table |-> t, severity |-> world[t], thresholds |-> Applied(Match(t))]
               e(s) == ExitFromReport(s)
    <2>1. world[t] \in Severities /\ t \in todo
      BY <1>1, <1>t DEF ScanTable, TypeOK
    <2>2. reports \in Seq(Report) /\ r \in Report /\ reports' = Append(reports, r)
      BY <1>1, <1>t, <2>1, OneMoreReport DEF ScanTable, TypeOK
    <2>3. r.severity = world[t]
      OBVIOUS
    <2> HIDE DEF r
    <2>4. /\ DOMAIN reports' = DOMAIN reports \cup {Len(reports) + 1}
          /\ \A i \in DOMAIN reports : reports'[i] = reports[i]
          /\ reports'[Len(reports) + 1] = r
      BY <2>2, Appended
    <2>5. worst' = Worse(worst, e(world[t])) /\ UNCHANGED flags
      BY <1>1 DEF ScanTable
    <2>6. \A s : e(s) \in {OK, Warning, Critical}
      BY ExitCodes
    <2>7. \A s : ExitFromReport(s)' = e(s)
      BY <2>5 DEF ExitFromReport
    <2> HIDE DEF e
    <2>8. worst \in {OK, Warning, Critical, ConnectionFail}
      BY <1>t DEF WorstSoFar
    <2>9. /\ worst' \in {worst, e(world[t])} /\ worst <= worst' /\ e(world[t]) <= worst'
          /\ worst' \in {OK, Warning, Critical, ConnectionFail}
      BY <1>c, <2>5, <2>6, <2>8 DEF Worse
    <2>10. \A i \in DOMAIN reports' : e(reports'[i].severity) <= worst'
      <3>1. ASSUME NEW i \in DOMAIN reports
            PROVE  e(reports'[i].severity) <= worst'
        <4>1. e(reports[i].severity) <= worst
          BY <1>t DEF WorstSoFar, e
        <4>2. QED
          BY <1>c, <2>4, <2>6, <2>8, <2>9, <4>1
      <3>2. QED
        BY <2>3, <2>4, <2>9, <3>1
    <2>11. worst' \in {Warning, Critical} => \E i \in DOMAIN reports' : e(reports'[i].severity) = worst'
      <3>1. CASE worst' = e(world[t])
        BY <2>3, <2>4, <3>1
      <3>2. CASE worst' = worst /\ worst \in {Warning, Critical}
        <4>1. PICK i \in DOMAIN reports : e(reports[i].severity) = worst
          BY <1>t, <3>2 DEF WorstSoFar, e
        <4>2. QED
          BY <2>4, <3>2, <4>1
      <3>3. QED
        BY <2>9, <3>1, <3>2
    <2>12. QED
      BY <2>7, <2>9, <2>10, <2>11 DEF WorstSoFar
  <1>2. ASSUME NEW t \in Tables, ScanFails(t)
        PROVE  WorstSoFar'
    <2>1. worst' = ConnectionFail /\ UNCHANGED <<flags, reports>>
      BY <1>2, <1>t, <1>c DEF ScanFails, Worse, WorstSoFar
    <2>2. \A s : ExitFromReport(s)' \in {OK, Warning, Critical}
      BY <2>1, ExitCodes, ExitFromReportKept
    <2>3. \A s : ExitFromReport(s)' <= worst'
      BY <1>c, <2>1, <2>2
    <2>4. QED
      BY <1>c, <2>1, <2>3 DEF WorstSoFar
  <1>3. CASE UNCHANGED <<flags, policies, worst, reports>>
    BY <1>3, <1>t DEF WorstSoFar, ExitFromReport
  <1>4. QED
    BY <1>1, <1>2, <1>3, OnlyScansJudge DEF vars

-----------------------------------------------------------------------------
(* Delivery and the exit code.                                             *)

(* All that was rendered is all that there is.                             *)
LEMMA RenderedIsReported ==
    ASSUME TypeOK, WrittenSoFar, Len(stdout) = Len(reports)
    PROVE  stdout = reports
  <1>1. stdout \in Seq(Report) /\ reports \in Seq(Report)
    BY DEF TypeOK
  <1>2. QED
    BY <1>1, SameSequence DEF WrittenSoFar

LEMMA NextWritten == IInv /\ [Next]_vars => WrittenSoFar'
  <1> SUFFICES ASSUME IInv, [Next]_vars
               PROVE  WrittenSoFar'
    OBVIOUS
  <1>t. TypeOK /\ ScansSoFar /\ WrittenSoFar
    BY DEF IInv
  <1>f. flags.output \in {"render", "prometheus", "push"}
    BY <1>t, InputTypes DEF Flag
  <1>s. reports \in Seq(Report) /\ stdout \in Seq(Report)
    BY <1>t DEF TypeOK
  <1>1. CASE Setup
    BY <1>1, <1>t DEF Setup, WrittenSoFar, Return, GoOn
  <1>2. ASSUME NEW listed \in SUBSET Tables, ListTables(listed)
        PROVE  WrittenSoFar'
    BY <1>2, <1>t DEF ListTables, WrittenSoFar, Return, GoOn
  <1>3. CASE ListFails
    BY <1>3, <1>t DEF ListFails, WrittenSoFar, Return
  <1>4. ASSUME NEW t \in Tables, PolicyFails(t)
        PROVE  WrittenSoFar'
    BY <1>4, <1>t DEF PolicyFails, WrittenSoFar, Return
  <1>5. ASSUME NEW t \in Tables, ScanTable(t)
        PROVE  WrittenSoFar'
    <2>1. world[t] \in Severities /\ t \in todo
      BY <1>5, <1>t DEF ScanTable, TypeOK
    <2>2. reports' \in Seq(Report)
      BY <1>5, <1>t, <2>1, OneMoreReport DEF ScanTable, TypeOK
    <2>3. /\ stdout' = <<>> /\ pushed' = <<>> /\ atlas' = <<>>
          /\ pc' = "scan"
      BY <1>5, <1>t DEF ScanTable, WrittenSoFar
    <2>4. Len(<<>>) = 0 /\ DOMAIN <<>> = {} /\ Len(reports') \in Nat
      BY <2>2
    <2>5. QED
      BY <2>3, <2>4 DEF WrittenSoFar
  <1>6. ASSUME NEW t \in Tables, ScanFails(t)
        PROVE  WrittenSoFar'
    BY <1>6, <1>t DEF ScanFails, WrittenSoFar
  <1>7. CASE EndLoop
    BY <1>7, <1>t DEF EndLoop, WrittenSoFar, GoOn
  <1>8. CASE RenderOne
    <2>1. Len(stdout') <= Len(reports) /\ \A i \in DOMAIN stdout' : stdout'[i] = reports[i]
      BY <1>8, <1>t, OneMoreRendered DEF RenderOne
    <2>2. QED
      BY <1>8, <1>t, <2>1 DEF RenderOne, WrittenSoFar
  <1>9. CASE RenderedAll
    <2>1. stdout = reports
      BY <1>9, <1>t, RenderedIsReported DEF RenderedAll
    <2>2. QED
      BY <1>9, <1>t, <2>1
         DEF RenderedAll, WrittenSoFar, AfterEmit, Return, GoOn, Delivered
  <1>10. CASE WriteMetrics
    <2>1. Len(reports) <= Len(reports)
      BY <1>s
    <2>2. QED
      BY <1>10, <1>t, <2>1
         DEF WriteMetrics, WrittenSoFar, AfterEmit, Return, GoOn, Delivered
  <1>11. CASE WriteFails
    BY <1>11, <1>t DEF WriteFails, WrittenSoFar, Return
  <1>12. CASE Push
    BY <1>12, <1>t DEF Push, WrittenSoFar, AfterEmit, Return, GoOn, Delivered
  <1>13. CASE WriteAtlas
    BY <1>13, <1>t DEF WriteAtlas, WrittenSoFar, Return
  <1>14. ASSUME NEW t \in Tables, TableChanges(t)
         PROVE  WrittenSoFar'
    BY <1>14, <1>t DEF TableChanges, WrittenSoFar, Delivered
  <1>15. CASE UNCHANGED vars
    BY <1>15, <1>t DEF vars, WrittenSoFar, Delivered
  <1>16. QED
    BY <1>1, <1>2, <1>3, <1>4, <1>5, <1>6, <1>7, <1>8, <1>9, <1>10, <1>11, <1>12, <1>13,
       <1>14, <1>15 DEF Next, Audit

LEMMA NextEnds == IInv /\ [Next]_vars => EndsWithWorst'
  <1> SUFFICES ASSUME IInv, [Next]_vars
               PROVE  EndsWithWorst'
    OBVIOUS
  <1> USE DEF EndsWithWorst, Done
  <1>t. TypeOK /\ ScansSoFar /\ WrittenSoFar /\ EndsWithWorst
    BY DEF IInv
  <1>c. /\ ConfigError \notin {OK, Warning, Critical}
        /\ ConnectionFail \notin {OK, Warning, Critical}
    BY DEF OK, Warning, Critical, ConfigError, ConnectionFail
  <1>1. CASE Setup
    BY <1>1, <1>c DEF Setup, Return, GoOn
  <1>2. ASSUME NEW listed \in SUBSET Tables, ListTables(listed)
        PROVE  EndsWithWorst'
    <2>1. CASE listed = {}
      <3>1. worst' = OK /\ exit' = OK /\ todo' = {} /\ reports' = <<>>
        BY <1>2, <1>t, <2>1 DEF ListTables, ScansSoFar, Return
      <3>2. stdout' = <<>> /\ pushed' = <<>> /\ atlas' = <<>>
        BY <1>2, <1>t DEF ListTables, WrittenSoFar
      <3>3. QED
        BY <3>1, <3>2 DEF Delivered
    <2>2. CASE listed # {}
      BY <1>2, <2>2 DEF ListTables, GoOn
    <2>3. QED
      BY <2>1, <2>2
  <1>3. CASE ListFails
    BY <1>3, <1>c DEF ListFails, Return
  <1>4. ASSUME NEW t \in Tables, PolicyFails(t)
        PROVE  EndsWithWorst'
    BY <1>4, <1>c DEF PolicyFails, Return
  <1>5. ASSUME NEW t \in Tables, ScanTable(t)
        PROVE  EndsWithWorst'
    BY <1>5 DEF ScanTable
  <1>6. ASSUME NEW t \in Tables, ScanFails(t)
        PROVE  EndsWithWorst'
    BY <1>6 DEF ScanFails
  <1>7. CASE EndLoop
    BY <1>7 DEF EndLoop, GoOn
  <1>8. CASE RenderOne
    BY <1>8 DEF RenderOne
  <1>9. CASE RenderedAll
    <2>1. stdout = reports
      BY <1>9, <1>t, RenderedIsReported DEF RenderedAll
    <2>2. todo = {} /\ flags.output # "push"
      BY <1>9 DEF RenderedAll, IInv, ScansSoFar
    <2>3. QED
      BY <1>9, <2>1, <2>2 DEF RenderedAll, AfterEmit, Return, GoOn, Delivered
  <1>10. CASE WriteMetrics
    <2>1. todo = {} /\ flags.output # "push"
      BY <1>10, <1>t DEF WriteMetrics, ScansSoFar
    <2>2. QED
      BY <1>10, <2>1 DEF WriteMetrics, AfterEmit, Return, GoOn, Delivered
  <1>11. CASE WriteFails
    BY <1>11, <1>c DEF WriteFails, Return
  <1>12. CASE Push
    <2>1. todo = {} /\ flags.output = "push"
      BY <1>12, <1>t DEF Push, ScansSoFar, WrittenSoFar
    <2>2. QED
      BY <1>12, <1>c, <2>1 DEF Push, AfterEmit, Return, GoOn, Delivered
  <1>13. CASE WriteAtlas
    <2>1. todo = {} /\ Delivered
      BY <1>13, <1>t DEF WriteAtlas, ScansSoFar, WrittenSoFar
    <2>2. QED
      BY <1>13, <1>c, <2>1 DEF WriteAtlas, Return, Delivered
  <1>14. ASSUME NEW t \in Tables, TableChanges(t)
         PROVE  EndsWithWorst'
    BY <1>14, <1>t DEF TableChanges, Delivered
  <1>15. CASE UNCHANGED vars
    BY <1>15, <1>t DEF vars, Delivered
  <1>16. QED
    BY <1>1, <1>2, <1>3, <1>4, <1>5, <1>6, <1>7, <1>8, <1>9, <1>10, <1>11, <1>12, <1>13,
       <1>14, <1>15 DEF Next, Audit

-----------------------------------------------------------------------------
(* Policies.                                                               *)
LEMMA NextJudged == IInv /\ [Next]_vars => JudgedByMatch'
  <1> SUFFICES ASSUME IInv, [Next]_vars
               PROVE  JudgedByMatch'
    OBVIOUS
  <1>t. TypeOK /\ ScansSoFar /\ JudgedByMatch
    BY DEF IInv
  <1>m. ASSUME UNCHANGED policies, NEW t
        PROVE  Applied(Match(t))' = Applied(Match(t))
    BY <1>m DEF Applied, Match
  <1>1. ASSUME NEW t \in Tables, ScanTable(t)
        PROVE  JudgedByMatch'
    <2> DEFINE r == [table |-> t, severity |-> world[t], thresholds |-> Applied(Match(t))]
    <2>1. world[t] \in Severities /\ t \in todo
      BY <1>1, <1>t DEF ScanTable, TypeOK
    <2>2. /\ reports \in Seq(Report) /\ r \in Report /\ reports' = Append(reports, r)
          /\ UNCHANGED policies
      BY <1>1, <1>t, <2>1, OneMoreReport DEF ScanTable, TypeOK
    <2>3. r.table = t /\ r.thresholds = Applied(Match(t))
      OBVIOUS
    <2> HIDE DEF r
    <2>4. /\ DOMAIN reports' = DOMAIN reports \cup {Len(reports) + 1}
          /\ \A i \in DOMAIN reports : reports'[i] = reports[i]
          /\ reports'[Len(reports) + 1] = r
      BY <2>2, Appended
    <2>5. \A i \in DOMAIN reports' : reports'[i].thresholds = Applied(Match(reports'[i].table))
      BY <1>t, <2>3, <2>4 DEF JudgedByMatch
    <2>6. QED
      BY <1>m, <2>2, <2>5 DEF JudgedByMatch
  <1>2. CASE UNCHANGED <<policies, reports>>
    BY <1>2, <1>t, <1>m DEF JudgedByMatch
  <1>3. ASSUME NEW t \in Tables, ScanFails(t)
        PROVE  UNCHANGED <<policies, reports>>
    BY <1>3 DEF ScanFails
  <1>4. QED
    BY <1>1, <1>2, <1>3, OnlyScansJudge DEF vars

-----------------------------------------------------------------------------
(* The theorems.                                                           *)

(* The invariant is inductive: it holds at the start of an audit and every *)
(* step of the loop, of the emission or of another engine keeps it.        *)
THEOREM Inductive == Spec => []IInv
  <1>1. IInv /\ [Next]_vars => IInv'
    BY NextTypeOK, NextScans, NextWorst, NextWritten, NextEnds, NextJudged DEF IInv
  <1>2. QED
    BY <1>1, InitIInv, PTL DEF Spec

(* Every variable of the audit keeps its type, and no table is reported    *)
(* twice in any of its outputs.                                            *)
THEOREM TypeCorrect == Spec => []TypeOK
  <1>1. IInv => TypeOK
    BY DEF IInv
  <1>2. QED
    BY <1>1, Inductive, PTL

(* An exit code of the audit itself (0, 1 or 2) says that every listed     *)
(* table was scanned, that the reports arrived where the flags send them   *)
(* and the Atlas payload in the file named for it, and that the code is    *)
(* that of the worst of them, whatever failed on the way.                  *)
THEOREM CodeSaysWhatWasFound == Spec => []ExitCodeIsHonest
  <1>1. IInv => ExitCodeIsHonest
    <2> SUFFICES ASSUME IInv, Done, exit \in {OK, Warning, Critical}
                 PROVE  /\ ReportedTables = ids
                        /\ Delivered
                        /\ flags.atlas = "file" => atlas = reports
                        /\ \A i \in DOMAIN reports :
                             ExitFromReport(reports[i].severity) <= exit
                        /\ exit # OK => \E i \in DOMAIN reports :
                             ExitFromReport(reports[i].severity) = exit
      BY DEF ExitCodeIsHonest
    <2>1. exit = worst /\ todo = {} /\ Delivered /\ (flags.atlas = "file" => atlas = reports)
      BY DEF IInv, EndsWithWorst
    <2>2. exit # ConnectionFail
      BY DEF OK, Warning, Critical, ConnectionFail
    <2>3. ReportedTables = ids
      BY <2>1, <2>2 DEF IInv, ScansSoFar
    <2>4. QED
      BY <2>1, <2>3 DEF IInv, WorstSoFar
  <1>2. QED
    BY <1>1, Inductive, PTL

(* A table is judged by the first policy of the file that matches it, and  *)
(* by the spec defaults where that policy sets nothing: what was scanned   *)
(* before it leaves no threshold behind.                                   *)
THEOREM JudgedByItsOwnPolicy == Spec => []OwnPolicyOnly
  <1>1. IInv => OwnPolicyOnly
    <2> SUFFICES ASSUME IInv, NEW i \in DOMAIN reports, NEW d \in Thresholds
                 PROVE  LET r == reports[i] IN
                        IF r.thresholds[d] = Base
                        THEN \/ \A p \in DOMAIN policies : r.table \notin policies[p].match
                             \/ \E p \in DOMAIN policies :
                                  /\ r.table \in policies[p].match /\ d \notin policies[p].sets
                                  /\ \A q \in 1..(p - 1) : r.table \notin policies[q].match
                        ELSE /\ r.table \in policies[r.thresholds[d]].match
                             /\ \A q \in 1..(r.thresholds[d] - 1) :
                                  r.table \notin policies[q].match
      BY DEF OwnPolicyOnly
    <2> DEFINE table == reports[i].table
               m == Match(table)
    <2>1. reports[i].thresholds[d] = IF m # 0 /\ d \in policies[m].sets THEN m ELSE Base
      BY DEF IInv, JudgedByMatch, Applied
    <2>2. policies \in Seq(Policies)
      BY InputTypes DEF IInv
    <2>3. /\ m \in 0..Len(policies)
          /\ m = 0 => \A p \in DOMAIN policies : table \notin policies[p].match
          /\ m # 0 => /\ m \in DOMAIN policies /\ table \in policies[m].match
                      /\ \A q \in 1..(m - 1) : table \notin policies[q].match
      BY <2>2, MatchFirst
    <2> HIDE DEF m, table
    <2>4. CASE m = 0
      BY <2>1, <2>3, <2>4 DEF Base, table
    <2>5. CASE m # 0 /\ d \in policies[m].sets
      BY <2>1, <2>3, <2>5 DEF Base, table
    <2>6. CASE m # 0 /\ d \notin policies[m].sets
      BY <2>1, <2>3, <2>6 DEF Base, table
    <2>7. QED
      BY <2>4, <2>5, <2>6
  <1>2. QED
    BY <1>1, Inductive, PTL

=============================================================================
