------------------------------- MODULE Bench --------------------------------
(***************************************************************************)
(* bench start and bench compare (internal/cli/bench.go): a baseline is a  *)
(* file named after table and tag, written in place by start and read back *)
(* by compare, possibly by several CI jobs at once and by jobs that are    *)
(* killed half way.  A scan is abstracted to the state of the table it     *)
(* saw, which only its serial number tells apart.                          *)
(***************************************************************************)
EXTENDS Naturals, FiniteSets

CONSTANTS
    Jobs,       \* processes, each a start or a compare
    Tables,     \* the tables of the catalog, as TableID.String() writes them
    Arguments,  \* what a user may give as --table
    IdOf,       \* IdOf[a]: the table ParseTableID makes of argument a
    Tags,       \* what a user may give as --tag
    FileName,   \* FileName[<<s, tag>>]: sanitizeFilename(s + "_" + tag)
    Length,     \* Length[n]: length of a baseline of state n
    MaxState    \* bound: states each table goes through

ASSUME BenchAssumption ==
    /\ Tables \subseteq Arguments
    /\ IdOf \in [Arguments -> Tables] /\ \A t \in Tables : IdOf[t] = t
    /\ MaxState \in Nat /\ Length \in [0..MaxState -> Nat \ {0}]
    /\ DOMAIN FileName = Arguments \X Tags

(* What a file can hold: a baseline, or bytes that are not one.            *)
Baseline == [table : Tables, tag : Tags, state : 0..MaxState]
Absent == [kind |-> "absent", length |-> 0]
Empty == [kind |-> "torn", length |-> 0]
Whole(b) == [kind |-> "whole", length |-> Length[b.state], baseline |-> b]
Torn(n) == [kind |-> "torn", length |-> n]

VARIABLES
    table,     \* table[t]: the state of t, that is how often it changed
    disk,      \* disk[f]: the contents of file f of --bench-dir
    job,       \* the jobs
    captured   \* history: the baselines start has scanned

benchVars == <<table, disk, job, captured>>

Files == {FileName[k] : k \in DOMAIN FileName}
JobKinds == {"start", "compare"}
NoBaseline == [table |-> "none", tag |-> "none", state |-> 0]
NewJob(kind, arg, tag) ==
    [command |-> kind, arg |-> arg, tag |-> tag, pc |-> "begin", baseline |-> NoBaseline,
     body |-> Empty]

-----------------------------------------------------------------------------
(* Helpers.  A definition preceded by a variant of its name: the variant   *)
(* is a slip that a property below would notice, and no action uses it.    *)

(* start names the file after the table, compare after the argument.       *)
FileToWrite(j) == FileName[<<IdOf[j.arg], j.tag>>]
FileToRead(j) == FileName[<<j.arg, j.tag>>]

(* One write of the whole baseline, from the beginning of the file; bytes  *)
(* of two baselines are taken not to parse.                                *)
OverwrittenTailIgnored(old, b) ==
    [Whole(b) EXCEPT !.length = IF old.length > @ THEN old.length ELSE @]
Overwritten(old, b) == IF old.length > Length[b.state] THEN Torn(old.length) ELSE Whole(b)

(* What has been read of a file, and the rest of what is in it now.        *)
ReadOn(body, c) == IF body = Empty THEN c ELSE Torn(c.length)

(* json.Unmarshal of what was read.                                        *)
ParsesAnything(c) == c.kind # "absent"
Parses(c) == c.kind = "whole"
Decoded(c) == IF c.kind = "whole" THEN c.baseline ELSE NoBaseline

-----------------------------------------------------------------------------
BenchInit ==
    /\ table = [t \in Tables |-> 0]
    /\ disk = [f \in Files |-> Absent]
    /\ job \in [Jobs -> {NewJob(c, a, g) : c \in JobKinds, a \in Arguments, g \in Tags}]
    /\ captured = {}

(* runBenchScan of a start: a report of the table as it is.                *)
StartScan(j) ==
    /\ job[j].command = "start" /\ job[j].pc = "begin"
    /\ LET t == IdOf[job[j].arg]
           b == [table |-> t, tag |-> job[j].tag, state |-> table[t]]
       IN  /\ job' = [job EXCEPT ![j].pc = "open", ![j].baseline = b]
           /\ captured' = captured \cup {b}
    /\ UNCHANGED <<table, disk>>

(* os.WriteFile opens with O_TRUNC and then writes.                        *)
Open(j) ==
    /\ job[j].pc = "open"
    /\ disk' = [disk EXCEPT ![FileToWrite(job[j])] = Empty]
    /\ job' = [job EXCEPT ![j].pc = "write"]
    /\ UNCHANGED <<table, captured>>

Write(j) ==
    /\ job[j].pc = "write"
    /\ LET f == FileToWrite(job[j])
       IN  disk' = [disk EXCEPT ![f] = Overwritten(@, job[j].baseline)]
    /\ job' = [job EXCEPT ![j].pc = "ok"]
    /\ UNCHANGED <<table, captured>>

(* readBaseline, before the scan: an absent file is "no baseline".         *)
CompareOpen(j) ==
    /\ job[j].command = "compare" /\ job[j].pc = "begin"
    /\ job' = [job EXCEPT ![j].pc = IF disk[FileToRead(job[j])] = Absent THEN "nobaseline" ELSE "read"]
    /\ UNCHANGED <<table, disk, captured>>

(* os.ReadFile reads on from where it is, until there is nothing more.     *)
CompareRead(j) ==
    LET c == disk[FileToRead(job[j])] IN
    /\ job[j].pc = "read" /\ c.length > job[j].body.length
    /\ job' = [job EXCEPT ![j].body = ReadOn(@, c)]
    /\ UNCHANGED <<table, disk, captured>>

CompareDecode(j) ==
    /\ job[j].pc = "read" /\ disk[FileToRead(job[j])].length <= job[j].body.length
    /\ job' = [job EXCEPT ![j].pc = IF Parses(job[j].body) THEN "scan" ELSE "error",
                          ![j].baseline = Decoded(job[j].body), ![j].body = Empty]
    /\ UNCHANGED <<table, disk, captured>>

(* The scan and the diff.                                                  *)
CompareScan(j) ==
    /\ job[j].pc = "scan"
    /\ job' = [job EXCEPT ![j].pc = "ok"]
    /\ UNCHANGED <<table, disk, captured>>

(* A scan or a write fails, or the process is killed.                      *)
Fail(j) ==
    /\ job[j].pc \in {"begin", "open", "write", "read", "scan"}
    /\ job' = [job EXCEPT ![j].pc = "error"]
    /\ UNCHANGED <<table, disk, captured>>

(* A write that stops half way: the disk is full, the process is killed.   *)
ShortWrite(j) ==
    /\ job[j].pc = "write"
    /\ LET f == FileToWrite(job[j])
       IN  disk' = [disk EXCEPT ![f] = Torn(IF @.length = 0 THEN 1 ELSE @.length)]
    /\ job' = [job EXCEPT ![j].pc = "error"]
    /\ UNCHANGED <<table, captured>>

(* External: maintenance or a writer changes a table.                      *)
TableChanges(t) ==
    /\ table[t] < MaxState
    /\ table' = [table EXCEPT ![t] = @ + 1]
    /\ UNCHANGED <<disk, job, captured>>

Job(j) ==
    \/ StartScan(j) \/ Open(j) \/ Write(j) \/ ShortWrite(j)
    \/ CompareOpen(j) \/ CompareRead(j) \/ CompareDecode(j) \/ CompareScan(j) \/ Fail(j)

BenchNext == (\E j \in Jobs : Job(j)) \/ (\E t \in Tables : TableChanges(t))

BenchSpec == BenchInit /\ [][BenchNext]_benchVars

-----------------------------------------------------------------------------
(* Properties                                                              *)

Compared(j) == job[j].command = "compare" /\ job[j].pc = "ok"

(* Every variable keeps its type.  A file is one baseline, or visibly not. *)
BenchTypeOK ==
    /\ table \in [Tables -> 0..MaxState]
    /\ \A f \in Files : disk[f].kind \in {"absent", "torn", "whole"}
    /\ \A f \in Files : disk[f].kind = "whole" => disk[f] = Whole(disk[f].baseline)
    /\ captured \subseteq Baseline
    /\ \A j \in Jobs : job[j].pc \in
          {"begin", "open", "write", "read", "scan", "nobaseline", "error", "ok"}

(* site/docs/bench.html:32: capture, run your maintenance, re-scan, and    *)
(* print the delta.  What compare reports a delta against was captured by  *)
(* some start, as a whole, of that table under that tag: two starts of one *)
(* tag at once, a start that goes on while it is read, one that is killed  *)
(* or a disk that is full never make up a baseline.                        *)
DeltaOfACapture ==
    \A j \in Jobs : Compared(j) =>
        /\ job[j].baseline \in captured
        /\ job[j].baseline.table = IdOf[job[j].arg] /\ job[j].baseline.tag = job[j].tag
=============================================================================
