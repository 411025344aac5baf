------------------------------ MODULE PIIScan -------------------------------
(***************************************************************************)
(* The pii command (internal/cli/pii.go, internal/pii): collect up to      *)
(* --max-files data files of the current snapshot, then open and sample    *)
(* them one by one.  A file that cannot be opened any more is skipped with *)
(* a warning.  A value is abstracted to which regular expressions it       *)
(* matches, whether what looks like a card passes the Luhn check, and      *)
(* whether its length and entropy are those of an API key.                 *)
(***************************************************************************)
EXTENDS SnapshotWalk, Sequences

CONSTANTS
    Groups,      \* Groups[f]: the row groups of file f
    Sample,      \* Sample[g][c]: the values of string column c in group g
    Null,        \* a value that is not there
    Columns,     \* the string columns
    MaxFilesValues, \* the values of --max-files considered
    RowsValues,     \* what --rows-per-group comes to: 1024 unless it is positive
    Confidence   \* --min-confidence in percent

PIITypes == {"EMAIL", "SSN_US", "CREDIT_CARD", "PHONE_E164", "AU_TFN", "IN_AADHAAR"}
Values == [regex : SUBSET PIITypes, luhn : BOOLEAN, key : BOOLEAN]

ASSUME PIIAssumption ==
    /\ MaxFilesValues \subseteq Nat /\ Confidence \in 0..100
    /\ RowsValues \subseteq Nat \ {0} /\ Null \notin Values
    /\ \A f \in DataFiles : /\ IsFiniteSet(Groups[f])
                            /\ \A h \in DataFiles \ {f} : Groups[f] \cap Groups[h] = {}
                            /\ \A g \in Groups[f] : Sample[g] \in [Columns -> Seq(Values \cup {Null})]

VARIABLES
    flags,    \* --max-files, --rows-per-group; --row-group-fraction is 1
    toOpen,   \* the collected files not sampled yet
    skipped,  \* those that could not be opened
    damaged,  \* those whose sampling stopped half way
    tally     \* agg: per column the rows so far, per column and type the matches

Flags == [maxFiles : MaxFilesValues, rows : RowsValues, exhaustive : BOOLEAN]
piiVars == <<flags, toOpen, skipped, damaged, tally>>

-----------------------------------------------------------------------------
(* Helpers.  A definition preceded by a variant of its name: the variant   *)
(* is a slip that a property below would notice, and no action uses it.    *)

(* The files taken from one manifest: all data files, or as many as still  *)
(* fit.                                                                    *)
Sampled(m) == Present(m) \ DeleteFiles
TakenWhole(m) == {Sampled(m)}
Taken(m) ==
    LET room == flags.maxFiles - Cardinality(files)
    IN  IF Cardinality(Sampled(m)) <= room THEN {Sampled(m)} ELSE kSubset(room, Sampled(m))

(* The row groups drawn of a file: each with its probability, or all.      *)
Drawn(f) == IF flags.exhaustive THEN {Groups[f]} ELSE SUBSET Groups[f]

(* Detect: whatever looks like a card, even an invalid one, is no tax file *)
(* number and no Aadhaar number, and only what is nothing else is a key.   *)
DetectAfterLuhn(v) ==
    LET seen == IF v.luhn THEN v.regex \ {"AU_TFN", "IN_AADHAAR"} ELSE v.regex \ {"CREDIT_CARD"}
    IN  IF seen = {} /\ v.key THEN {"API_KEY_ENTROPY"} ELSE seen
Detect(v) ==
    LET valid == IF v.luhn THEN v.regex ELSE v.regex \ {"CREDIT_CARD"}
        seen == IF "CREDIT_CARD" \in v.regex THEN valid \ {"AU_TFN", "IN_AADHAAR"} ELSE valid
    IN  IF seen = {} /\ v.key THEN {"API_KEY_ENTROPY"} ELSE seen
Detected == PIITypes \cup {"API_KEY_ENTROPY"}

(* The values of a column that are read in a group: nulls are passed over, *)
(* and n values are enough.                                                *)
NonNull(c, g) == {i \in DOMAIN Sample[g][c] : Sample[g][c][i] # Null}
Read(c, g, n) == {i \in NonNull(c, g) : Cardinality({j \in NonNull(c, g) : j < i}) < n}

(* Record, for every value read of the groups: it counts the row, and a    *)
(* match for each type detected.                                           *)
Cells(c, groups, n) == UNION {{<<g, i>> : i \in Read(c, g, n)} : g \in groups}
RowsIn(c, groups, n) == Cardinality(Cells(c, groups, n))
MatchesIn(c, t, groups, n) ==
    Cardinality({r \in Cells(c, groups, n) : t \in Detect(Sample[r[1]][c][r[2]])})

NoTally == [rows |-> [c \in Columns |-> 0], matches |-> [c \in Columns |-> [t \in Detected |-> 0]]]
Record(before, groups, n) ==
    [rows |-> [c \in Columns |-> before.rows[c] + RowsIn(c, groups, n)],
     matches |-> [c \in Columns |->
                    [t \in Detected |-> before.matches[c][t] + MatchesIn(c, t, groups, n)]]]

(* Findings: a cell exists once there was a hit.                           *)
Findings(agg) ==
    {f \in Columns \X Detected :
        LET matches == agg.matches[f[1]][f[2]]
        IN  matches > 0 /\ 100 * matches >= Confidence * agg.rows[f[1]]}

(* The code of an error is 5 for the catalog and the storage, 4 for files  *)
(* written; 3 is UntaggedPII.                                              *)
Code(agg) == IF Findings(agg) # {} THEN 3 ELSE 0

-----------------------------------------------------------------------------
PIIInit ==
    /\ flags \in Flags
    /\ toOpen = {} /\ skipped = {} /\ damaged = {}
    /\ tally = NoTally

ReadManifest(m) ==
    /\ phase = "manifests" /\ Cardinality(files) < flags.maxFiles
    /\ m \in pending /\ ManifestObj(m) \in store
    /\ \E taken \in Taken(m) : files' = files \cup taken
    /\ pending' = pending \ {m}
    /\ UNCHANGED <<tableVars, command, flags, phase, locked, toOpen, skipped, damaged, tally, exit>>

(* The manifests are read, or --max-files is reached.                      *)
Collected ==
    /\ phase = "manifests"
    /\ pending = {} \/ Cardinality(files) >= flags.maxFiles
    /\ IF files = {} THEN phase' = "done" /\ exit' = 0 ELSE phase' = "sampling" /\ exit' = exit
    /\ toOpen' = files
    /\ UNCHANGED <<tableVars, command, flags, locked, pending, files, skipped, damaged, tally>>

(* Any error of list or manifest, an object that is gone among them, ends  *)
(* the command, as one of table or metadata does: nothing is reported.     *)
CollectFails ==
    /\ phase \in {"list", "manifests"}
    /\ phase' = "done" /\ exit' = 5
    /\ UNCHANGED <<tableVars, command, flags, locked, pending, files, toOpen, skipped, damaged, tally>>

SampleFile(f) ==
    /\ phase = "sampling" /\ f \in toOpen /\ DataObj(f) \in store
    /\ toOpen' = toOpen \ {f}
    /\ \E groups \in Drawn(f) : tally' = Record(tally, groups, flags.rows)
    /\ UNCHANGED <<tableVars, command, flags, phase, locked, pending, files, skipped, damaged, exit>>

(* Opening or sampling a file that is there fails: a warning, and what was *)
(* recorded stays.                                                         *)
SampleBreaks(f) ==
    /\ phase = "sampling" /\ f \in toOpen /\ DataObj(f) \in store
    /\ toOpen' = toOpen \ {f} /\ damaged' = damaged \cup {f}
    /\ \E groups \in SUBSET Groups[f] : tally' = Record(tally, groups, flags.rows)
    /\ UNCHANGED <<tableVars, command, flags, phase, locked, pending, files, skipped, exit>>

SkipFile(f) ==
    /\ phase = "sampling" /\ f \in toOpen /\ DataObj(f) \notin store
    /\ toOpen' = toOpen \ {f} /\ skipped' = skipped \cup {f}
    /\ UNCHANGED <<tableVars, command, flags, phase, locked, pending, files, damaged, tally, exit>>

(* The Atlas payload, the output, then the code.  Of a payload printed to  *)
(* standard output and of a text the errors are dropped; a payload file or *)
(* a JSON document that cannot be written ends the command.                *)
ReportFindings ==
    /\ phase = "sampling" /\ toOpen = {}
    /\ phase' = "done" /\ exit' = Code(tally)
    /\ UNCHANGED <<tableVars, command, flags, locked, pending, files, toOpen, skipped, damaged, tally>>

WriteFails ==
    /\ phase = "sampling" /\ toOpen = {}
    /\ phase' = "done" /\ exit' = 4
    /\ UNCHANGED <<tableVars, command, flags, locked, pending, files, toOpen, skipped, damaged, tally>>

PIIStep ==
    \/ Walk /\ UNCHANGED piiVars
    \/ Collected \/ CollectFails \/ ReportFindings \/ WriteFails
    \/ \E m \in Snaps : ReadManifest(m)
    \/ \E f \in DataFiles : SampleFile(f) \/ SampleBreaks(f) \/ SkipFile(f)

-----------------------------------------------------------------------------
(* Properties                                                              *)

(* Files are opened once each, and no more than --max-files are collected. *)
PIITypeOK ==
    /\ flags \in Flags
    /\ command = "pii" => Cardinality(files) <= flags.maxFiles
    /\ toOpen \cup skipped \cup damaged \subseteq files
    /\ tally \in [rows : [Columns -> Nat], matches : [Columns -> [Detected -> Nat]]]

(* An exhaustive scan without a warning, whose limits have room for the    *)
(* snapshot (no more data files than --max-files, no more values of a      *)
(* column in a row group than --rows-per-group), answers for all of it: it *)
(* exits with 3 only if in some column the hit rate of some type over all  *)
(* values that are there reaches the confidence, and whenever one exceeds  *)
(* it, although files are tallied one by one.  Of values that look like a  *)
(* card only the valid ones count, and none as anything of fewer digits.   *)
Kind(v) ==
    IF "CREDIT_CARD" \in v.regex
    THEN (v.regex \ {"AU_TFN", "IN_AADHAAR", "CREDIT_CARD"}) \cup (IF v.luhn THEN {"CREDIT_CARD"} ELSE {})
    ELSE v.regex
TargetData == TargetFiles \ DeleteFiles
TargetGroups == UNION {Groups[f] : f \in TargetData}
RowsOf(c) == UNION {{<<g, i>> : i \in NonNull(c, g)} : g \in TargetGroups}
Hits(c, t) ==
    {r \in RowsOf(c) : LET v == Sample[r[1]][c][r[2]]
                       IN  t \in Kind(v) \/ (t = "API_KEY_ENTROPY" /\ Kind(v) = {} /\ v.key)}
Reaches(c, t) ==
    Hits(c, t) # {} /\ 100 * Cardinality(Hits(c, t)) >= Confidence * Cardinality(RowsOf(c))
Exceeds(c, t) ==
    Hits(c, t) # {} /\ 100 * Cardinality(Hits(c, t)) > Confidence * Cardinality(RowsOf(c))
WholeSnapshotRead ==
    /\ command = "pii" /\ phase = "done" /\ exit \in {0, 3}
    /\ flags.exhaustive /\ skipped = {} /\ damaged = {}
    /\ Cardinality(TargetData) <= flags.maxFiles
    /\ \A g \in TargetGroups, c \in Columns : Cardinality(NonNull(c, g)) <= flags.rows
ExhaustiveIsExact ==
    WholeSnapshotRead =>
        /\ exit = 3 => \E c \in Columns, t \in Detected : Reaches(c, t)
        /\ (\E c \in Columns, t \in Detected : Exceeds(c, t)) => exit = 3
=============================================================================
