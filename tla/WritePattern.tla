---------------------------- MODULE WritePattern ----------------------------
(***************************************************************************)
(* The write-pattern classifier (internal/writepattern/classifier.go) over *)
(* the histories that writers and expire_snapshots can leave in a table.   *)
(* Times are in units of ten seconds; the code has milliseconds.           *)
(***************************************************************************)
EXTENDS Integers, FiniteSets, NewtonRoot

CONSTANTS
    MaxWindow,             \* Thresholds.MaxWindow, 50 in Defaults
    StreamingMaxInterval,  \* Thresholds, in that unit
    BatchMinInterval,
    Steps,      \* time between two commits; negative when clocks disagree
    MaxCommits  \* bound: commits to the table

ASSUME WritePatternAssumption ==
    /\ MaxWindow \in Nat /\ MaxWindow >= 2
    /\ MaxCommits \in Nat
    /\ StreamingMaxInterval \in Nat /\ BatchMinInterval \in Nat
    /\ StreamingMaxInterval < BatchMinInterval
    /\ Steps \subseteq Int

MsPerUnit == 10000

VARIABLES
    snaps,   \* the timestamps of md.Snapshots, in the order of the list
    commits  \* commits so far

patternVars == <<snaps, commits>>

-----------------------------------------------------------------------------
(* A definition preceded by a variant of its name: the variant is a slip   *)
(* that a property below would notice, and no action uses it.              *)

(* The list may be in any order.  The insertion sort is stable: what comes *)
(* after an element is larger, or equal and after it in the list.          *)
After(ts, i) == {j \in DOMAIN ts : ts[j] > ts[i] \/ (ts[j] = ts[i] /\ j > i)}

(* The last n of the history by time.                                      *)
Trailing(ts, n) ==
    [k \in 1..n |-> ts[CHOOSE i \in DOMAIN ts : Cardinality(After(ts, i)) = n - k]]

WindowUntrimmed(ts) == Trailing(ts, Len(ts))
Window(ts) == Trailing(ts, IF Len(ts) > MaxWindow THEN MaxWindow ELSE Len(ts))

(* The time between neighbours, never below zero.                          *)
Intervals(ts) ==
    LET w == Window(ts)
    IN  [i \in 1..(Len(w) - 1) |-> IF w[i + 1] > w[i] THEN w[i + 1] - w[i] ELSE 0]

Median(ds) ==
    LET s == SortSeq(ds, <)
        mid == (Len(ds) \div 2) + 1
    IN  IF Len(ds) % 2 = 1 THEN s[mid] ELSE (s[mid - 1] + s[mid]) \div 2

(* The switch: the variation first, then the median.                       *)
PatternMedianFirst(ds) ==
    CASE Median(ds) > 0 /\ Median(ds) <= StreamingMaxInterval -> "streaming"
      [] Median(ds) >= BatchMinInterval -> "batch"
      [] OTHER -> "mixed"
Pattern(ds) ==
    IF CVAboveOne(ds, MsPerUnit) THEN "mixed"
    ELSE CASE Median(ds) > 0 /\ Median(ds) <= StreamingMaxInterval -> "streaming"
           [] Median(ds) >= BatchMinInterval -> "batch"
           [] OTHER -> "mixed"

(* Result.Pattern and Result.AvgCommitIntervalMs, the latter in units.     *)
Unknown == [pattern |-> "unknown", interval |-> 0]
Classify(ts) ==
    IF Len(ts) < 2 THEN Unknown
    ELSE LET ds == Intervals(ts)
         IN  [pattern |-> Pattern(ds), interval |-> Total(ds) \div Len(ds)]

-----------------------------------------------------------------------------
(* External: what writers do to md.Snapshots.                              *)

PatternInit == snaps = <<>> /\ commits = 0

(* A commit is appended to the list, its time taken from its writer.       *)
Commit(step) ==
    /\ commits < MaxCommits
    /\ commits' = commits + 1
    /\ snaps' = Append(snaps, IF snaps = <<>> THEN 0 ELSE Last(snaps) + step)

(* expire_snapshots removes some snapshot of the list.                     *)
Expire(i) == snaps' = RemoveAt(snaps, i) /\ UNCHANGED commits

PatternNext == \/ \E step \in Steps : Commit(step)
               \/ \E i \in DOMAIN snaps : Expire(i)

-----------------------------------------------------------------------------
(* Properties                                                              *)

Verdict == Classify(snaps)

(* classifier.go:13: "mixed: evidence of both, interval CV > 1.0".  A      *)
(* bursty history is never taken for a regular one, whatever its median.   *)
BurstyIsMixed ==
    Len(snaps) >= 2 /\ TrueCVAboveOne(Intervals(snaps)) => Verdict.pattern = "mixed"

(* A steady writer, whose intervals are ten seconds or more and differ by  *)
(* no more than ten seconds (Jitter), gets the name its median has in the  *)
(* documentation (concepts.html:90-91).  Both bounds are what twelve steps *)
(* allow: they do not reach the root of a larger variance in ms2, and what *)
(* they return for this one may be more than a smaller mean.               *)
Jitter == 1
Steady ==
    LET ds == Intervals(snaps)
    IN  /\ Len(snaps) >= 2
        /\ \A i, j \in DOMAIN ds : ds[i] \in Jitter..(ds[j] + Jitter)
SteadyIsNamed ==
    LET median == Median(Intervals(snaps))
    IN  Steady => /\ Verdict.pattern = "streaming" <=> median \in 1..StreamingMaxInterval
                  /\ Verdict.pattern = "batch" <=> median >= BatchMinInterval

(* What a pattern says of the history it was read from.                    *)
PatternFitsHistory == BurstyIsMixed /\ SteadyIsNamed

(* Expiring old snapshots, beyond the trailing window, changes nothing.    *)
Newer(i) == {j \in DOMAIN snaps : snaps[j] > snaps[i]}
OnlyTheWindowCounts ==
    [][\A i \in DOMAIN snaps :
          snaps' = RemoveAt(snaps, i) /\ Cardinality(Newer(i)) >= MaxWindow
             => Classify(snaps') = Verdict]_patternVars
=============================================================================
