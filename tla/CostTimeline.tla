---------------------------- MODULE CostTimeline ----------------------------
(***************************************************************************)
(* The cost timeline of a table (internal/cost/cost.go) over the histories *)
(* that writers, rollbacks and expire_snapshots can leave in it.  Bytes    *)
(* and times are small numbers; the factor from bytes to GB and dollars,   *)
(* and the mark of old snapshots as candidates for a cold tier, are left   *)
(* out.                                                                    *)
(***************************************************************************)
EXTENDS Integers, SequencesExt

CONSTANTS
    FileBytes,       \* how many bytes a commit may add or remove
    TimeSteps,       \* time between two commits; 0 or less when clocks disagree
    MaxTimelineCommits  \* bound: commits to the table

ASSUME TimelineAssumption ==
    FileBytes \subseteq Nat /\ TimeSteps \subseteq Int /\ MaxTimelineCommits \in Nat

VARIABLES
    history,  \* md.Snapshots: time, the sizes in the summary, and the truth
    current,  \* the bytes of the current snapshot
    made,     \* commits so far
    spoilt    \* history: what happened to the table beside commits in order

timelineVars == <<history, current, made, spoilt>>

-----------------------------------------------------------------------------
(* A definition preceded by a variant of its name: the variant is a slip   *)
(* that a property below would notice, and no action uses it.              *)

(* One round of the loop: added-files-size and removed-files-size, which   *)
(* are 0 where the summary does not have them, and never below zero.       *)
CumulateAdded(sum, s) == sum + s.added
Cumulate(sum, s) == LET next == sum + s.added - s.removed
                    IN  IF next < 0 THEN 0 ELSE next

(* The orders sort.Slice may bring the snapshots into: it is not stable,   *)
(* and of two at the same instant either comes first.                      *)
ByTime ==
    {p \in [DOMAIN history -> DOMAIN history] :
        /\ \A i, j \in DOMAIN history : p[i] = p[j] => i = j
        /\ \A i, j \in DOMAIN history : i < j => history[p[i]].at <= history[p[j]].at}

(* CumulativeGB of every snapshot, in that order; none before the first.   *)
Timeline(p) ==
    LET sum[i \in 0..Len(history)] ==
            IF i = 0 THEN 0 ELSE Cumulate(sum[i - 1], history[p[i]])
    IN  sum

-----------------------------------------------------------------------------
(* External: what becomes of the table.                                    *)

TimelineInit == history = <<>> /\ current = 0 /\ made = 0 /\ spoilt = {}

(* A commit, whose writer may leave the sizes out of the summary.          *)
CommitBytes(step, add, remove, stated) ==
    /\ made < MaxTimelineCommits
    /\ remove <= current
    /\ made' = made + 1
    /\ current' = current + add - remove
    /\ history' = Append(history,
         [at |-> IF history = <<>> THEN 0 ELSE Last(history).at + step,
          added |-> IF stated THEN add ELSE 0, removed |-> IF stated THEN remove ELSE 0,
          bytes |-> current'])
    /\ spoilt' = spoilt \cup (IF stated THEN {} ELSE {"unsized"})
                        \cup (IF step > 0 THEN {} ELSE {"clock"})

RollBackTo(i) ==
    /\ current' = history[i].bytes
    /\ spoilt' = spoilt \cup {"rollback"}
    /\ UNCHANGED <<history, made>>

ExpireFirst ==
    /\ Len(history) > 1
    /\ history' = Tail(history)
    /\ spoilt' = spoilt \cup {"expiry"}
    /\ UNCHANGED <<current, made>>

TimelineNext ==
    \/ \E step \in TimeSteps, add \in FileBytes, remove \in FileBytes, stated \in BOOLEAN :
          CommitBytes(step, add, remove, stated)
    \/ \E i \in DOMAIN history : RollBackTo(i)
    \/ ExpireFirst

-----------------------------------------------------------------------------
(* Properties                                                              *)

(* site/docs/cost.html:35: cumulative bytes per snapshot.  In a table of   *)
(* commits in order with their sizes, each point is what the snapshot      *)
(* holds; once old snapshots have expired, what they held is missing from  *)
(* it, but no point claims more than there is, although the sum is cut off *)
(* at zero on its way.  After a rollback nothing of the kind holds: bytes  *)
(* of the snapshots that were rolled back still count.                     *)
NoBytesInvented ==
    \A p \in ByTime : \A i \in DOMAIN history :
        /\ spoilt = {} => Timeline(p)[i] = history[p[i]].bytes
        /\ spoilt = {"expiry"} => Timeline(p)[i] <= history[p[i]].bytes
=============================================================================
