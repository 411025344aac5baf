----------------------------- MODULE PointInTime ----------------------------
(***************************************************************************)
(* What a scan promises while the table changes under it: the report is    *)
(* what the table was at one instant, the lock, or there is no report.     *)
(***************************************************************************)
CONSTANTS
    Views,  \* what a table can look like
    None,   \* nothing locked, nothing reported yet
    Failed  \* the report of a scan that gave up

VARIABLES
    table,   \* what the table looks like now
    locked,  \* what it looked like at the lock
    report   \* what the scan answered

Init == table \in Views /\ locked = None /\ report = None

Change == table' \in Views /\ UNCHANGED <<locked, report>>

Lock == locked = None /\ locked' = table /\ UNCHANGED <<table, report>>

Report ==
    /\ locked # None /\ report = None
    /\ report' \in {locked, Failed}
    /\ UNCHANGED <<table, locked>>

Next == Change \/ Lock \/ Report

Spec == Init /\ [][Next]_<<table, locked, report>>
=============================================================================
