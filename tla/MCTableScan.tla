---------------------------- MODULE MCTableScan -----------------------------
(* Small instances of TableScan for TLC.                                   *)
EXTENDS TableScan

CONSTANTS f1, f2

MCTwoFiles == {f1, f2}
MCDeleteFiles == {f2}
=============================================================================
