------------------------------ MODULE MCBench -------------------------------
(* A small instance of Bench for TLC.                                      *)
EXTENDS Bench, TLC

CONSTANTS j1, j2, j3

MCJobs == {j1, j2, j3}
MCSymmetry == Permutations(MCJobs)

(* Every table by its own name, and names that do not meet.                *)
MCTables == {"ns.t", "ns.u"}
MCTags == {"before", "after"}
MCIdOf == [t \in MCTables |-> t]
MCFileName == [k \in MCTables \X MCTags |-> k]

(* A baseline of a table without figures is shorter.                       *)
MCLength == [n \in 0..1 |-> n + 2]
=============================================================================
