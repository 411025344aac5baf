----------------------------- MODULE MCAuditRun -----------------------------
(* A small instance of AuditRun for TLC.                                   *)
EXTENDS AuditRun

CONSTANTS t1, t2, age, count

MCTables == {t1, t2}
MCThresholds == {age, count}

(* Policies that set one threshold each, one of them invalid.              *)
MCPolicies ==
    {[match |-> m, sets |-> {age}, valid |-> v] : m \in SUBSET MCTables, v \in BOOLEAN}
        \cup {[match |-> m, sets |-> {count}, valid |-> TRUE] : m \in SUBSET MCTables}

(* Every command line without a policy file, and one command line with     *)
(* every pair of policies.                                                 *)
MCInputs ==
    {[flags |-> f, policies |-> <<>>] : f \in Flag}
        \cup {[flags |-> [failOn |-> "warn", output |-> "prometheus", atlas |-> "none"],
               policies |-> <<p, q>>] : p \in MCPolicies, q \in MCPolicies}
=============================================================================
