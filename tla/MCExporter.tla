----------------------------- MODULE MCExporter -----------------------------
(* A small instance of Exporter for TLC.  The liveness properties need all *)
(* states to be told apart, so there is no symmetry.                       *)
EXTENDS Exporter

CONSTANTS t1, t2, c1

MCTables == {t1, t2}
MCClients == {c1}
=============================================================================
