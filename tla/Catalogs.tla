------------------------------ MODULE Catalogs ------------------------------
(***************************************************************************)
(* The catalog of a run (buildCatalogFromAudit in internal/cli/audit.go):  *)
(* --catalog selects one of them, which the whole run then lists and loads *)
(* its tables from.  A catalog that lacks the flag it requires is an error *)
(* of the command and no catalog.                                          *)
(***************************************************************************)
EXTENDS CatalogListing, LocalFSCatalog, HiveCatalog

vars == <<listingVars, treeVars, hiveVars>>

Kinds == {"localfs", "glue", "rest", "hive"}

Init ==
    /\ catalog \in Kinds /\ ListingInit /\ TreeInit /\ HiveInit
    /\ catalog # "hive" => call = "get_table"

Served == catalog \in {"glue", "rest"} /\ ListingNext /\ UNCHANGED <<treeVars, hiveVars>>
Local  == catalog = "localfs" /\ TreeNext /\ UNCHANGED <<listingVars, hiveVars>>
Called == catalog = "hive" /\ HiveNext /\ UNCHANGED <<listingVars, treeVars>>

Next == Served \/ Local \/ Called

Spec == Init /\ [][Next]_vars

-----------------------------------------------------------------------------
(* Every variable keeps its type, and no table is listed twice.            *)
TypeOK == catalog \in Kinds /\ ListingTypeOK /\ TreeTypeOK /\ HiveTypeOK
=============================================================================
