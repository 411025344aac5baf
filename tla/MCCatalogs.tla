----------------------------- MODULE MCCatalogs -----------------------------
(* A small instance of Catalogs for TLC.                                   *)
EXTENDS Catalogs

CONSTANTS sales, eu, orders

(* Directories orders and sales/eu/orders under the root; the first is     *)
(* named as HadoopCatalog does, and gets a tenth version.                  *)
MCPaths == {<<<<orders>>>>, <<<<sales>>, <<orders>>>>, <<<<sales>>, <<eu>>, <<orders>>>>}
MCNaming == [p \in MCPaths |-> IF Len(p) = 1 THEN "hadoop" ELSE "padded"]

(* Two spellings of the location, two values and the empty one; databases  *)
(* of none, one and two tables.                                            *)
MCLocationKeys == <<"metadata_location", "MetadataLocation">>
MCLocations == {"", "v1", "v2"}
MCHiveTables == {<<>>, <<"a">>, <<"a", "b">>}
=============================================================================
