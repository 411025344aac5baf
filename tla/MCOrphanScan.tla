---------------------------- MODULE MCOrphanScan ----------------------------
(* Small instances of OrphanScan for TLC.                                  *)
EXTENDS OrphanScan

CONSTANTS f1, f2

MCTwoFiles == {f1, f2}
MCOneFile == {f1}

(* One of the two data files is listed without a modification time.        *)
MCTimeless == {DataObj(f1)}
MCNone == {}

(* The default prefix <location>/data, and the table location itself, with *)
(* one manifest, one manifest list and one metadata file standing for all. *)
MCDataPrefix == {o \in Objects : o.kind = "data"}
MCTablePrefix == MCDataPrefix \cup {ManifestObj(1), ListObj(1), MetadataObj(0)}

(* The names that the format gives to metadata files and manifest lists.   *)
MCNamedMetadata == {o \in Objects : o.kind \in {"metadata", "list"}}
=============================================================================
