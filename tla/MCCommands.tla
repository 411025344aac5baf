----------------------------- MODULE MCCommands -----------------------------
(* A small instance of Commands for TLC.                                   *)
EXTENDS Commands, TLC

CONSTANTS f1, f2, d

(* One data file with two row groups, another with one, and a delete file. *)
(* Column "a" has valid cards in the first group only, and nulls; column   *)
(* "b" has invalid cards, which look like Aadhaar numbers, and what may be *)
(* a key, three values in one group.                                       *)
MCFiles == {f1, f2, d}
MCDeleteFiles == {d}
MCGroups ==
    [f \in MCFiles |-> CASE f = f1 -> {<<f1, 1>>, <<f1, 2>>} [] f = f2 -> {<<f2, 1>>} [] f = d -> {}]
Card(luhn) == [regex |-> {"CREDIT_CARD", "IN_AADHAAR"}, luhn |-> luhn, key |-> FALSE]
Key == [regex |-> {}, luhn |-> FALSE, key |-> TRUE]
Plain == [regex |-> {}, luhn |-> FALSE, key |-> FALSE]
MCSample ==
    (<<f1, 1>> :> [c \in {"a", "b"} |-> IF c = "a" THEN <<Card(TRUE), Card(TRUE)>> ELSE <<Card(FALSE)>>])
    @@ (<<f1, 2>> :> [c \in {"a", "b"} |-> IF c = "a" THEN <<Null, Null, Plain>> ELSE <<>>])
    @@ (<<f2, 1>> :> [c \in {"a", "b"} |-> IF c = "a" THEN <<Plain>> ELSE <<Card(FALSE), Card(FALSE), Key>>])

(* All in the cloud; the first snapshot still on HDFS; a bare location     *)
(* with a property; an old format.                                         *)
Cloud == [location |-> "cloud", metadata |-> "cloud", lists |-> [s \in Snaps |-> "cloud"],
          properties |-> {}, version |-> 2]
MCLayouts ==
    {Cloud,
     [Cloud EXCEPT !.lists[1] = "hdfs"],
     [Cloud EXCEPT !.location = "bare", !.properties = {"write.metadata.path"}],
     [Cloud EXCEPT !.version = 1]}
=============================================================================
