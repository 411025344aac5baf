--------------------------- MODULE MCBloomFilter ----------------------------
(* Four keys in a filter of two four-bit words; digests that wrap, collide *)
(* and repeat.                                                             *)
EXTENDS BloomFilter

MCKey == {"a", "b", "c", "d"}
MCh1 == [x \in MCKey |-> CASE x = "a" -> 3 [] x = "b" -> 30 [] x = "c" -> 12 [] x = "d" -> 9]
MCh2 == [x \in MCKey |-> CASE x = "a" -> 9 [] x = "b" -> 5 [] x = "c" -> 16 [] x = "d" -> 11]
=============================================================================
