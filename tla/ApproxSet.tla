----------------------------- MODULE ApproxSet ------------------------------
(***************************************************************************)
(* What a Bloom filter promises: a set that only grows, whose membership   *)
(* test never denies a member and may accept a stranger.                   *)
(***************************************************************************)
CONSTANTS
    Key,   \* the keys
    NoKey  \* no key: nothing tested yet

VARIABLES
    members,  \* the keys added so far
    answer    \* the last test: a key and the verdict

NoAnswer == [key |-> NoKey, found |-> FALSE]

Init == members = {} /\ answer = NoAnswer

Add(x) == members' = members \cup {x} /\ UNCHANGED answer

Test(x) ==
    /\ \E found \in BOOLEAN :
         /\ x \in members => found
         /\ answer' = [key |-> x, found |-> found]
    /\ UNCHANGED members

Next == \E x \in Key : Add(x) \/ Test(x)

Spec == Init /\ [][Next]_<<members, answer>>
=============================================================================
