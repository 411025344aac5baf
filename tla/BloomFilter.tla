---------------------------- MODULE BloomFilter -----------------------------
(***************************************************************************)
(* internal/bloom/bloom.go: a Bloom filter with double hashing.  The two   *)
(* FNV digests of a key are constants: nothing depends on which they are.  *)
(* The scan fills the filter first (buildActiveSet) and tests it later.    *)
(***************************************************************************)
EXTENDS Integers, FiniteSets

CONSTANTS
    Key,        \* keys that are added or tested
    NoKey,      \* no key: nothing tested yet
    h1, h2,     \* digests of each key
    Word,       \* 2^64: arithmetic on digests wraps around
    WordBits,   \* 64: bits come in words
    Want,       \* ceil(-n ln p / ln2^2), the bits the estimate asks for
    Hashes,     \* round(m/n ln2), the probes the estimate asks for
    MaxAdds     \* bound: calls of Add

ASSUME BloomAssumption ==
    /\ Word \in Nat \ {0}
    /\ h1 \in [Key -> 0..Word-1]
    /\ h2 \in [Key -> 0..Word-1]
    /\ WordBits \in Nat \ {0}
    /\ Want \in Nat
    /\ Hashes \in Nat
    /\ MaxAdds \in Nat

VARIABLES
    bits,    \* indices of the bits that are set
    count,   \* calls of Add so far
    added,   \* history: the keys added
    answer   \* the last Test and its result

bloomVars == <<bits, count, added, answer>>

-----------------------------------------------------------------------------
(* A definition preceded by a variant of its name: the variant is a slip   *)
(* that a property below would notice, and no action uses it.              *)

(* New: at least one word, rounded up to whole words; 1 to 30 probes.      *)
RoundUp(m) == IF m % WordBits = 0 THEN m ELSE m + (WordBits - (m % WordBits))
mBits == IF Want < WordBits THEN WordBits ELSE RoundUp(Want)
k == IF Hashes < 1 THEN 1 ELSE IF Hashes > 30 THEN 30 ELSE Hashes

SlotOutside(x, i) == (h1[x] + i * h2[x]) % Word
Slot(x, i) == ((h1[x] + i * h2[x]) % Word) % mBits
SlotsButLast(x) == {Slot(x, i) : i \in 1..k-1}
Slots(x) == {Slot(x, i) : i \in 0..k-1}

BloomInit ==
    /\ bits = {}
    /\ count = 0
    /\ added = {}
    /\ answer = [key |-> NoKey, found |-> FALSE]

AddButLast(x) ==
    /\ count < MaxAdds
    /\ bits' = bits \cup SlotsButLast(x)
    /\ count' = count + 1
    /\ added' = added \cup {x}
    /\ UNCHANGED answer

Add(x) ==
    /\ count < MaxAdds
    /\ bits' = bits \cup Slots(x)
    /\ count' = count + 1
    /\ added' = added \cup {x}
    /\ UNCHANGED answer

TestOneMore(x) ==
    /\ answer' = [key |-> x, found |-> Slots(x) \cup {Slot(x, k)} \subseteq bits]
    /\ UNCHANGED <<bits, count, added>>

Test(x) ==
    /\ answer' = [key |-> x, found |-> Slots(x) \subseteq bits]
    /\ UNCHANGED <<bits, count, added>>

BloomNext == \E x \in Key : Add(x) \/ Test(x)

BloomSpec == BloomInit /\ [][BloomNext]_bloomVars

-----------------------------------------------------------------------------
(* Every variable keeps its type; indices stay inside the bit array.       *)
BloomTypeOK ==
    /\ bits \in SUBSET (0..mBits-1)
    /\ count \in 0..MaxAdds
    /\ added \in SUBSET Key
    /\ answer.found \in BOOLEAN

(* bloom.go:76-77: a negative answer is definite.  Every bit of every key  *)
(* that was added is set, whatever was added before and since.             *)
NoFalseNegatives == \A x \in added : Slots(x) \subseteq bits

(* The filter is an approximate set.                                       *)
Approx == INSTANCE ApproxSet WITH members <- added
IsApproxSet == Approx!Spec
=============================================================================
