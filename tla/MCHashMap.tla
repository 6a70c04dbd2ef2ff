----------------------------- MODULE MCHashMap -----------------------------
(* Instances of HashMap, with the hash functions of MCHashSet.               *)
EXTENDS HashMap

CONSTANT a   \* one of the keys

AllHashFns == [Key -> 0 .. 2 ^ HashBits - 1]

\* One key starts at slot 0 with step 1, the others run through all.
TurnedHashFns == {h \in AllHashFns : h[a] = 0}
============================================================================
