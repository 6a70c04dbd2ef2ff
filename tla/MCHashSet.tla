---------------------------- MODULE MCHashSet ----------------------------
(* Instances of HashSet.  The probe sequence depends on the hash only by its *)
(* start (low bits) and its step (high bits, made odd).  With HashBits =     *)
(* 2 * Exp - 1 every pair of start and step belongs to some hash.            *)
EXTENDS HashSet

CONSTANTS a, b   \* two of the keys

AllHashFns == [Key -> 0 .. 2 ^ HashBits - 1]

\* Two keys share their whole probe sequence, the others run through all.
CollidingHashFns == {h \in AllHashFns : h[a] = 0 /\ h[b] = 0}
============================================================================
