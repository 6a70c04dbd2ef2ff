------------------------------ MODULE HashSet ------------------------------
(***************************************************************************)
(* The open-addressing set of builtin/set.h with the probe sequence of     *)
(* builtin/hash.h (mask, step, index), run as the code runs it: a call is  *)
(* a loop, and one action looks at one slot.  A deleted key leaves a       *)
(* tombstone; an empty slot holds StrNull, which ALLOC_ZERO puts there.    *)
(***************************************************************************)
EXTENDS Integers, FiniteSets

CONSTANTS
  Key,       \* the keys callers use, up to str_equal: any string but {0, 0}
  StrNull,   \* the string {0, 0}, the mark of an empty slot
  Tomb,      \* the string {-1, 0}, the mark of a deleted key
  Exp,       \* the exponent of the capacity
  HashBits,  \* width of the hash (64 in the code)
  HashFns    \* hash functions to consider, Key -> 0 .. 2^HashBits - 1

Cap == 2 ^ Exp

ASSUME KeyAssumption ==
  StrNull \notin Key /\ Tomb \notin Key /\ StrNull # Tomb
ASSUME ExpAssumption ==
  /\ HashBits \in Nat /\ Exp \in 1 .. HashBits
  /\ Cap \in Nat \ {0} /\ 2 ^ (HashBits - Exp) \in Nat \ {0} /\ 2 ^ HashBits \in Nat
ASSUME HashAssumption == HashFns \subseteq [Key -> 0 .. 2 ^ HashBits - 1]

VARIABLES
  hash,   \* the hash function, fixed for the run
  slots,  \* m->buf
  len,    \* m->len
  call,   \* the call under way: its function, key, and the loop's i and count
  res     \* the last call that returned, and what it returned

vars == <<hash, slots, len, call, res>>

Slot == 0 .. Cap - 1
Fn == {"lookup", "insert", "delete"}
NoCall == [fn |-> "none", key |-> StrNull, i |-> 0, count |-> 0]

IsEmpty(s) == s = StrNull
IsTomb(s) == s = Tomb

\* unsigned step = hash >> (64 - exp) | 1: the high bits, made odd.
MsiStep(h) == LET high == h \div 2 ^ (HashBits - Exp)
              IN  IF high % 2 = 0 THEN high + 1 ELSE high

\* hash64_msi_next
MsiNext(h, i) == (i + MsiStep(h)) % Cap

Copies(k) == Cardinality({i \in Slot : slots[i] = k})

Init ==
  /\ hash \in HashFns
  /\ slots = [i \in Slot |-> StrNull]
  /\ len = 0
  /\ call = NoCall
  /\ res = [fn |-> "none", key |-> StrNull, ret |-> -1]

Return(fn, k, ret) ==
  /\ call' = NoCall
  /\ res' = [fn |-> fn, key |-> k, ret |-> ret]

----------------------------------------------------------------------------
\* The head of a call: an early return, or the loop with i = hash (its low bits
\* are all that survive the mask).

Enter(fn, k) ==
  /\ call' = [fn |-> fn, key |-> k, i |-> hash[k] % Cap, count |-> 0]
  /\ UNCHANGED res

Begin(fn, k) ==
  LET refused == IF fn = "insert" THEN len + 1 > Cap ELSE len = 0 IN
  /\ call = NoCall
  /\ \/ refused /\ Return(fn, k, -1)
     \/ ~refused /\ Enter(fn, k)
  /\ UNCHANGED <<hash, slots, len>>

----------------------------------------------------------------------------
\* One turn of the loop

At == MsiNext(hash[call.key], call.i)
Seeking == call.fn \in {"lookup", "delete"}

GoOn(count) ==
  /\ call' = [call EXCEPT !.i = At, !.count = count]
  /\ UNCHANGED <<hash, slots, len, res>>

Stop(ret) == Return(call.fn, call.key, ret) /\ UNCHANGED hash

\* The chain of the key ends here: it is not in the table.
FindEmpty == Seeking /\ IsEmpty(slots[At]) /\ Stop(-1) /\ UNCHANGED <<slots, len>>

\* Mutant: a tombstone ends the chain.
StopAtTomb ==
  Seeking /\ IsTomb(slots[At]) /\ Stop(-1) /\ UNCHANGED <<slots, len>>

\* continue: a tombstone is passed without being counted.
PassTomb == Seeking /\ IsTomb(slots[At]) /\ GoOn(call.count)

\* Mutant: the index is counted from one.
LookupHitFromOne ==
  /\ call.fn = "lookup" /\ slots[At] = call.key /\ ~IsEmpty(slots[At])
  /\ Stop(At + 1)
  /\ UNCHANGED <<slots, len>>

LookupHit ==
  /\ call.fn = "lookup" /\ slots[At] = call.key /\ ~IsEmpty(slots[At])
  /\ Stop(At)
  /\ UNCHANGED <<slots, len>>

\* Mutants: the slot becomes empty; len is not adjusted.
DeleteToEmpty(ret) ==
  /\ call.fn = "delete" /\ slots[At] = call.key /\ ~IsEmpty(slots[At])
  /\ slots' = [slots EXCEPT ![At] = StrNull]
  /\ len' = len - 1
  /\ Stop(ret)
DeleteKeepLen(ret) ==
  /\ call.fn = "delete" /\ slots[At] = call.key /\ ~IsEmpty(slots[At])
  /\ slots' = [slots EXCEPT ![At] = Tomb]
  /\ UNCHANGED len
  /\ Stop(ret)

DeleteHit(ret) ==
  /\ call.fn = "delete" /\ slots[At] = call.key /\ ~IsEmpty(slots[At])
  /\ slots' = [slots EXCEPT ![At] = Tomb]
  /\ len' = len - 1
  /\ Stop(ret)

Other(s) == s # call.key /\ ~IsEmpty(s) /\ ~IsTomb(s)

\* Mutant: without the limit that set.h asks about ("TODO: necessary?").
PassUnlimited == Seeking /\ Other(slots[At]) /\ GoOn(call.count)

\* if ((count++) >= m->len) return -1
PassOther ==
  /\ Seeking /\ Other(slots[At])
  /\ \/ call.count >= len /\ Stop(-1) /\ UNCHANGED <<slots, len>>
     \/ call.count < len /\ GoOn(call.count + 1)

\* Mutants: an insertion takes the first slot it looks at; it passes its own key.
InsertOver ==
  /\ call.fn = "insert" /\ slots[At] # call.key
  /\ slots' = [slots EXCEPT ![At] = call.key]
  /\ len' = len + 1
  /\ Stop(At)
InsertPassAny ==
  /\ call.fn = "insert" /\ ~IsEmpty(slots[At]) /\ ~IsTomb(slots[At])
  /\ GoOn(call.count)

\* An insertion takes the first empty slot or tombstone, or stops at an equal
\* key, whichever it meets first.
InsertStore ==
  /\ call.fn = "insert" /\ (IsEmpty(slots[At]) \/ IsTomb(slots[At]))
  /\ slots' = [slots EXCEPT ![At] = call.key]
  /\ len' = len + 1
  /\ Stop(At)

InsertHit ==
  /\ call.fn = "insert" /\ slots[At] = call.key /\ ~IsEmpty(slots[At])
  /\ Stop(At)
  /\ UNCHANGED <<slots, len>>

InsertPass == call.fn = "insert" /\ Other(slots[At]) /\ GoOn(call.count)

Probe ==
  /\ call # NoCall
  /\ \/ FindEmpty \/ PassTomb \/ PassOther
     \/ LookupHit \/ DeleteHit(At)
     \/ InsertStore \/ InsertHit \/ InsertPass

Next == \/ \E fn \in Fn, k \in Key : Begin(fn, k)
        \/ Probe

\* A call that is under way keeps running; nothing obliges anyone to call.
Spec == Init /\ [][Next]_vars
FairSpec == Spec /\ WF_vars(Probe)

----------------------------------------------------------------------------
\* Properties

Entry == Key \cup {StrNull, Tomb}

\* The table and the loop variables keep their types; i is a slot number, so
\* m->buf[i] is inside the array (hash.h:42-44).
TypeOK ==
  /\ hash \in HashFns
  /\ slots \in [Slot -> Entry]
  /\ len \in 0 .. Cap
  /\ call \in [fn : Fn \cup {"none"}, key : Key \cup {StrNull},
               i : Slot, count : Nat]
  /\ res \in [fn : Fn \cup {"none"}, key : Key \cup {StrNull},
              ret : Slot \cup {-1}]

\* len is the number of slots that hold a key: the emptiness test of lookup and
\* delete (set.h:56, 93), the overflow test of insert (set.h:72) and the loop
\* limit (set.h:66, 108) all rest on it.
LenCountsKeys == len = Cardinality({i \in Slot : slots[i] \in Key})

\* The n-th slot a key is looked for in.
Nth(k, n) == (hash[k] + n * MsiStep(hash[k])) % Cap

\* A key is on its own probe sequence with nothing empty before it, so no lookup
\* stops short of it, whatever was deleted or inserted since (set.h:63, 78, 104:
\* a tombstone does not end the chain).
Filled(k, n) == \A m \in 1 .. n : ~IsEmpty(slots[Nth(k, m)])
ChainUnbroken ==
  \A i \in Slot : slots[i] \in Key =>
    \E n \in 1 .. Cap : Nth(slots[i], n) = i /\ Filled(slots[i], n)

\* A call ends in a bounded number of turns even in a table without any empty
\* slot.
EveryCallReturns == call # NoCall ~> call = NoCall

\* A slot that holds a key changes only by the deletion of that very key: the
\* index that lookup and insert return stays the key's until then (set.h:65,
\* 82, 86, 104).
SlotsPinned ==
  [][\A i \in Slot : slots[i] \in Key /\ slots'[i] # slots[i] =>
       slots'[i] = Tomb /\ call.fn = "delete" /\ call.key = slots[i]]_vars

\* A key gets a second slot only when its insertion met a tombstone before it
\* met the key (set.h:78): without deletions the table is a set.
SecondCopyOverTomb ==
  [][\A k \in Key : Copies(k) >= 1 /\ Copies(k)' > Copies(k) =>
       \E i \in Slot : slots[i] = Tomb /\ slots'[i] = k]_vars

\* "Ensure all deleted" (test_builtin_set.c:37): a key whose deletion succeeded
\* is not in the table.  An insertion that reused a tombstone may have left it
\* there twice.
DeletedIsGone ==
  res.fn = "delete" /\ res.ret # -1 /\ call = NoCall => Copies(res.key) = 0

\* The promise: see KeyBag.
Bag == INSTANCE KeyBag WITH
  copies  <- [k \in Key |-> Copies(k)],
  pending <- [fn |-> call.fn, key |-> call.key],
  reply   <- [fn |-> res.fn, key |-> res.key, ok |-> res.ret # -1]
ImplementsKeyBag == Bag!Spec
============================================================================
