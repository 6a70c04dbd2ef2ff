------------------------------ MODULE HashMap ------------------------------
(***************************************************************************)
(* The map of builtin/map.h: the loops of set.h over slots that hold a     *)
(* pair, so each action is the set's action on the keys together with what *)
(* it does to the values.                                                  *)
(***************************************************************************)
EXTENDS HashSet, FiniteSetsExt

CONSTANTS Val,    \* values the callers bind
          NoVal   \* the value part of a slot never written: {0, 0}

ASSUME ValAssumption == NoVal \notin Val

VARIABLES
  vals,  \* the b of each slot
  arg,   \* val, the third argument of an insertion under way
  got    \* what the pointer returned by the last call shows; NoVal for NULL

mapVars == <<vars, vals, arg, got>>

MapInit ==
  /\ Init
  /\ vals = [i \in Slot |-> NoVal]
  /\ arg = NoVal
  /\ got = NoVal

MapBegin(fn, k, v) ==
  /\ Begin(fn, k)
  /\ arg' = IF call' = NoCall THEN NoVal ELSE v
  /\ got' = IF call' = NoCall THEN NoVal ELSE got
  /\ UNCHANGED vals

\* The turns of a loop that find no slot for the key, or go on.
MapFindEmpty == FindEmpty /\ arg' = NoVal /\ got' = NoVal /\ UNCHANGED vals
MapPassTomb == PassTomb /\ UNCHANGED <<vals, arg, got>>
MapPassOther ==
  /\ PassOther
  /\ IF call' = NoCall THEN arg' = NoVal /\ got' = NoVal ELSE UNCHANGED <<arg, got>>
  /\ UNCHANGED vals
MapInsertPass == InsertPass /\ UNCHANGED <<vals, arg, got>>

\* return &m->buf[i].b
MapLookupHit ==
  /\ LookupHit
  /\ got' = vals[At] /\ arg' = NoVal
  /\ UNCHANGED vals

\* The key becomes a tombstone, the value stays behind; return 0.
MapDeleteHit ==
  /\ DeleteHit(0)
  /\ arg' = NoVal /\ got' = NoVal
  /\ UNCHANGED vals

MapInsertStore ==
  /\ InsertStore
  /\ vals' = [vals EXCEPT ![At] = arg]
  /\ arg' = NoVal /\ got' = NoVal

\* Mutant: the slot is overwritten, as the comment of map.h:85 has it.
MapInsertOverwrite ==
  /\ InsertHit
  /\ vals' = [vals EXCEPT ![At] = arg]
  /\ arg' = NoVal /\ got' = NoVal

\* "found filled slot, overwrite": the slot is returned as it is.
MapInsertHit ==
  /\ InsertHit
  /\ arg' = NoVal /\ got' = NoVal
  /\ UNCHANGED vals

MapProbe ==
  /\ call # NoCall
  /\ \/ MapFindEmpty \/ MapPassTomb \/ MapPassOther \/ MapInsertPass
     \/ MapLookupHit \/ MapDeleteHit \/ MapInsertStore \/ MapInsertHit

MapNext ==
  \/ \E k \in Key : \/ \E fn \in {"lookup", "delete"} : MapBegin(fn, k, NoVal)
                         \/ \E v \in Val : MapBegin("insert", k, v)
  \/ MapProbe

MapSpec == MapInit /\ [][MapNext]_mapVars

----------------------------------------------------------------------------
\* Properties

\* The pointer a lookup returned shows the key's value until the key itself is
\* deleted: no other call moves the pair or changes its value (map.h:65, 80-81,
\* 105).
BindingsPinned ==
  [][\A i \in Slot : slots[i] \in Key /\ <<slots[i], vals[i]>>' # <<slots[i], vals[i]>> =>
       /\ slots'[i] = Tomb
       /\ call.fn = "delete" /\ call.key = slots[i]]_mapVars

\* "found filled slot, overwrite" (map.h:85): inserting a key that is there
\* binds it to the new value.  The code returns the slot unchanged.
InsertOverwrites ==
  [][call.fn = "insert" /\ call' = NoCall => vals'[res'.ret] = arg]_mapVars

\* The promise: see KeyStacks.  The bindings of a key, the one a lookup finds
\* first, are the values in its slots, in the order in which its probe sequence
\* first comes to them.
Places(k) == {i \in Slot : slots[i] = k}
Turns(k) == [i \in Slot |-> Min({n \in 1 .. Cap : Nth(k, n) = i})]
NthBy(turns, P, n) == CHOOSE i \in P : Cardinality({j \in P : turns[j] <= turns[i]}) = n
Bindings(k) == [n \in 1 .. Copies(k) |-> vals[NthBy(Turns(k), Places(k), n)]]

Stacks == INSTANCE KeyStacks WITH
  stack   <- [k \in Key |-> Bindings(k)],
  pending <- [fn |-> call.fn, key |-> call.key, val |-> arg],
  reply   <- [fn |-> res.fn, key |-> res.key, ok |-> res.ret # -1, val |-> got]
ImplementsKeyStacks == Stacks!Spec
============================================================================
