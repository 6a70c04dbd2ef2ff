----------------------------- MODULE HashProofs -----------------------------
(* Proofs about HashSet and HashMap, for every capacity, hash function and   *)
(* set of keys.  The steps of the map are the steps of the set with values,  *)
(* so the set's invariant holds of the map as it stands; only what a step    *)
(* does to the values is new.                                                *)
EXTENDS HashMap, FiniteSetTheorems, SequenceTheorems, NatLemmas

----------------------------------------------------------------------------
\* The probe sequence

\* The step is a natural number.
LEMMA StepNat ==
  ASSUME NEW h \in Nat
  PROVE  MsiStep(h) \in Nat
  <1> DEFINE high == h \div 2 ^ (HashBits - Exp)
  <1>1. high \in Nat
    BY ExpAssumption
  <1> QED
    BY <1>1 DEF MsiStep

\* A key's hash and its step are natural numbers.
LEMMA HashNat ==
  ASSUME hash \in HashFns, NEW k \in Key
  PROVE  hash[k] \in Nat /\ MsiStep(hash[k]) \in Nat
  <1>1. hash[k] \in 0 .. 2 ^ HashBits - 1
    BY HashAssumption
  <1>2. hash[k] \in Nat
    BY <1>1, ExpAssumption
  <1> QED
    BY <1>2, StepNat

\* A probe looks at a slot of the table (hash.h:44).
LEMMA NthSlot ==
  ASSUME hash \in HashFns, NEW k \in Key, NEW n \in Nat
  PROVE  Nth(k, n) \in Slot
  <1>1. hash[k] + n * MsiStep(hash[k]) \in Int
    BY HashNat
  <1> QED
    BY <1>1, ExpAssumption, ModDef DEF Nth, Slot

LEMMA NextSlot ==
  ASSUME hash \in HashFns, NEW k \in Key, NEW i \in Slot
  PROVE  MsiNext(hash[k], i) \in Slot
  <1>1. i + MsiStep(hash[k]) \in Int
    BY HashNat, ExpAssumption DEF Slot
  <1> QED
    BY <1>1, ExpAssumption, ModDef DEF MsiNext, Slot

\* The loops start from i = hash, which is Nth(k, 0).
LEMMA NthZero ==
  ASSUME hash \in HashFns, NEW k \in Key
  PROVE  hash[k] % Cap = Nth(k, 0) /\ hash[k] % Cap \in Slot
  <1>1. hash[k] + 0 * MsiStep(hash[k]) = hash[k]
    BY HashNat
  <1> QED
    BY <1>1, NthSlot DEF Nth

\* hash64_msi_next walks along Nth.
LEMMA NthNext ==
  ASSUME hash \in HashFns, NEW k \in Key, NEW n \in Nat
  PROVE  MsiNext(hash[k], Nth(k, n)) = Nth(k, n + 1)
  <1> DEFINE h == hash[k]
             s == MsiStep(hash[k])
             x == h + n * s
  <1>1. h \in Nat /\ s \in Nat
    BY HashNat
  <1>2. x \in Int /\ s \in Int /\ Cap \in Nat \ {0}
    BY <1>1, ExpAssumption
  <1>3. x + s = h + (n + 1) * s
    BY <1>1
  <1>4. ((x % Cap) + s) % Cap = (x + s) % Cap
    <2> HIDE DEF x, s
    <2> QED BY <1>2, ModEarly
  <1>5. (x + s) % Cap = Nth(k, n + 1)
    BY <1>3 DEF Nth
  <1>6. ((x % Cap) + s) % Cap = MsiNext(hash[k], Nth(k, n))
    BY DEF MsiNext, Nth
  <1> QED
    BY <1>4, <1>5, <1>6

\* After Cap steps the sequence starts over.
LEMMA NthWraps ==
  ASSUME hash \in HashFns, NEW k \in Key
  PROVE  Nth(k, Cap + 1) = Nth(k, 1)
  <1> DEFINE h == hash[k]
             s == MsiStep(hash[k])
             x == h + 1 * s
  <1>1. h \in Nat /\ s \in Nat
    BY HashNat
  <1>2. x \in Int /\ s \in Int /\ Cap \in Nat \ {0}
    BY <1>1, ExpAssumption
  <1>3. x + Cap * s = h + (Cap + 1) * s
    BY <1>1, <1>2
  <1>4. (x + Cap * s) % Cap = x % Cap
    <2> HIDE DEF x, s
    <2> QED BY <1>2, ModPeriod
  <1>5. (x + Cap * s) % Cap = Nth(k, Cap + 1)
    BY <1>3 DEF Nth
  <1>6. x % Cap = Nth(k, 1)
    BY DEF Nth
  <1> QED
    BY <1>4, <1>5, <1>6
----------------------------------------------------------------------------
\* The inductive invariant

\* A call under way has a name and a key.
CallOK == call = NoCall \/ (call.fn \in Fn /\ call.key \in Key)

\* An insertion under way has come to call.i along the probe sequence of its key
\* and has passed no empty slot: what makes ChainUnbroken survive the store.
PathFilled ==
  call.fn = "insert" =>
    \E n \in 0 .. Cap : call.i = Nth(call.key, n) /\ Filled(call.key, n)

IInv == TypeOK /\ CallOK /\ LenCountsKeys /\ ChainUnbroken /\ PathFilled

\* The slot a loop looks at is one of the table.
LEMMA AtSlot ==
  ASSUME TypeOK, CallOK, call # NoCall
  PROVE  At \in Slot /\ call.fn \in Fn /\ call.key \in Key
  <1>1. call.fn \in Fn /\ call.key \in Key /\ call.i \in Slot /\ hash \in HashFns
    BY DEF TypeOK, CallOK
  <1> QED
    BY <1>1, NextSlot DEF At

\* A step of the set, or of the map, which differs in what its delete returns
\* (map.h:107).
AnyStep ==
  \/ [Next]_vars
  \/ call # NoCall /\ \E ret \in Slot : DeleteHit(ret)

\* What a step may do to the table: nothing; store the key of an insertion in a
\* free slot; or turn the key of a deletion into a tombstone.
TableKept == UNCHANGED <<slots, len>>
TableStored ==
  /\ call.fn = "insert" /\ call.key \in Key /\ At \in Slot
  /\ slots[At] \in {StrNull, Tomb}
  /\ slots' = [slots EXCEPT ![At] = call.key] /\ len' = len + 1
TableDeleted ==
  /\ call.fn = "delete" /\ call.key \in Key /\ At \in Slot
  /\ slots[At] = call.key
  /\ slots' = [slots EXCEPT ![At] = Tomb] /\ len' = len - 1

LEMMA TableStep ==
  ASSUME TypeOK, CallOK, AnyStep
  PROVE  hash' = hash /\ (TableKept \/ TableStored \/ TableDeleted)
  <1> USE DEF TableKept, TableStored, TableDeleted
  <1>1. CASE UNCHANGED vars
    BY <1>1 DEF vars
  <1>2. ASSUME NEW fn \in Fn, NEW k \in Key, Begin(fn, k)
        PROVE  hash' = hash /\ TableKept
    BY <1>2 DEF Begin
  <1>3. CASE Probe
    <2>1. call # NoCall
      BY <1>3 DEF Probe
    <2>2. At \in Slot /\ call.key \in Key
      BY <2>1, AtSlot
    <2>3. CASE FindEmpty
      BY <2>3 DEF FindEmpty, Stop
    <2>4. CASE PassTomb
      BY <2>4 DEF PassTomb, GoOn
    <2>5. CASE PassOther
      BY <2>5 DEF PassOther, GoOn, Stop
    <2>6. CASE LookupHit
      BY <2>6 DEF LookupHit, Stop
    <2>7. CASE DeleteHit(At)
      BY <2>2, <2>7 DEF DeleteHit, Stop
    <2>8. CASE InsertStore
      BY <2>2, <2>8 DEF InsertStore, Stop, IsEmpty, IsTomb
    <2>9. CASE InsertHit
      BY <2>9 DEF InsertHit, Stop
    <2>10. CASE InsertPass
      BY <2>10 DEF InsertPass, GoOn
    <2> QED
      BY <1>3, <2>3, <2>4, <2>5, <2>6, <2>7, <2>8, <2>9, <2>10 DEF Probe
  <1>4. ASSUME NEW ret \in Slot, call # NoCall, DeleteHit(ret)
        PROVE  hash' = hash /\ TableDeleted
    BY <1>4, AtSlot DEF DeleteHit, Stop
  <1> QED
    BY <1>1, <1>2, <1>3, <1>4 DEF Next, AnyStep

\* What a step may do to the loop of a call.
LEMMA CallStep ==
  ASSUME TypeOK, CallOK, AnyStep
  PROVE  /\ CallOK'
         /\ call' \in [fn : Fn \cup {"none"}, key : Key \cup {StrNull}, i : Slot, count : Nat]
         /\ res' \in [fn : Fn \cup {"none"}, key : Key \cup {StrNull}, ret : Slot \cup {-1}]
  <1> DEFINE Goal == /\ CallOK'
                     /\ call' \in [fn : Fn \cup {"none"}, key : Key \cup {StrNull},
                                   i : Slot, count : Nat]
                     /\ res' \in [fn : Fn \cup {"none"}, key : Key \cup {StrNull},
                                  ret : Slot \cup {-1}]
  <1>0. 0 \in Slot /\ Cap \in Nat
    BY ExpAssumption DEF Slot
  <1>1. CASE UNCHANGED vars
    BY <1>1 DEF vars, TypeOK, CallOK
  <1>2. ASSUME NEW fn \in Fn, NEW k \in Key \cup {StrNull}, NEW ret \in Slot \cup {-1},
               Return(fn, k, ret)
        PROVE  Goal
    BY <1>0, <1>2 DEF Return, NoCall, CallOK
  <1>3. ASSUME NEW fn \in Fn, NEW k \in Key, Begin(fn, k)
        PROVE  Goal
    <2>1. CASE Return(fn, k, -1)
      BY <1>2, <2>1
    <2>2. CASE Enter(fn, k)
      <3>1. hash[k] % Cap \in Slot
        BY NthZero DEF TypeOK
      <3> QED
        BY <2>2, <3>1 DEF Enter, CallOK, TypeOK
    <2> QED
      BY <1>3, <2>1, <2>2 DEF Begin
  <1>4. CASE Probe
    <2>1. At \in Slot /\ call.fn \in Fn /\ call.key \in Key
      BY <1>4, AtSlot DEF Probe
    <2>2. ASSUME NEW ret \in Slot \cup {-1}, Stop(ret)
          PROVE  Goal
      BY <1>2, <2>1, <2>2 DEF Stop
    <2>3. ASSUME NEW c \in Nat, GoOn(c)
          PROVE  Goal
      <3>1. res' = res
        BY <1>0, <2>3 DEF GoOn, TypeOK
      <3>2. call' = [call EXCEPT !.i = At, !.count = c]
        BY <2>3 DEF GoOn
      <3> QED
        BY <2>1, <3>1, <3>2 DEF TypeOK, CallOK
    <2>4. call.count \in Nat /\ call.count + 1 \in Nat
      BY DEF TypeOK
    <2> QED
      BY <1>4, <2>1, <2>2, <2>3, <2>4
      DEF Probe, FindEmpty, PassTomb, PassOther, LookupHit, DeleteHit,
          InsertStore, InsertHit, InsertPass
  <1>5. ASSUME NEW ret \in Slot, call # NoCall, DeleteHit(ret)
        PROVE  Goal
    BY <1>2, <1>5, AtSlot DEF DeleteHit, Stop
  <1> QED
    BY <1>1, <1>3, <1>4, <1>5 DEF Next, AnyStep
----------------------------------------------------------------------------
\* Counting the keys

Live(s) == {i \in Slot : s[i] \in Key}

\* The keys in the table can be counted, and there are at most Cap of them.
LEMMA LiveFinite ==
  ASSUME NEW s
  PROVE  IsFiniteSet(Live(s)) /\ Cardinality(Live(s)) \in 0 .. Cap
  <1>1. IsFiniteSet(Slot) /\ Cardinality(Slot) = Cap
    BY FS_Interval, ExpAssumption DEF Slot
  <1>2. Live(s) \subseteq Slot
    BY DEF Live
  <1>3. IsFiniteSet(Live(s)) /\ Cardinality(Live(s)) <= Cap
    BY <1>1, <1>2, FS_Subset
  <1>4. Cardinality(Live(s)) \in Nat
    BY <1>3, FS_CardinalityType
  <1> QED
    BY <1>3, <1>4, ExpAssumption

\* len goes up and down with the number of slots that hold a key.
LEMMA LenStep ==
  ASSUME TypeOK, CallOK, LenCountsKeys, AnyStep
  PROVE  LenCountsKeys' /\ len' \in 0 .. Cap
  <1>0. len = Cardinality(Live(slots)) /\ len \in 0 .. Cap
    BY DEF LenCountsKeys, TypeOK, Live
  <1>1. SUFFICES len' = Cardinality(Live(slots'))
    BY <1>1, LiveFinite DEF LenCountsKeys, Live
  <1>2. CASE TableKept
    BY <1>0, <1>2 DEF TableKept
  <1>3. CASE TableStored
    <2>1. Live(slots') = Live(slots) \cup {At} /\ At \notin Live(slots)
      BY <1>3, KeyAssumption DEF TableStored, Live, TypeOK
    <2>2. Cardinality(Live(slots')) = Cardinality(Live(slots)) + 1
      BY <2>1, LiveFinite, FS_AddElement
    <2> QED
      BY <1>0, <1>3, <2>2 DEF TableStored
  <1>4. CASE TableDeleted
    <2>1. Live(slots') = Live(slots) \ {At} /\ At \in Live(slots)
      BY <1>4, KeyAssumption DEF TableDeleted, Live, TypeOK
    <2>2. Cardinality(Live(slots')) = Cardinality(Live(slots)) - 1
      BY <2>1, LiveFinite, FS_RemoveElement
    <2> QED
      BY <1>0, <1>4, <2>2 DEF TableDeleted
  <1> QED
    BY TableStep, <1>2, <1>3, <1>4

\* Typing survives every step.
LEMMA TypeStep ==
  ASSUME TypeOK, CallOK, LenCountsKeys, AnyStep
  PROVE  TypeOK' /\ CallOK'
  <1>1. hash' \in HashFns
    BY TableStep DEF TypeOK
  <1>2. slots' \in [Slot -> Entry]
    BY TableStep DEF TypeOK, TableKept, TableStored, TableDeleted, Entry
  <1>3. len' \in 0 .. Cap
    BY LenStep
  <1> QED
    BY <1>1, <1>2, <1>3, CallStep DEF TypeOK
----------------------------------------------------------------------------
\* Chains

\* No step empties a slot, so a filled path stays filled.
LEMMA FilledStays ==
  ASSUME TypeOK, CallOK, AnyStep,
         NEW k \in Key, NEW n \in Nat, Filled(k, n)
  PROVE  Filled(k, n)'
  <1>1. hash' = hash
    BY TableStep
  <1>2. \A i \in Slot : ~IsEmpty(slots[i]) => ~IsEmpty(slots'[i])
    BY TableStep, KeyAssumption
    DEF TableKept, TableStored, TableDeleted, IsEmpty, TypeOK
  <1>3. ASSUME NEW m \in 1 .. n
        PROVE  ~IsEmpty(slots'[Nth(k, m)])
    BY <1>2, <1>3, NthSlot DEF Filled, TypeOK
  <1> QED
    BY <1>1, <1>3 DEF Filled, Nth

\* The slot after a filled path is again on the probe sequence, within one round
\* of it.
LEMMA PathGoesOn ==
  ASSUME hash \in HashFns, NEW k \in Key, NEW n \in 0 .. Cap,
         Filled(k, n), NEW i, i = MsiNext(hash[k], Nth(k, n))
  PROVE  \E m \in 1 .. Cap : i = Nth(k, m) /\ Filled(k, m - 1)
  <1>0. Cap \in Nat \ {0}
    BY ExpAssumption
  <1>1. i = Nth(k, n + 1)
    BY <1>0, NthNext
  <1>2. CASE n < Cap
    <2>1. n + 1 \in 1 .. Cap /\ (n + 1) - 1 = n
      BY <1>0, <1>2
    <2> QED
      BY <1>1, <2>1
  <1>3. CASE n = Cap
    <2>1. i = Nth(k, 1)
      BY <1>1, <1>3, NthWraps
    <2>2. Filled(k, 1 - 1) /\ 1 \in 1 .. Cap
      BY <1>0 DEF Filled
    <2> QED
      BY <2>1, <2>2
  <1> QED
    BY <1>0, <1>2, <1>3

\* What PathFilled says of the slot an insertion looks at.
LEMMA InsertionPath ==
  ASSUME TypeOK, CallOK, PathFilled, call.fn = "insert"
  PROVE  call.key \in Key /\
         \E m \in 1 .. Cap : At = Nth(call.key, m) /\ Filled(call.key, m - 1)
  <1>1. call.key \in Key /\ hash \in HashFns
    BY DEF CallOK, NoCall, TypeOK
  <1>2. PICK n \in 0 .. Cap : call.i = Nth(call.key, n) /\ Filled(call.key, n)
    BY DEF PathFilled
  <1> QED
    BY <1>1, <1>2, PathGoesOn DEF At

\* Every key stays reachable.
LEMMA ChainStep ==
  ASSUME TypeOK, CallOK, PathFilled, ChainUnbroken, AnyStep
  PROVE  ChainUnbroken'
  <1>0. hash \in HashFns /\ hash' = hash /\ Cap \in Nat \ {0}
    BY TableStep, ExpAssumption DEF TypeOK
  <1>1. SUFFICES ASSUME NEW i \in Slot, NEW k \in Key, k = slots'[i]
                 PROVE  \E n \in 1 .. Cap : Nth(k, n) = i /\ Filled(k, n)'
    BY <1>0, <1>1 DEF ChainUnbroken, Nth, Filled
  <1>2. CASE slots[i] = slots'[i]
    <2>1. PICK n \in 1 .. Cap : Nth(k, n) = i /\ Filled(k, n)
      BY <1>1, <1>2 DEF ChainUnbroken
    <2>2. n \in Nat
      BY <1>0
    <2>3. Filled(k, n)'
      BY <2>1, <2>2, FilledStays
    <2> QED
      BY <2>1, <2>3
  <1>3. CASE slots[i] # slots'[i]
    <2>1. TableStored /\ i = At /\ k = call.key
      BY <1>1, <1>3, TableStep, KeyAssumption
      DEF TableKept, TableStored, TableDeleted, TypeOK
    <2>2. PICK m \in 1 .. Cap : At = Nth(k, m) /\ Filled(k, m - 1)
      BY <2>1, InsertionPath DEF TableStored
    <2>3. m - 1 \in Nat
      BY <1>0
    <2>4. Filled(k, m - 1)'
      BY <2>2, <2>3, FilledStays
    <2>5. ~IsEmpty(slots'[Nth(k, m)])
      BY <1>1, <2>1, <2>2, KeyAssumption DEF IsEmpty
    <2>6. Filled(k, m)'
      <3>1. ASSUME NEW j \in 1 .. m
            PROVE  ~IsEmpty(slots'[Nth(k, j)])
        <4>1. CASE j = m
          BY <2>5, <4>1
        <4>2. CASE j # m
          <5>1. j \in 1 .. m - 1
            BY <1>0, <4>2
          <5> QED
            BY <1>0, <2>4, <5>1 DEF Filled, Nth
        <4> QED
          BY <4>1, <4>2
      <3> QED
        BY <1>0, <3>1 DEF Filled, Nth
    <2> QED
      BY <2>1, <2>2, <2>6
  <1> QED
    BY <1>2, <1>3

\* How PathFilled is established after a step.
LEMMA PathAfter ==
  ASSUME hash' = hash, NEW k \in Key, NEW n \in 0 .. Cap,
         k = call'.key, call'.i = Nth(k, n), Filled(k, n)'
  PROVE  PathFilled'
  BY DEF PathFilled, Nth, Filled

\* An insertion goes on along its path.
LEMMA PathStep ==
  ASSUME TypeOK, CallOK, PathFilled, AnyStep
  PROVE  PathFilled'
  <1>0. hash \in HashFns /\ hash' = hash /\ Cap \in Nat \ {0}
    BY TableStep, ExpAssumption DEF TypeOK
  <1>1. CASE call'.fn # "insert"
    BY <1>1 DEF PathFilled
  <1>2. ASSUME call' = call, call.fn = "insert"
        PROVE  PathFilled'
    <2>1. PICK k \in Key : k = call.key
      BY <1>2 DEF CallOK, NoCall
    <2>2. PICK n \in 0 .. Cap : call.i = Nth(k, n) /\ Filled(k, n)
      BY <1>2, <2>1 DEF PathFilled
    <2>3. n \in Nat
      BY <1>0
    <2>4. Filled(k, n)'
      BY <2>2, <2>3, FilledStays
    <2> QED
      BY <1>0, <1>2, <2>1, <2>2, <2>4, PathAfter
  <1>3. ASSUME NEW fn \in Fn, NEW k \in Key, Begin(fn, k)
        PROVE  PathFilled'
    <2>1. CASE Return(fn, k, -1)
      BY <1>1, <2>1 DEF Return, NoCall
    <2>2. CASE Enter(fn, k)
      <3>1. call'.i = Nth(k, 0) /\ call'.key = k
        BY <1>0, <2>2, NthZero DEF Enter
      <3>2. Filled(k, 0)' /\ 0 \in 0 .. Cap
        BY <1>0 DEF Filled
      <3> QED
        BY <1>0, <3>1, <3>2, PathAfter
    <2> QED
      BY <1>3, <2>1, <2>2 DEF Begin
  <1>4. CASE InsertPass
    <2>1. PICK k \in Key : k = call.key
      BY <1>4 DEF InsertPass, CallOK, NoCall
    <2>2. PICK m \in 1 .. Cap : At = Nth(k, m) /\ Filled(k, m - 1)
      BY <1>4, <2>1, InsertionPath DEF InsertPass
    <2>3. m \in Nat /\ m \in 0 .. Cap
      BY <1>0
    <2>4. ~IsEmpty(slots[Nth(k, m)])
      BY <1>4, <2>2 DEF InsertPass, Other
    <2>5. Filled(k, m)
      <3> SUFFICES ASSUME NEW j \in 1 .. m
                   PROVE  ~IsEmpty(slots[Nth(k, j)])
        BY DEF Filled
      <3>1. CASE j = m
        BY <2>4, <3>1
      <3>2. CASE j # m
        <4>1. j \in 1 .. m - 1
          BY <1>0, <3>2
        <4> QED
          BY <2>2, <4>1 DEF Filled
      <3> QED
        BY <3>1, <3>2
    <2>6. Filled(k, m)'
      BY <2>3, <2>5, FilledStays
    <2>7. call'.i = At /\ call'.key = k
      BY <1>4, <2>1 DEF InsertPass, GoOn, TypeOK
    <2> QED
      BY <1>0, <2>2, <2>3, <2>6, <2>7, PathAfter
  <1>5. CASE Probe /\ ~InsertPass
    <2>1. ASSUME NEW ret, Stop(ret)
          PROVE  PathFilled'
      BY <1>1, <2>1 DEF Stop, Return, NoCall
    <2>2. ASSUME NEW c, Seeking, GoOn(c)
          PROVE  PathFilled'
      <3>1. call'.fn # "insert"
        BY <2>2 DEF Seeking, GoOn, TypeOK
      <3> QED
        BY <1>1, <3>1
    <2> QED
      BY <1>5, <2>1, <2>2
      DEF Probe, FindEmpty, PassTomb, PassOther, LookupHit, DeleteHit,
          InsertStore, InsertHit
  <1> QED
    <2>1. CASE UNCHANGED vars
      BY <1>1, <1>2, <2>1 DEF vars
    <2>2. ASSUME NEW ret \in Slot, DeleteHit(ret)
          PROVE  PathFilled'
      BY <1>1, <2>2 DEF DeleteHit, Stop, Return, NoCall
    <2> QED
      BY <1>3, <1>4, <1>5, <2>1, <2>2 DEF Next, AnyStep

----------------------------------------------------------------------------
\* Theorems about the set

LEMMA Start == Init => IInv
  <1> SUFFICES ASSUME Init PROVE IInv
    OBVIOUS
  <1>0. 0 \in Slot /\ Cap \in Nat
    BY ExpAssumption DEF Slot
  <1>1. TypeOK /\ CallOK
    BY <1>0 DEF Init, TypeOK, CallOK, NoCall, Entry
  <1>2. LenCountsKeys
    <2>1. Live(slots) = {}
      BY KeyAssumption DEF Init, Live
    <2> QED
      BY <2>1, FS_EmptySet DEF Init, LenCountsKeys, Live
  <1>3. ChainUnbroken
    BY KeyAssumption DEF Init, ChainUnbroken
  <1>4. PathFilled
    BY DEF Init, PathFilled, NoCall
  <1> QED
    BY <1>1, <1>2, <1>3, <1>4 DEF IInv

LEMMA AnyStepKeeps == IInv /\ AnyStep => IInv'
  BY TypeStep, LenStep, ChainStep, PathStep DEF IInv

LEMMA Step == IInv /\ [Next]_vars => IInv'
  BY AnyStepKeeps DEF AnyStep

\* The inductive invariant holds throughout.
THEOREM Invariance == Spec => []IInv
  BY Start, Step, PTL DEF Spec

\* The table, the loop and the result keep their types: every slot number the
\* code indexes m->buf with lies inside the array, and len never passes the
\* capacity.
THEOREM TypeCorrect == Spec => []TypeOK
  BY Invariance, PTL DEF IInv

\* m->len is the number of keys in the table.
THEOREM LenCorrect == Spec => []LenCountsKeys
  BY Invariance, PTL DEF IInv

\* Every key in the table is reachable along its probe sequence over slots that
\* are not empty, after any sequence of insertions and deletions.
THEOREM ChainsCorrect == Spec => []ChainUnbroken
  BY Invariance, PTL DEF IInv

LEMMA KeysStay ==
  ASSUME IInv, AnyStep, NEW i \in Slot, slots[i] \in Key, slots'[i] # slots[i]
  PROVE  slots'[i] = Tomb /\ call.fn = "delete" /\ call.key = slots[i]
  BY TableStep, KeyAssumption DEF IInv, TypeOK, TableKept, TableStored, TableDeleted

\* A slot that holds a key changes only by the deletion of that key.
THEOREM SlotsStayPinned == Spec => SlotsPinned
  <1>1. IInv /\ [Next]_vars =>
          [\A i \in Slot : slots[i] \in Key /\ slots'[i] # slots[i] =>
             slots'[i] = Tomb /\ call.fn = "delete" /\ call.key = slots[i]]_vars
    BY KeysStay DEF AnyStep
  <1> QED
    BY <1>1, Invariance, PTL DEF Spec, SlotsPinned

----------------------------------------------------------------------------
\* The walk of a call

\* A call under way has come to call.i along the probe sequence of its key, has
\* met neither the key nor an empty slot, and has counted the other keys it has
\* passed, unless it is an insertion.
Walked(n) ==
  /\ call.i = Nth(call.key, n)
  /\ \A m \in 1 .. n : slots[Nth(call.key, m)] \notin {call.key, StrNull}
  /\ Seeking => call.count = Cardinality({m \in 1 .. n : slots[Nth(call.key, m)] \in Key})
Walk == call # NoCall => \E n \in Nat : Walked(n)

\* There is room for the key of an insertion.
Room == call.fn = "insert" => len < Cap

BagInv == IInv /\ Walk /\ Room

\* If two places of a probe sequence are the same slot, it repeats itself from
\* there on.
LEMMA NthRepeats ==
  ASSUME hash \in HashFns, NEW k \in Key, NEW a \in Nat, NEW b \in Nat, a < b,
         Nth(k, a) = Nth(k, b), NEW p \in Nat, p >= b
  PROVE  Nth(k, p - (b - a)) = Nth(k, p)
  <1> DEFINE h == hash[k]
             s == MsiStep(hash[k])
             x == h + a * s
             y == h + b * s
             t == (p - b) * s
  <1>1. h \in Nat /\ s \in Nat
    BY HashNat
  <1>2. x \in Int /\ y \in Int /\ t \in Int /\ Cap \in Nat \ {0}
    BY <1>1, ExpAssumption
  <1>3. x % Cap = y % Cap
    BY DEF Nth
  <1>4. (x + t) % Cap = (y + t) % Cap
    <2> HIDE DEF x, y, t
    <2>1. (x + t) % Cap = ((x % Cap) + t) % Cap /\ (y + t) % Cap = ((y % Cap) + t) % Cap
      BY <1>2, ModEarly
    <2> QED
      BY <1>3, <2>1
  <1>5. x + t = h + (p - (b - a)) * s /\ y + t = h + p * s
    BY <1>1
  <1> QED
    BY <1>4, <1>5 DEF Nth

\* A key whose walk comes to an empty slot is not in the table.
LEMMA EndOfChain ==
  ASSUME IInv, NEW k \in Key, NEW n \in Nat,
         \A m \in 1 .. n : slots[Nth(k, m)] # k, IsEmpty(slots[Nth(k, n + 1)])
  PROVE  \A i \in Slot : slots[i] # k
  <1> SUFFICES ASSUME NEW i \in Slot, slots[i] = k PROVE FALSE
    OBVIOUS
  <1>1. PICK p \in 1 .. Cap : Nth(k, p) = i /\ Filled(k, p)
    BY DEF IInv, ChainUnbroken
  <1>2. p \in Nat /\ p >= 1
    BY ExpAssumption
  <1>3. ~(p <= n)
    BY <1>1, <1>2
  <1>4. n + 1 \in 1 .. p
    BY <1>2, <1>3
  <1> QED
    BY <1>1, <1>4 DEF Filled

\* A key whose walk has passed as many other keys as the table has is not in it:
\* up to the first place that holds the key the slots are all different.
LEMMA AllOthersPassed ==
  ASSUME IInv, NEW k \in Key, NEW n \in Nat,
         \A m \in 1 .. n : slots[Nth(k, m)] # k,
         Cardinality({m \in 1 .. n : slots[Nth(k, m)] \in Key}) >= len
  PROVE  \A i \in Slot : slots[i] # k
  <1> SUFFICES ASSUME NEW i \in Slot, slots[i] = k PROVE FALSE
    OBVIOUS
  <1> DEFINE P == {p \in Nat \ {0} : slots[Nth(k, p)] = k}
             M == {m \in 1 .. n : slots[Nth(k, m)] \in Key}
             L == Live(slots) \ {i}
             f == [m \in M |-> Nth(k, m)]
  <1>0. hash \in HashFns
    BY DEF IInv, TypeOK
  <1>1. P # {}
    <2>1. PICK p \in 1 .. Cap : Nth(k, p) = i
      BY DEF IInv, ChainUnbroken
    <2>2. p \in Nat \ {0}
      BY ExpAssumption
    <2> QED
      BY <2>1, <2>2
  <1>2. PICK p \in P : \A q \in P : p <= q
    <2>1. P \subseteq Nat
      OBVIOUS
    <2> HIDE DEF P
    <2> QED
      BY <1>1, <2>1, LeastElement
  <1>3. p \in Nat /\ p > n
    OBVIOUS
  <1>4. \A a \in 1 .. n, b \in 1 .. n : a < b => Nth(k, a) # Nth(k, b)
    <2> SUFFICES ASSUME NEW a \in 1 .. n, NEW b \in 1 .. n, a < b, Nth(k, a) = Nth(k, b)
                 PROVE  FALSE
      OBVIOUS
    <2>1. a \in Nat /\ b \in Nat /\ p >= b
      BY <1>3
    <2>2. Nth(k, p - (b - a)) = Nth(k, p)
      BY <1>0, <1>3, <2>1, NthRepeats
    <2>3. p - (b - a) \in Nat \ {0} /\ p - (b - a) < p
      BY <1>3, <2>1
    <2>4. p - (b - a) \in P
      BY <2>2, <2>3
    <2> QED
      BY <1>2, <1>3, <2>3, <2>4
  <1>5. f \in Injection(M, L)
    <2>1. \A m \in M : Nth(k, m) \in L
      BY <1>0, NthSlot DEF Live
    <2>2. \A a, b \in M : f[a] = f[b] => a = b
      <3> SUFFICES ASSUME NEW a \in M, NEW b \in M, Nth(k, a) = Nth(k, b), a # b PROVE FALSE
        OBVIOUS
      <3>1. a \in 1 .. n /\ b \in 1 .. n /\ (a < b \/ b < a)
        OBVIOUS
      <3> QED
        BY <1>4, <3>1
    <2> QED
      BY <2>1, <2>2 DEF Injection, IsInjective
  <1>6. IsFiniteSet(L) /\ Cardinality(L) = len - 1
    <2>1. i \in Live(slots) /\ IsFiniteSet(Live(slots)) /\ Cardinality(Live(slots)) = len
      BY LiveFinite DEF IInv, LenCountsKeys, Live
    <2> QED
      BY <2>1, FS_RemoveElement
  <1>7. Cardinality(M) <= len - 1
    <2> HIDE DEF M, L, f
    <2> QED
      BY <1>5, <1>6, FS_Injection
  <1>8. Cardinality(M) \in Nat /\ len \in Nat
    <2>1. IsFiniteSet(1 .. n) /\ M \in SUBSET (1 .. n)
      BY FS_Interval
    <2>2. IsFiniteSet(M)
      BY <2>1, FS_Subset
    <2> HIDE DEF M
    <2> QED
      BY <2>2, FS_CardinalityType DEF IInv, TypeOK
  <1> QED
    BY <1>7, <1>8

\* How Walk is established after a step.
LEMMA WalkAfter ==
  ASSUME hash' = hash, slots' = slots, NEW k, k = call'.key, NEW n \in Nat,
         call'.i = Nth(k, n),
         \A m \in 1 .. n : slots[Nth(k, m)] \notin {k, StrNull},
         Seeking' => call'.count = Cardinality({m \in 1 .. n : slots[Nth(k, m)] \in Key})
  PROVE  Walk'
  BY DEF Walk, Walked, Nth

\* The loop goes on past a slot that holds another key or a tombstone.
LEMMA WalkGoesOn ==
  ASSUME IInv, Walk, call # NoCall, NEW c \in Nat, GoOn(c),
         slots[At] \notin {call.key, StrNull},
         Seeking => c = call.count + (IF slots[At] \in Key THEN 1 ELSE 0)
  PROVE  Walk'
  <1>0. hash \in HashFns /\ call.key \in Key /\ call.count \in Nat
    BY AtSlot DEF IInv, TypeOK
  <1>1. PICK k \in Key : k = call.key
    BY <1>0
  <1>2. PICK n \in Nat : Walked(n)
    BY DEF Walk
  <1> DEFINE M == {m \in 1 .. n : slots[Nth(k, m)] \in Key}
             N == {m \in 1 .. n + 1 : slots[Nth(k, m)] \in Key}
  <1>3. At = Nth(k, n + 1)
    BY <1>0, <1>1, <1>2, NthNext DEF Walked, At
  <1>4. \A m \in 1 .. n + 1 : m \in 1 .. n \/ m = n + 1
    OBVIOUS
  <1>5. \A m \in 1 .. n + 1 : slots[Nth(k, m)] \notin {k, StrNull}
    BY <1>1, <1>2, <1>3, <1>4 DEF Walked
  <1>6. call'.key = k /\ call'.i = At /\ call'.count = c /\ call'.fn = call.fn
        /\ slots' = slots /\ hash' = hash
    BY <1>1 DEF GoOn, IInv, TypeOK
  <1>7. ASSUME Seeking'
        PROVE  call'.count = Cardinality(N)
    <2>1. Seeking
      BY <1>6, <1>7 DEF Seeking
    <2>2. call.count = Cardinality(M)
      BY <1>1, <1>2, <2>1 DEF Walked
    <2>3. IsFiniteSet(M)
      <3>1. IsFiniteSet(1 .. n) /\ M \in SUBSET (1 .. n)
        BY FS_Interval
      <3> HIDE DEF M
      <3> QED
        BY <3>1, FS_Subset
    <2>4. CASE slots[At] \in Key
      <3>1. N = M \cup {n + 1} /\ n + 1 \notin M
        BY <1>3, <1>4, <2>4
      <3>2. Cardinality(N) = Cardinality(M) + 1
        <4> HIDE DEF M, N
        <4> QED
          BY <2>3, <3>1, FS_AddElement
      <3> QED
        BY <1>6, <2>1, <2>2, <2>4, <3>2
    <2>5. CASE slots[At] \notin Key
      <3>1. N = M
        BY <1>3, <1>4, <2>5
      <3>2. call'.count = Cardinality(M)
        <4> HIDE DEF M
        <4> QED
          BY <1>0, <1>6, <2>1, <2>2, <2>5
      <3> QED
        BY <3>1, <3>2
    <2> QED
      BY <2>4, <2>5
  <1> QED
    BY <1>3, <1>5, <1>6, <1>7, WalkAfter

LEMMA WalkStep ==
  ASSUME IInv, Walk, AnyStep
  PROVE  Walk'
  <1>1. CASE call' = NoCall
    BY <1>1 DEF Walk
  <1>2. CASE UNCHANGED vars
    <2>1. hash' = hash /\ slots' = slots /\ call' = call
      BY <1>2 DEF vars
    <2> QED
      BY <2>1 DEF Walk, Walked, Nth, Seeking
  <1>3. ASSUME NEW fn \in Fn, NEW k \in Key, Begin(fn, k), Enter(fn, k)
        PROVE  Walk'
    <2>1. call'.i = Nth(k, 0) /\ call'.key = k /\ call'.count = 0
      BY <1>3, NthZero DEF Enter, IInv, TypeOK
    <2>2. hash' = hash /\ slots' = slots
      BY <1>3 DEF Begin
    <2>3. {m \in 1 .. 0 : slots[Nth(k, m)] \in Key} = {}
      OBVIOUS
    <2>4. \A m \in 1 .. 0 : slots[Nth(k, m)] \notin {k, StrNull}
      OBVIOUS
    <2>5. Cardinality({m \in 1 .. 0 : slots[Nth(k, m)] \in Key}) = 0
      BY <2>3, FS_EmptySet
    <2> QED
      BY <2>1, <2>2, <2>4, <2>5, WalkAfter
  <1>4. ASSUME call # NoCall, NEW c, GoOn(c), PassTomb \/ PassOther \/ InsertPass
        PROVE  Walk'
    <2>0. At \in Slot /\ slots[At] \in Entry /\ call.key \in Key /\ call.count \in Nat
      BY <1>4, AtSlot DEF IInv, TypeOK
    <2>1. CASE PassTomb
      <3>1. slots[At] = Tomb /\ GoOn(call.count)
        BY <2>1 DEF PassTomb, IsTomb
      <3>2. slots[At] \notin Key /\ slots[At] \notin {call.key, StrNull}
        BY <2>0, <3>1, KeyAssumption
      <3> QED
        BY <1>4, <2>0, <3>1, <3>2, WalkGoesOn
    <2>2. CASE PassOther /\ GoOn(call.count + 1)
      <3>1. slots[At] \in Key /\ slots[At] \notin {call.key, StrNull}
        BY <2>0, <2>2 DEF PassOther, Other, IsEmpty, IsTomb, Entry
      <3> QED
        BY <1>4, <2>0, <2>2, <3>1, WalkGoesOn
    <2>3. CASE PassOther /\ ~GoOn(call.count + 1)
      BY <1>1, <2>3 DEF PassOther, Stop, Return
    <2>4. CASE InsertPass
      <3>1. slots[At] \notin {call.key, StrNull} /\ ~Seeking /\ GoOn(call.count)
        BY <2>4 DEF InsertPass, Other, IsEmpty, Seeking
      <3> QED
        BY <1>4, <2>0, <3>1, WalkGoesOn
    <2> QED
      BY <1>4, <2>1, <2>2, <2>3, <2>4
  <1>5. ASSUME NEW ret, Stop(ret)
        PROVE  Walk'
    BY <1>1, <1>5 DEF Stop, Return
  <1>6. CASE Probe
    BY <1>4, <1>5, <1>6
    DEF Probe, FindEmpty, PassTomb, PassOther, LookupHit, DeleteHit, InsertStore, InsertHit,
        InsertPass
  <1>7. ASSUME NEW fn \in Fn, NEW k \in Key, Begin(fn, k)
        PROVE  Walk'
    BY <1>1, <1>3, <1>7 DEF Begin, Return
  <1>8. ASSUME NEW ret, DeleteHit(ret)
        PROVE  Walk'
    BY <1>5, <1>8 DEF DeleteHit
  <1> QED
    BY <1>2, <1>6, <1>7, <1>8 DEF AnyStep, Next

LEMMA RoomStep ==
  ASSUME IInv, Room, AnyStep
  PROVE  Room'
  <1>0. len \in Nat /\ Cap \in Nat
    BY ExpAssumption DEF IInv, TypeOK
  <1>1. ASSUME NEW fn \in Fn, NEW k \in Key, Begin(fn, k)
        PROVE  Room'
    BY <1>0, <1>1 DEF Begin, Return, Enter, NoCall, Room
  <1>2. ASSUME NEW ret, Stop(ret)
        PROVE  Room'
    BY <1>2 DEF Stop, Return, NoCall, Room
  <1>3. ASSUME NEW c, GoOn(c)
        PROVE  Room'
    BY <1>3 DEF GoOn, Room, IInv, TypeOK
  <1>4. CASE UNCHANGED vars
    BY <1>4 DEF vars, Room
  <1> QED
    BY <1>1, <1>2, <1>3, <1>4
    DEF AnyStep, Next, Probe, FindEmpty, PassTomb, PassOther, LookupHit, DeleteHit,
        InsertStore, InsertHit, InsertPass

LEMMA BagStart == Init => BagInv
  BY Start DEF Init, BagInv, Walk, Room, NoCall

LEMMA BagKeeps == BagInv /\ AnyStep => BagInv'
  BY AnyStepKeeps, WalkStep, RoomStep DEF BagInv

----------------------------------------------------------------------------
\* Copies

\* The slots that hold a key can be counted, and there are none only if it is
\* in no slot.
LEMMA CopiesType ==
  ASSUME NEW k
  PROVE  /\ IsFiniteSet({i \in Slot : slots[i] = k})
         /\ Copies(k) \in Nat
         /\ Copies(k) = 0 <=> \A i \in Slot : slots[i] # k
  <1> DEFINE C == {i \in Slot : slots[i] = k}
  <1>1. IsFiniteSet(Slot) /\ C \in SUBSET Slot
    BY FS_Interval, ExpAssumption DEF Slot
  <1>2. IsFiniteSet(C)
    <2> HIDE DEF C
    <2> QED
      BY <1>1, FS_Subset
  <1>3. Cardinality(C) \in Nat /\ (Cardinality(C) = 0 <=> C = {})
    <2> HIDE DEF C
    <2> QED
      BY <1>2, FS_CardinalityType, FS_EmptySet
  <1> QED
    BY <1>2, <1>3 DEF Copies

\* Storing a key in a free slot makes one more copy of it, of no other.
LEMMA CopiesStored ==
  ASSUME TypeOK, TableStored
  PROVE  /\ call.key \in Key
         /\ [k \in Key |-> Copies(k)]' = [[k \in Key |-> Copies(k)] EXCEPT ![call.key] = @ + 1]
  <1>0. call.key \in Key /\ At \in Slot /\ slots[At] \notin Key
        /\ slots' = [slots EXCEPT ![At] = call.key] /\ slots \in [Slot -> Entry]
    BY KeyAssumption DEF TypeOK, TableStored
  <1>1. PICK c \in Key : c = call.key
    BY <1>0
  <1>2. ASSUME NEW k \in Key, k # c
        PROVE  Copies(k)' = Copies(k)
    <2>1. {i \in Slot : slots'[i] = k} = {i \in Slot : slots[i] = k}
      BY <1>0, <1>1, <1>2
    <2> QED
      BY <2>1 DEF Copies
  <1>3. Copies(c)' = Copies(c) + 1
    <2> DEFINE C == {i \in Slot : slots[i] = c}
    <2>1. {i \in Slot : slots'[i] = c} = C \cup {At} /\ At \notin C
      BY <1>0, <1>1
    <2>2. IsFiniteSet(C)
      BY CopiesType
    <2>3. Cardinality(C \cup {At}) = Cardinality(C) + 1
      <3> HIDE DEF C
      <3> QED
        BY <2>1, <2>2, FS_AddElement
    <2> QED
      BY <2>1, <2>3 DEF Copies
  <1> QED
    BY <1>0, <1>1, <1>2, <1>3

\* A deletion takes one.
LEMMA CopiesDeleted ==
  ASSUME TypeOK, TableDeleted
  PROVE  /\ call.key \in Key /\ Copies(call.key) > 0
         /\ [k \in Key |-> Copies(k)]' = [[k \in Key |-> Copies(k)] EXCEPT ![call.key] = @ - 1]
  <1>0. call.key \in Key /\ At \in Slot /\ slots[At] = call.key
        /\ slots' = [slots EXCEPT ![At] = Tomb] /\ slots \in [Slot -> Entry]
    BY DEF TypeOK, TableDeleted
  <1>1. PICK c \in Key : c = call.key
    BY <1>0
  <1>2. ASSUME NEW k \in Key, k # c
        PROVE  Copies(k)' = Copies(k)
    <2>1. {i \in Slot : slots'[i] = k} = {i \in Slot : slots[i] = k}
      BY <1>0, <1>1, <1>2, KeyAssumption
    <2> QED
      BY <2>1 DEF Copies
  <1>3. Copies(c)' = Copies(c) - 1
    <2> DEFINE C == {i \in Slot : slots[i] = c}
    <2>1. {i \in Slot : slots'[i] = c} = C \ {At} /\ At \in C
      BY <1>0, <1>1, KeyAssumption
    <2>2. IsFiniteSet(C)
      BY CopiesType
    <2>3. Cardinality(C \ {At}) = Cardinality(C) - 1
      <3> HIDE DEF C
      <3> QED
        BY <2>1, <2>2, FS_RemoveElement
    <2> QED
      BY <2>1, <2>3 DEF Copies
  <1>4. Copies(c) > 0
    <2>1. Copies(c) \in Nat /\ Copies(c) # 0
      BY <1>0, <1>1, CopiesType
    <2> QED
      BY <2>1
  <1> QED
    BY <1>0, <1>1, <1>2, <1>3, <1>4

\* The copies of all keys together are as many as len: numbering the slots of
\* each key makes one slot of every pair of a key and a number.
LEMMA HeldIsLen ==
  ASSUME TypeOK, LenCountsKeys
  PROVE  Bag!Held = len
  <1> DEFINE C(k) == {i \in Slot : slots[i] = k}
             Bij(k) == Bijection(1 .. Copies(k), C(k))
             b == [k \in Key |-> CHOOSE g : g \in Bij(k)]
             Pairs == UNION {{k} \X (1 .. Copies(k)) : k \in Key}
             L == Live(slots)
             f == [c \in Pairs |-> b[c[1]][c[2]]]
  <1>1. \A k \in Key : b[k] \in Bij(k)
    <2> SUFFICES ASSUME NEW k \in Key PROVE \E g : g \in Bij(k)
      OBVIOUS
    <2>1. IsFiniteSet(C(k)) /\ Copies(k) = Cardinality(C(k))
      BY CopiesType DEF Copies
    <2>2. ExistsBijection(1 .. Copies(k), C(k))
      <3> HIDE DEF C
      <3> QED
        BY <2>1, FS_CardinalityType
    <2> QED
      BY <2>2 DEF ExistsBijection
  <1>2. ASSUME NEW k \in Key
        PROVE  /\ \A n \in 1 .. Copies(k) : b[k][n] \in Slot /\ slots[b[k][n]] = k
               /\ \A m, n \in 1 .. Copies(k) : b[k][m] = b[k][n] => m = n
               /\ \A i \in Slot : slots[i] = k => \E n \in 1 .. Copies(k) : b[k][n] = i
    <2>1. b[k] \in Bij(k)
      BY <1>1
    <2> HIDE DEF b
    <2> QED
      BY <2>1 DEF Bijection, Injection, Surjection, IsInjective
  <1> HIDE DEF b, C, Bij
  <1>3. \A c \in Pairs : c[1] \in Key /\ c[2] \in 1 .. Copies(c[1]) /\ c = <<c[1], c[2]>>
    OBVIOUS
  <1>4. \A k \in Key : \A n \in 1 .. Copies(k) : <<k, n>> \in Pairs
    OBVIOUS
  <1>5. f \in Bijection(Pairs, L)
    <2>1. \A c \in Pairs : b[c[1]][c[2]] \in L
      BY <1>2, <1>3 DEF Live
    <2>2. \A c, d \in Pairs : f[c] = f[d] => c = d
      <3> SUFFICES ASSUME NEW c \in Pairs, NEW d \in Pairs, b[c[1]][c[2]] = b[d[1]][d[2]]
                   PROVE  c = d
        OBVIOUS
      <3>1. slots[b[c[1]][c[2]]] = c[1] /\ slots[b[d[1]][d[2]]] = d[1]
        BY <1>2, <1>3
      <3>2. c[1] = d[1]
        BY <3>1
      <3>3. c[2] = d[2]
        BY <1>2, <1>3, <3>2
      <3> QED
        BY <1>3, <3>2, <3>3
    <2>3. \A i \in L : \E c \in Pairs : f[c] = i
      <3> SUFFICES ASSUME NEW i \in L PROVE \E c \in Pairs : b[c[1]][c[2]] = i
        OBVIOUS
      <3>1. PICK k \in Key : slots[i] = k /\ i \in Slot
        BY DEF Live
      <3>2. PICK n \in 1 .. Copies(k) : b[k][n] = i
        BY <1>2, <3>1
      <3>3. <<k, n>> \in Pairs /\ <<k, n>>[1] = k /\ <<k, n>>[2] = n
        BY <1>4
      <3> QED
        BY <3>2, <3>3
    <2>4. f \in [Pairs -> L] /\ DOMAIN f = Pairs
      BY <2>1
    <2> HIDE DEF f, Pairs, L
    <2> QED
      BY <2>2, <2>3, <2>4 DEF Bijection, Injection, Surjection, IsInjective
  <1>6. Cardinality(Pairs) = Cardinality(L)
    <2>1. IsFiniteSet(L)
      BY LiveFinite
    <2>2. f \in Injection(Pairs, L) /\ f \in Surjection(Pairs, L)
      BY <1>5 DEF Bijection
    <2> HIDE DEF L, Pairs, f
    <2> QED
      BY <2>1, <2>2, FS_Injection
  <1>7. Bag!Held = Cardinality(Pairs)
    <2>1. UNION {{k} \X (1 .. [j \in Key |-> Copies(j)][k]) : k \in Key} = Pairs
      OBVIOUS
    <2>2. Bag!Held = Bag!Cardinality(Pairs)
      BY <2>1 DEF Bag!Held
    <2>3. \A S : Bag!Cardinality(S) = Cardinality(S)
      BY DEF Bag!Cardinality, Cardinality
    <2> QED
      BY <2>2, <2>3
  <1>8. len = Cardinality(L)
    BY DEF LenCountsKeys, Live
  <1> QED
    BY <1>6, <1>7, <1>8

----------------------------------------------------------------------------
\* Refinement of KeyBag

\* A walk that comes to an empty slot, or to one other key more than the table has,
\* has missed no copy of the key.
LEMMA WalkMissesNothing ==
  ASSUME BagInv, call # NoCall,
         IsEmpty(slots[At]) \/ (Seeking /\ Other(slots[At]) /\ call.count >= len)
  PROVE  Copies(call.key) = 0
  <1>0. hash \in HashFns /\ call.key \in Key /\ At \in Slot /\ slots[At] \in Entry
        /\ call.count \in Nat /\ len \in Nat
    BY AtSlot, ExpAssumption DEF BagInv, IInv, TypeOK
  <1>1. PICK k \in Key : k = call.key
    BY <1>0
  <1>2. PICK n \in Nat : Walked(n)
    BY DEF BagInv, Walk
  <1>3. At = Nth(k, n + 1)
    BY <1>0, <1>1, <1>2, NthNext DEF Walked, At
  <1>4. \A m \in 1 .. n : slots[Nth(k, m)] # k
    BY <1>1, <1>2 DEF Walked
  <1>5. CASE IsEmpty(slots[At])
    BY <1>0, <1>1, <1>3, <1>4, <1>5, EndOfChain, CopiesType DEF BagInv
  <1>6. CASE Seeking /\ Other(slots[At]) /\ call.count >= len
    <2> DEFINE M == {m \in 1 .. n : slots[Nth(k, m)] \in Key}
    <2>1. Cardinality(M) >= len
      BY <1>1, <1>2, <1>6 DEF Walked
    <2>2. \A i \in Slot : slots[i] # k
      BY <1>4, <2>1, AllOthersPassed DEF BagInv
    <2> QED
      BY <1>1, <2>2, CopiesType
  <1> QED
    BY <1>5, <1>6

\* When len is 0 there is no copy of any key.
LEMMA EmptyTable ==
  ASSUME TypeOK, LenCountsKeys, len = 0, NEW k \in Key
  PROVE  Copies(k) = 0
  <1>1. Cardinality(Live(slots)) = 0
    BY DEF LenCountsKeys, Live
  <1>2. Live(slots) = {}
    BY <1>1, LiveFinite, FS_EmptySet
  <1> QED
    BY <1>2, CopiesType DEF Live

\* Every step of the set, and of the map, is one of the bag: a call takes effect
\* when it returns.
LEMMA BagStep == BagInv /\ AnyStep => [Bag!Next]_(Bag!vars)
  <1> SUFFICES ASSUME BagInv, AnyStep PROVE [Bag!Next]_(Bag!vars)
    OBVIOUS
  <1> DEFINE now == [k \in Key |-> Copies(k)]
             then == [k \in Key |-> Copies(k)]'
             asked == [fn |-> call.fn, key |-> call.key]
             said == [fn |-> res.fn, key |-> res.key, ok |-> res.ret # -1]
             Goal == [Bag!Next]_(Bag!vars)
  <1>0. TypeOK /\ CallOK /\ LenCountsKeys /\ len \in 0 .. Cap /\ Cap \in Nat
    BY ExpAssumption DEF BagInv, IInv, TypeOK
  <1>1. \A k \in Key : now[k] = Copies(k) /\ Copies(k) \in Nat
    BY CopiesType
  <1>2. Bag!Held = len
    BY <1>0, HeldIsLen
  <1>3. ASSUME slots' = slots
        PROVE  then = now
    BY <1>3 DEF Copies
  <1>4. ASSUME slots' = slots, call'.fn = call.fn, call'.key = call.key, res' = res
        PROVE  Goal
    <2>1. then = now
      BY <1>3, <1>4
    <2> QED
      BY <1>4, <2>1 DEF Bag!vars
  <1>5. CASE UNCHANGED vars
    BY <1>4, <1>5 DEF vars
  <1>6. ASSUME NEW c, GoOn(c)
        PROVE  Goal
    <2>1. slots' = slots /\ res' = res /\ call'.fn = call.fn /\ call'.key = call.key
      BY <1>0, <1>6 DEF GoOn, TypeOK
    <2> QED
      BY <1>4, <2>1
  \* What a call that returns looks like from outside.
  <1>7. ASSUME NEW fn \in Fn, NEW k \in Key, NEW ret \in Slot \cup {-1}, Return(fn, k, ret),
               call = NoCall \/ (call.fn = fn /\ call.key = k)
        PROVE  Bag!Answer(fn, k, ret # -1)
    BY <1>7 DEF Return, NoCall, Bag!Answer, Bag!None
  <1>8. ASSUME NEW fn \in Fn, NEW k \in Key, Begin(fn, k)
        PROVE  Goal
    <2>1. slots' = slots /\ then = now /\ call = NoCall
      BY <1>3, <1>8 DEF Begin
    <2>2. CASE Enter(fn, k)
      <3>1. Bag!Begin
        BY <2>1, <2>2 DEF Enter, NoCall, Bag!Begin, Bag!None, Fn
      <3> QED
        BY <3>1 DEF Bag!Next
    <2>3. CASE Return(fn, k, -1) /\ (IF fn = "insert" THEN len + 1 > Cap ELSE len = 0)
      <3>1. Bag!Answer(fn, k, FALSE)
        BY <1>7, <2>1, <2>3
      <3>2. CASE fn = "insert"
        <4>1. Bag!Held = Cap
          BY <1>0, <1>2, <2>3, <3>2
        <4>2. Bag!Insert(k)
          BY <2>1, <3>1, <3>2, <4>1 DEF Bag!Insert
        <4> QED
          BY <4>2 DEF Bag!Next
      <3>3. CASE fn # "insert"
        <4>1. ~(now[k] > 0)
          BY <1>0, <1>1, <2>3, <3>3, EmptyTable
        <4>2. Bag!Answer(fn, k, now[k] > 0)
          <5>1. (now[k] > 0) = FALSE
            BY <4>1
          <5> QED
            BY <3>1, <5>1
        <4>3. CASE fn = "lookup"
          BY <2>1, <4>2, <4>3 DEF Bag!Lookup, Bag!Next
        <4>4. CASE fn = "delete"
          BY <2>1, <4>1, <4>2, <4>4 DEF Bag!Delete, Bag!Next
        <4> QED
          BY <3>3, <4>3, <4>4 DEF Fn
      <3> QED
        BY <3>2, <3>3
    <2> QED
      BY <1>8, <2>2, <2>3 DEF Begin
  <1>9. ASSUME call # NoCall, Seeking, slots' = slots, NEW ret \in Slot \cup {-1},
               Return(call.fn, call.key, ret),
               (call.fn = "lookup" /\ ret # -1 /\ slots[At] = call.key)
                 \/ (ret = -1 /\ Copies(call.key) = 0)
        PROVE  Goal
    <2>1. call.key \in Key /\ call.fn \in Fn /\ At \in Slot
      BY <1>0, <1>9, AtSlot
    <2>2. Bag!Answer(call.fn, call.key, ret # -1) /\ then = now
      BY <1>3, <1>7, <1>9, <2>1
    <2>3. (ret # -1) <=> now[call.key] > 0
      <3>1. CASE ret = -1
        BY <1>1, <1>9, <2>1, <3>1
      <3>2. CASE ret # -1
        <4>1. Copies(call.key) # 0 /\ Copies(call.key) \in Nat
          BY <1>9, <2>1, <3>2, CopiesType
        <4> QED
          BY <1>1, <2>1, <3>2, <4>1
      <3> QED
        BY <3>1, <3>2
    <2>4. Bag!Lookup(call.key) \/ Bag!Delete(call.key)
      <3>1. CASE call.fn = "lookup"
        <4>1. Bag!Answer("lookup", call.key, now[call.key] > 0)
          BY <2>2, <2>3, <3>1
        <4> QED
          BY <2>2, <4>1 DEF Bag!Lookup
      <3>2. CASE call.fn = "delete"
        <4>1. ~(now[call.key] > 0)
          BY <1>9, <2>3, <3>2
        <4>2. Bag!Answer("delete", call.key, now[call.key] > 0)
          BY <2>2, <2>3, <3>2
        <4> QED
          BY <2>2, <4>1, <4>2 DEF Bag!Delete
      <3> QED
        BY <1>9, <3>1, <3>2 DEF Seeking
    <2> QED
      BY <2>1, <2>4 DEF Bag!Next
  <1>10. CASE call # NoCall /\ (FindEmpty \/ PassOther \/ LookupHit)
    <2>1. At \in Slot /\ At # -1
      BY <1>0, <1>10, AtSlot DEF Slot
    <2>2. CASE FindEmpty
      BY <1>9, <1>10, <2>2, WalkMissesNothing DEF FindEmpty, Stop
    <2>3. CASE LookupHit
      BY <1>9, <1>10, <2>1, <2>3 DEF LookupHit, Stop, Seeking
    <2>4. CASE PassOther
      BY <1>6, <1>9, <1>10, <2>4, WalkMissesNothing DEF PassOther, Stop
    <2> QED
      BY <1>10, <2>2, <2>3, <2>4
  <1>11. ASSUME call # NoCall, NEW ret \in Slot, DeleteHit(ret)
         PROVE  Goal
    <2>1. TableDeleted /\ call.fn = "delete" /\ Return("delete", call.key, ret) /\ ret # -1
      BY <1>0, <1>11, AtSlot DEF DeleteHit, Stop, TableDeleted, Slot
    <2>2. call.key \in Key /\ now[call.key] > 0 /\ then = [now EXCEPT ![call.key] = @ - 1]
      BY <1>0, <1>1, <2>1, CopiesDeleted
    <2>3. Bag!Answer("delete", call.key, ret # -1)
      BY <1>7, <2>1, <2>2 DEF Fn
    <2>4. Bag!Delete(call.key)
      <3>1. Bag!Answer("delete", call.key, now[call.key] > 0)
        BY <2>1, <2>2, <2>3
      <3> QED
        BY <2>2, <3>1 DEF Bag!Delete
    <2> QED
      BY <2>2, <2>4 DEF Bag!Next
  <1>12. CASE call # NoCall /\ (InsertStore \/ InsertHit)
    <2>1. call.fn = "insert" /\ call.key \in Key /\ At \in Slot /\ At # -1
          /\ Return("insert", call.key, At)
      BY <1>0, <1>12, AtSlot DEF InsertStore, InsertHit, Stop, Slot
    <2>2. Bag!Answer("insert", call.key, TRUE)
      <3>1. Bag!Answer("insert", call.key, At # -1)
        BY <1>7, <2>1 DEF Fn
      <3> QED
        BY <2>1, <3>1
    <2>3. Bag!Held < Cap
      BY <1>2, <2>1 DEF BagInv, Room
    <2>4. CASE InsertStore
      <3>1. TableStored
        BY <2>1, <2>4 DEF InsertStore, TableStored, IsEmpty, IsTomb
      <3>2. then = [now EXCEPT ![call.key] = @ + 1]
        BY <1>0, <3>1, CopiesStored
      <3>3. Bag!Insert(call.key)
        BY <2>2, <2>3, <3>2 DEF Bag!Insert
      <3> QED
        BY <2>1, <3>3 DEF Bag!Next
    <2>5. CASE InsertHit
      <3>1. then = now
        BY <1>3, <2>5 DEF InsertHit
      <3>2. now[call.key] > 0
        <4>1. Copies(call.key) # 0 /\ Copies(call.key) \in Nat
          BY <2>1, <2>5, CopiesType DEF InsertHit
        <4> QED
          BY <1>1, <2>1, <4>1
      <3>3. Bag!Insert(call.key)
        BY <2>2, <2>3, <3>1, <3>2 DEF Bag!Insert
      <3> QED
        BY <2>1, <3>3 DEF Bag!Next
    <2> QED
      BY <1>12, <2>4, <2>5
  <1>13. CASE Probe
    <2>1. call # NoCall /\ At \in Slot
      BY <1>0, <1>13, AtSlot DEF Probe
    <2>2. CASE PassTomb \/ InsertPass
      BY <1>6, <2>2 DEF PassTomb, InsertPass
    <2> QED
      BY <1>10, <1>11, <1>12, <1>13, <2>1, <2>2 DEF Probe
  <1> QED
    BY <1>5, <1>8, <1>11, <1>13 DEF AnyStep, Next

LEMMA BagInit == Init => Bag!Init
  <1> SUFFICES ASSUME Init PROVE Bag!Init
    OBVIOUS
  <1>1. \A k \in Key : Copies(k) = 0
    BY CopiesType, KeyAssumption DEF Init
  <1>2. call.fn = "none" /\ call.key = StrNull /\ res.fn = "none" /\ res.key = StrNull /\ res.ret = -1
    BY DEF Init, NoCall
  <1> QED
    BY <1>1, <1>2 DEF Bag!Init, Bag!None

\* A second copy of a key takes the place of a tombstone: an insertion that comes
\* to an empty slot has passed all the places the key could be in.
LEMMA SecondCopy ==
  ASSUME BagInv, AnyStep, NEW k \in Key, Copies(k) >= 1, Copies(k)' > Copies(k)
  PROVE  \E i \in Slot : slots[i] = Tomb /\ slots'[i] = k
  <1>0. TypeOK /\ CallOK /\ Copies(k) \in Nat
    BY CopiesType DEF BagInv, IInv
  <1>1. CASE TableKept
    BY <1>0, <1>1 DEF TableKept, Copies
  <1>2. CASE TableDeleted
    <2>1. [j \in Key |-> Copies(j)]' = [[j \in Key |-> Copies(j)] EXCEPT ![call.key] = @ - 1]
      BY <1>0, <1>2, CopiesDeleted
    <2> QED
      BY <1>0, <2>1
  <1>3. CASE TableStored
    <2>1. [j \in Key |-> Copies(j)]' = [[j \in Key |-> Copies(j)] EXCEPT ![call.key] = @ + 1]
      BY <1>0, <1>3, CopiesStored
    <2>2. k = call.key
      BY <1>0, <2>1
    <2>3. call # NoCall /\ At \in Slot /\ slots'[At] = k
      BY <1>0, <1>3, <2>2 DEF TableStored, NoCall, TypeOK
    <2>4. ~IsEmpty(slots[At])
      BY <1>0, <2>2, <2>3, WalkMissesNothing
    <2> QED
      BY <1>3, <2>3, <2>4 DEF TableStored, IsEmpty
  <1> QED
    BY <1>0, <1>1, <1>2, <1>3, TableStep

----------------------------------------------------------------------------
\* Theorems about the set as a bag

THEOREM BagInvariance == Spec => []BagInv
  <1>1. BagInv /\ [Next]_vars => BagInv'
    BY BagKeeps DEF AnyStep
  <1> QED
    BY <1>1, BagStart, PTL DEF Spec

\* The table with tombstones, run slot by slot, does what KeyBag promises: a lookup
\* and a deletion fail only if no copy of the key is left, and an insertion only
\* when as many copies as there are slots are held.
THEOREM KeyBagImplemented == Spec => ImplementsKeyBag
  <1>1. BagInv /\ [Next]_vars => [Bag!Next]_(Bag!vars)
    BY BagStep DEF AnyStep
  <1> QED
    BY <1>1, BagInit, BagInvariance, PTL DEF Spec, ImplementsKeyBag, Bag!Spec

\* A key that is in the table gets a second slot only where a tombstone was.
THEOREM SecondCopiesOverTombs == Spec => SecondCopyOverTomb
  <1>1. BagInv /\ [Next]_vars =>
          [\A k \in Key : Copies(k) >= 1 /\ Copies(k)' > Copies(k) =>
             \E i \in Slot : slots[i] = Tomb /\ slots'[i] = k]_vars
    BY SecondCopy DEF AnyStep
  <1> QED
    BY <1>1, BagInvariance, PTL DEF Spec, SecondCopyOverTomb

----------------------------------------------------------------------------
\* A call on the map is the set's call on the keys; its delete returns 0.
LEMMA MapStepIsSetStep == [MapNext]_mapVars => AnyStep
  <1>0. 0 \in Slot
    BY ExpAssumption DEF Slot
  <1>1. ASSUME NEW fn \in Fn, NEW k \in Key, NEW v, MapBegin(fn, k, v)
        PROVE  Next
    BY <1>1 DEF MapBegin, Next
  <1>2. CASE MapProbe
    BY <1>0, <1>2
    DEF MapProbe, MapFindEmpty, MapPassTomb, MapPassOther, MapInsertPass, MapLookupHit,
        MapDeleteHit, MapInsertStore, MapInsertHit, Probe, Next, AnyStep
  <1>3. CASE UNCHANGED mapVars
    BY <1>3 DEF mapVars, AnyStep
  <1> QED
    BY <1>1, <1>2, <1>3 DEF MapNext, Fn, AnyStep

\* What a step may do to the values: only an insertion that
\* takes a free slot writes one.
Stored == call.fn = "insert" /\ slots[At] \notin Key /\ \E v : vals' = [vals EXCEPT ![At] = v]

LEMMA ValsStep ==
  ASSUME [MapNext]_mapVars
  PROVE  vals' = vals \/ Stored
  <1>1. ASSUME NEW fn, NEW k, NEW v, MapBegin(fn, k, v)
        PROVE  vals' = vals
    BY <1>1 DEF MapBegin
  <1>2. CASE MapInsertStore
    <2>1. slots[At] \notin Key
      BY <1>2, KeyAssumption DEF MapInsertStore, InsertStore, IsEmpty, IsTomb
    <2> QED
      BY <1>2, <2>1 DEF MapInsertStore, InsertStore, Stored
  <1>3. CASE MapProbe /\ ~MapInsertStore
    BY <1>3
    DEF MapProbe, MapFindEmpty, MapPassTomb, MapPassOther, MapInsertPass, MapLookupHit,
        MapDeleteHit, MapInsertHit
  <1>4. CASE UNCHANGED mapVars
    BY <1>4 DEF mapVars
  <1> QED
    BY <1>1, <1>2, <1>3, <1>4 DEF MapNext

\* What the map's invariant says: the set's, vals is a function on the slots, and
\* only an insertion under way has a value to bind.
ArgOK == IF call.fn = "insert" THEN arg \in Val ELSE arg = NoVal
MapInv == BagInv /\ DOMAIN vals = Slot /\ ArgOK

LEMMA MapStart == MapInit => MapInv
  BY BagStart DEF MapInit, MapInv, Init, ArgOK, NoCall

LEMMA ArgStep ==
  ASSUME TypeOK, CallOK, ArgOK, [MapNext]_mapVars
  PROVE  ArgOK'
  <1>1. ASSUME NEW fn \in Fn, NEW k \in Key, NEW v, MapBegin(fn, k, v),
               IF fn = "insert" THEN v \in Val ELSE v = NoVal
        PROVE  ArgOK'
    <2>1. CASE call' = NoCall
      BY <1>1, <2>1 DEF MapBegin, ArgOK, NoCall
    <2>2. CASE call' # NoCall
      <3>1. call'.fn = fn /\ arg' = v
        BY <1>1, <2>2 DEF MapBegin, Begin, Enter, Return
      <3> QED
        BY <1>1, <3>1 DEF ArgOK
    <2> QED
      BY <2>1, <2>2
  <1>2. ASSUME NEW c, GoOn(c), arg' = arg
        PROVE  ArgOK'
    <2>1. call'.fn = call.fn
      BY <1>2 DEF GoOn, TypeOK
    <2> QED
      BY <1>2, <2>1 DEF ArgOK
  <1>3. ASSUME call' = NoCall, arg' = NoVal
        PROVE  ArgOK'
    BY <1>3 DEF ArgOK, NoCall
  <1>4. CASE MapFindEmpty \/ MapLookupHit \/ MapDeleteHit \/ MapInsertStore \/ MapInsertHit
    BY <1>3, <1>4
    DEF MapFindEmpty, MapLookupHit, MapDeleteHit, MapInsertStore, MapInsertHit, FindEmpty,
        LookupHit, DeleteHit, InsertStore, InsertHit, Stop, Return
  <1>5. CASE MapPassTomb \/ MapInsertPass
    BY <1>2, <1>5 DEF MapPassTomb, MapInsertPass, PassTomb, InsertPass
  <1>6. CASE MapPassOther
    <2>1. CASE call' = NoCall
      BY <1>3, <1>6, <2>1 DEF MapPassOther
    <2>2. CASE call' # NoCall
      BY <1>2, <1>6, <2>2 DEF MapPassOther, PassOther, Stop, Return
    <2> QED
      BY <2>1, <2>2
  <1>7. CASE UNCHANGED mapVars
    BY <1>7 DEF mapVars, vars, ArgOK
  <1> QED
    BY <1>1, <1>4, <1>5, <1>6, <1>7 DEF MapNext, MapProbe, Fn

LEMMA MapStep == MapInv /\ [MapNext]_mapVars => MapInv'
  <1>1. MapInv => TypeOK /\ CallOK
    BY DEF MapInv, BagInv, IInv
  <1> QED
    BY <1>1, MapStepIsSetStep, BagKeeps, ValsStep, ArgStep DEF MapInv, Stored

----------------------------------------------------------------------------
\* The order of the bindings of a key

\* The turns tell the places of P apart.
Told(turns, P) ==
  /\ \A i \in P : turns[i] \in Int
  /\ \A i, j \in P : turns[i] = turns[j] => i = j
Upto(turns, P, i) == {j \in P : turns[j] <= turns[i]}

\* As many places as there are have as many ranks, one each.
LEMMA Ranking ==
  ASSUME NEW P, IsFiniteSet(P), NEW turns, Told(turns, P), NEW n \in 1 .. Cardinality(P)
  PROVE  /\ NthBy(turns, P, n) \in P
         /\ Cardinality(Upto(turns, P, NthBy(turns, P, n))) = n
         /\ \A i \in P : Cardinality(Upto(turns, P, i)) = n => i = NthBy(turns, P, n)
  <1> DEFINE U(i) == Upto(turns, P, i)
             rank == [i \in P |-> Cardinality(U(i))]
             c == Cardinality(P)
  <1>1. ASSUME NEW i \in P
        PROVE  U(i) \subseteq P /\ i \in U(i) /\ IsFiniteSet(U(i)) /\ rank[i] \in 1 .. c
    <2>1. U(i) \subseteq P /\ i \in U(i)
      BY <1>1 DEF Upto, Told
    <2>2. IsFiniteSet(U(i)) /\ Cardinality(U(i)) <= c /\ Cardinality(U(i)) \in Nat /\ c \in Nat
      <3> HIDE DEF U
      <3> QED
        BY <2>1, FS_Subset, FS_CardinalityType
    <2>3. Cardinality(U(i)) # 0
      <3> HIDE DEF U
      <3> QED
        BY <2>1, <2>2, FS_EmptySet
    <2> HIDE DEF U, c
    <2> QED
      BY <2>1, <2>2, <2>3
  <1>2. ASSUME NEW i \in P, NEW j \in P, turns[i] < turns[j]
        PROVE  rank[i] < rank[j]
    <2>1. U(i) \subseteq U(j) /\ j \notin U(i) /\ j \in U(j)
      BY <1>2 DEF Upto, Told
    <2>2. IsFiniteSet(U(j)) /\ U(i) \subseteq U(j) /\ U(i) # U(j)
      BY <1>1, <2>1
    <2>3. Cardinality(U(i)) < Cardinality(U(j))
      <3>1. Cardinality(U(i)) <= Cardinality(U(j)) /\ Cardinality(U(i)) # Cardinality(U(j))
        <4> HIDE DEF U
        <4> QED
          BY <2>2, FS_Subset
      <3>2. Cardinality(U(i)) \in Int /\ Cardinality(U(j)) \in Int
        BY <1>1
      <3> QED
        BY <3>1, <3>2
    <2> QED
      BY <2>3
  <1>3. \A i, j \in P : rank[i] = rank[j] => i = j
    <2> SUFFICES ASSUME NEW i \in P, NEW j \in P, rank[i] = rank[j] PROVE i = j
      OBVIOUS
    <2>1. ~(rank[i] < rank[j]) /\ ~(rank[j] < rank[i])
      <3>1. rank[i] \in 1 .. c /\ rank[j] \in 1 .. c
        BY <1>1
      <3> HIDE DEF rank, c
      <3> QED
        BY <3>1
    <2>2. ~(turns[i] < turns[j]) /\ ~(turns[j] < turns[i])
      BY <1>2, <2>1
    <2> QED
      BY <2>2 DEF Told
  <1>4. rank \in Surjection(P, 1 .. c)
    <2>1. rank \in Injection(P, 1 .. c)
      <3>1. rank \in [P -> 1 .. c] /\ DOMAIN rank = P
        BY <1>1
      <3> HIDE DEF rank, c
      <3> QED
        BY <1>3, <3>1 DEF Injection, IsInjective
    <2>2. c \in Nat /\ IsFiniteSet(1 .. c) /\ Cardinality(1 .. c) = c
      <3>1. c \in Nat
        BY FS_CardinalityType
      <3> HIDE DEF c
      <3> QED
        BY <3>1, FS_Interval
    <2> HIDE DEF rank
    <2> QED
      BY <2>1, <2>2, FS_Injection
  <1>5. PICK i \in P : rank[i] = n
    <2> HIDE DEF rank
    <2> QED
      BY <1>4 DEF Surjection
  <1> DEFINE w == NthBy(turns, P, n)
  <1>6. w \in P /\ Cardinality(U(w)) = n
    <2>1. i \in P /\ Cardinality({j \in P : turns[j] <= turns[i]}) = n
      BY <1>5 DEF Upto
    <2> QED
      BY <2>1 DEF NthBy, Upto
  <1> QED
    BY <1>3, <1>6

\* A place whose turn is before all of the others comes first, and the others keep
\* their order behind it.
LEMMA NewFirst ==
  ASSUME NEW P, IsFiniteSet(P), NEW a, a \notin P, NEW Q, Q = P \cup {a},
         NEW turns, Told(turns, Q), \A j \in P : turns[a] < turns[j]
  PROVE  /\ NthBy(turns, Q, 1) = a
         /\ \A n \in 1 .. Cardinality(P) : NthBy(turns, Q, n + 1) = NthBy(turns, P, n)
  <1>1. IsFiniteSet(Q) /\ Cardinality(Q) = Cardinality(P) + 1 /\ Cardinality(P) \in Nat
    BY FS_AddElement, FS_CardinalityType
  <1>2. Told(turns, P) /\ turns[a] \in Int
    BY DEF Told
  <1>3. Cardinality(Upto(turns, Q, a)) = 1
    <2>1. Upto(turns, Q, a) = {a}
      BY <1>2 DEF Upto, Told
    <2> QED
      BY <2>1, FS_Singleton
  <1>4. ASSUME NEW n \in 1 .. Cardinality(P)
        PROVE  NthBy(turns, Q, n + 1) = NthBy(turns, P, n)
    <2> DEFINE i == NthBy(turns, P, n)
    <2>1. i \in P /\ Cardinality(Upto(turns, P, i)) = n
      BY <1>2, <1>4, Ranking
    <2> HIDE DEF i
    <2>2. Upto(turns, Q, i) = Upto(turns, P, i) \cup {a} /\ a \notin Upto(turns, P, i)
      BY <1>2, <2>1 DEF Upto, Told
    <2>3. IsFiniteSet(Upto(turns, P, i))
      <3>1. Upto(turns, P, i) \in SUBSET P
        BY DEF Upto
      <3> QED
        BY <3>1, FS_Subset
    <2>4. Cardinality(Upto(turns, Q, i)) = n + 1
      BY <2>1, <2>2, <2>3, FS_AddElement
    <2>5. n + 1 \in 1 .. Cardinality(Q) /\ i \in Q
      BY <1>1, <1>4, <2>1
    <2>6. i = NthBy(turns, Q, n + 1)
      BY <1>1, <2>4, <2>5, Ranking
    <2> QED
      BY <2>6 DEF i
  <1>5. NthBy(turns, Q, 1) = a
    <2>1. 1 \in 1 .. Cardinality(Q) /\ a \in Q
      BY <1>1
    <2> QED
      BY <1>1, <1>3, <2>1, Ranking
  <1> QED
    BY <1>4, <1>5

\* The slots of a sequence have turns of their own.
LEMMA TurnsTold ==
  ASSUME TypeOK, NEW k \in Key, NEW P, P \subseteq Slot,
         \A i \in P : \E p \in 1 .. Cap : Nth(k, p) = i
  PROVE  /\ Told(Turns(k), P)
         /\ \A i \in P : /\ Turns(k)[i] \in 1 .. Cap /\ Nth(k, Turns(k)[i]) = i
                         /\ \A n \in 1 .. Cap : Nth(k, n) = i => Turns(k)[i] <= n
  <1>1. ASSUME NEW i \in P
        PROVE  /\ Turns(k)[i] \in 1 .. Cap /\ Nth(k, Turns(k)[i]) = i
               /\ \A n \in 1 .. Cap : Nth(k, n) = i => Turns(k)[i] <= n
    <2> DEFINE N == {n \in 1 .. Cap : Nth(k, n) = i}
    <2>1. N \subseteq Nat /\ N # {}
      BY <1>1, ExpAssumption
    <2>2. PICK n \in N : \A m \in N : n <= m
      <3> HIDE DEF N
      <3> QED
        BY <2>1, LeastElement
    <2>3. Min(N) \in N /\ \A m \in N : Min(N) <= m
      <3> HIDE DEF N
      <3> QED
        BY <2>2 DEF Min
    <2>4. Turns(k)[i] = Min(N)
      BY DEF Turns
    <2> QED
      BY <2>3, <2>4
  <1>2. Told(Turns(k), P)
    <2>1. \A i \in P : Turns(k)[i] \in Int
      BY <1>1, ExpAssumption
    <2>2. \A i, j \in P : Turns(k)[i] = Turns(k)[j] => i = j
      BY <1>1
    <2> QED
      BY <2>1, <2>2 DEF Told
  <1> QED
    BY <1>1, <1>2

\* The places of a key: how many there are, and that they have turns.
LEMMA PlacesTold ==
  ASSUME TypeOK, ChainUnbroken, NEW k \in Key
  PROVE  /\ IsFiniteSet(Places(k)) /\ Copies(k) = Cardinality(Places(k)) /\ Copies(k) \in Nat
         /\ Places(k) \subseteq Slot
         /\ Told(Turns(k), Places(k))
  <1>1. IsFiniteSet(Places(k)) /\ Copies(k) = Cardinality(Places(k)) /\ Copies(k) \in Nat
    BY CopiesType DEF Places, Copies
  <1>2. Places(k) \subseteq Slot /\ \A i \in Places(k) : \E p \in 1 .. Cap : Nth(k, p) = i
    BY DEF Places, ChainUnbroken
  <1> QED
    BY <1>1, <1>2, TurnsTold

\* The bindings of a key are a sequence of as many values as there are copies.
LEMMA BindingsType ==
  ASSUME TypeOK, ChainUnbroken, NEW k \in Key
  PROVE  /\ Bindings(k) \in Seq({vals[i] : i \in Slot})
         /\ Len(Bindings(k)) = Copies(k) /\ Copies(k) \in Nat
         /\ \A n \in 1 .. Copies(k) : /\ NthBy(Turns(k), Places(k), n) \in Places(k)
                                      /\ Bindings(k)[n] = vals[NthBy(Turns(k), Places(k), n)]
  <1>1. \A n \in 1 .. Copies(k) : NthBy(Turns(k), Places(k), n) \in Places(k)
    BY PlacesTold, Ranking
  <1>2. Copies(k) \in Nat /\ Places(k) \subseteq Slot
    BY PlacesTold
  <1> QED
    BY <1>1, <1>2 DEF Bindings

\* The turns of a key are the same at any time.
LEMMA TurnsStay ==
  ASSUME hash' = hash, NEW k
  PROVE  Turns(k)' = Turns(k)
  BY DEF Turns, Nth

\* What is not touched of a key's slots and values leaves its bindings alone.
LEMMA StackKept ==
  ASSUME TypeOK, ChainUnbroken, NEW k \in Key, hash' = hash,
         Places(k)' = Places(k), \A i \in Places(k) : vals'[i] = vals[i]
  PROVE  Bindings(k)' = Bindings(k)
  <1>1. \A n \in 1 .. Copies(k) : NthBy(Turns(k), Places(k), n) \in Places(k)
    BY BindingsType
  <1>2. Copies(k)' = Copies(k)
    BY DEF Copies, Places
  <1>3. Turns(k)' = Turns(k)
    BY TurnsStay
  <1>4. Bindings(k)' = [n \in 1 .. Copies(k)' |-> vals'[NthBy(Turns(k)', Places(k)', n)]]
    BY DEF Bindings
  <1> QED
    BY <1>1, <1>2, <1>3, <1>4 DEF Bindings

\* The slot a call looks at comes before all others that hold its key: the walk has
\* not met the key yet.
LEMMA Foremost ==
  ASSUME BagInv, call # NoCall, NEW k \in Key, k = call.key, At \in Slot,
         \E p \in 1 .. Cap : Nth(k, p) = At
  PROVE  LET P == Places(k) \ {At} IN
         /\ IsFiniteSet(P)
         /\ Told(Turns(k), P \cup {At})
         /\ \A j \in P : Turns(k)[At] < Turns(k)[j]
  <1> DEFINE P == Places(k) \ {At}
             Q == P \cup {At}
  <1>0. TypeOK /\ ChainUnbroken /\ hash \in HashFns
    BY DEF BagInv, IInv, TypeOK
  <1>1. Q \subseteq Slot /\ \A i \in Q : \E p \in 1 .. Cap : Nth(k, p) = i
    BY <1>0 DEF Places, ChainUnbroken
  <1>2. /\ Told(Turns(k), Q)
        /\ \A i \in Q : /\ Turns(k)[i] \in 1 .. Cap /\ Nth(k, Turns(k)[i]) = i
                        /\ \A n \in 1 .. Cap : Nth(k, n) = i => Turns(k)[i] <= n
    <2> HIDE DEF Q
    <2> QED
      BY <1>0, <1>1, TurnsTold
  <1>3. IsFiniteSet(P)
    <2>1. P \in SUBSET Places(k)
      OBVIOUS
    <2> HIDE DEF P
    <2> QED
      BY <1>0, <2>1, PlacesTold, FS_Subset
  <1>4. PICK n \in Nat : Walked(n)
    BY DEF BagInv, Walk
  <1>5. At = Nth(k, n + 1) /\ \A m \in 1 .. n : slots[Nth(k, m)] # k
    BY <1>0, <1>4, NthNext DEF Walked, At
  <1>6. Cap \in Nat /\ Turns(k)[At] \in 1 .. Cap /\ Turns(k)[At] <= n + 1
    <2>1. Cap \in Nat /\ Turns(k)[At] \in 1 .. Cap
      BY <1>2, ExpAssumption
    <2>2. CASE n + 1 <= Cap
      BY <1>2, <1>5, <2>1, <2>2
    <2>3. CASE ~(n + 1 <= Cap)
      BY <2>1, <2>3
    <2> QED
      BY <2>1, <2>2, <2>3
  <1>7. ASSUME NEW j \in P
        PROVE  Turns(k)[At] < Turns(k)[j]
    <2> DEFINE t == Turns(k)[j]
    <2>1. t \in 1 .. Cap /\ Nth(k, t) = j /\ j # At /\ slots[j] = k
      BY <1>2, <1>7 DEF Places
    <2>2. t \notin 1 .. n /\ t # n + 1
      BY <1>5, <2>1
    <2> HIDE DEF t
    <2>3. Turns(k)[At] < t
      BY <1>6, <2>1, <2>2
    <2> QED
      BY <2>3 DEF t
  <1> QED
    BY <1>2, <1>3, <1>7

\* A stack with one more on top, and with one less.
LEMMA PushIs ==
  ASSUME NEW S, NEW b \in Seq(S), NEW v, NEW q, q = [n \in 1 .. Len(b) + 1 |-> q[n]],
         q[1] = v, \A n \in 1 .. Len(b) : q[n + 1] = b[n]
  PROVE  q = <<v>> \o b
  <1> DEFINE T == S \cup {v}
             r == <<v>> \o b
  <1>1. Len(b) \in Nat /\ \A n \in 1 .. Len(b) : b[n] \in T
    OBVIOUS
  <1>2. b \in Seq(T) /\ <<v>> \in Seq(T) /\ Len(<<v>>) = 1 /\ <<v>>[1] = v
    OBVIOUS
  <1>3. r \in Seq(T) /\ Len(r) = Len(b) + 1
        /\ \A n \in 1 .. Len(b) + 1 : r[n] = IF n = 1 THEN v ELSE b[n - 1]
    BY <1>1, <1>2, ConcatProperties
  <1>4. \A n \in 1 .. Len(b) + 1 : q[n] = r[n]
    <2> SUFFICES ASSUME NEW n \in 1 .. Len(b) + 1 PROVE q[n] = r[n]
      OBVIOUS
    <2>1. CASE n = 1
      BY <1>1, <1>3, <2>1
    <2>2. CASE n # 1
      <3>1. n - 1 \in 1 .. Len(b) /\ (n - 1) + 1 = n
        BY <1>1, <2>2
      <3>2. q[(n - 1) + 1] = b[n - 1]
        BY <3>1
      <3> QED
        BY <1>3, <2>2, <3>1, <3>2
    <2> QED
      BY <2>1, <2>2
  <1>5. r = [n \in 1 .. Len(b) + 1 |-> r[n]]
    BY <1>3
  <1> HIDE DEF r
  <1>6. q = r
    BY <1>4, <1>5
  <1> QED
    BY <1>6 DEF r

LEMMA PopIs ==
  ASSUME NEW S, NEW b \in Seq(S), NEW m \in Nat, Len(b) = m + 1,
         NEW q, q = [n \in 1 .. m |-> q[n]], \A n \in 1 .. m : q[n] = b[n + 1]
  PROVE  q = Tail(b)
  <1> DEFINE r == Tail(b)
  <1>1. b # <<>>
    OBVIOUS
  <1>2. r = [n \in 1 .. m |-> b[n + 1]]
    <2>1. r \in Seq(S) /\ Len(r) = m /\ \A n \in 1 .. m : r[n] = b[n + 1]
      BY <1>1, HeadTailProperties
    <2> HIDE DEF r
    <2>2. r = [n \in 1 .. m |-> r[n]]
      BY <2>1
    <2> QED
      BY <2>1, <2>2
  <1> HIDE DEF r
  <1>3. q = r
    BY <1>2
  <1> QED
    BY <1>3 DEF r

\* Storing a key puts its value on top of the key's stack.
LEMMA StackPushed ==
  ASSUME BagInv, ChainUnbroken', TableStored, call # NoCall, hash' = hash,
         NEW v, vals' = [vals EXCEPT ![At] = v], DOMAIN vals = Slot
  PROVE  [k \in Key |-> Bindings(k)]' =
           [[k \in Key |-> Bindings(k)] EXCEPT ![call.key] = <<v>> \o @]
  <1>0. TypeOK /\ ChainUnbroken
    BY DEF BagInv, IInv
  <1>1. call.key \in Key /\ At \in Slot /\ slots[At] \notin Key
        /\ slots' = [slots EXCEPT ![At] = call.key] /\ slots \in [Slot -> Entry]
    BY <1>0, KeyAssumption DEF TypeOK, TableStored
  <1>2. PICK c \in Key : c = call.key
    BY <1>1
  <1>3. ASSUME NEW k \in Key, k # c
        PROVE  Bindings(k)' = Bindings(k)
    <2>1. Places(k)' = Places(k) /\ At \notin Places(k)
      BY <1>1, <1>2, <1>3 DEF Places
    <2>2. \A i \in Places(k) : vals'[i] = vals[i]
      BY <2>1 DEF Places
    <2> QED
      BY <1>0, <2>1, <2>2, StackKept
  <1>4. Bindings(c)' = <<v>> \o Bindings(c)
    <2> DEFINE P == Places(c)
               t == Turns(c)
               b == Bindings(c)
               m == Copies(c)
    <2>1. Places(c)' = P \cup {At} /\ At \notin P
      BY <1>1, <1>2 DEF Places
    <2>2. \E p \in 1 .. Cap : Nth(c, p) = At
      <3>1. slots'[At] = c
        BY <1>1, <1>2
      <3>2. \E p \in 1 .. Cap : Nth(c, p)' = At
        BY <1>1, <3>1 DEF ChainUnbroken
      <3> QED
        BY <3>2 DEF Nth
    <2>3. IsFiniteSet(P) /\ Told(t, P \cup {At}) /\ \A j \in P : t[At] < t[j]
      <3>1. P \ {At} = P
        BY <2>1
      <3> QED
        BY <1>1, <1>2, <2>2, <3>1, Foremost
    <2>4. m = Cardinality(P) /\ m \in Nat /\ Copies(c)' = m + 1
      <3>1. m = Cardinality(P) /\ m \in Nat
        BY <1>0, PlacesTold
      <3>2. Copies(c)' = Cardinality(P \cup {At})
        BY <2>1 DEF Copies, Places
      <3> QED
        BY <2>1, <2>3, <3>1, <3>2, FS_AddElement
    <2>5. NthBy(t, P \cup {At}, 1) = At
          /\ \A n \in 1 .. m : NthBy(t, P \cup {At}, n + 1) = NthBy(t, P, n)
      <3> HIDE DEF P, t
      <3> QED
        BY <2>1, <2>3, <2>4, NewFirst
    <2>6. \A n \in 1 .. m : NthBy(t, P, n) \in P /\ b[n] = vals[NthBy(t, P, n)]
      BY <1>0, BindingsType
    <2>7. b \in Seq({vals[i] : i \in Slot}) /\ Len(b) = m
      BY <1>0, BindingsType
    <2>8. Bindings(c)' = [n \in 1 .. m + 1 |-> vals'[NthBy(t, P \cup {At}, n)]]
      <3>1. Turns(c)' = t
        BY TurnsStay
      <3>2. Bindings(c)' = [n \in 1 .. Copies(c)' |-> vals'[NthBy(Turns(c)', Places(c)', n)]]
        BY DEF Bindings
      <3> QED
        BY <2>1, <2>4, <3>1, <3>2
    <2>9. vals'[At] = v /\ \A i \in P : vals'[i] = vals[i]
      BY <1>1, <2>1 DEF Places
    <2> DEFINE q == [n \in 1 .. m + 1 |-> vals'[NthBy(t, P \cup {At}, n)]]
    <2>10. q[1] = v /\ \A n \in 1 .. m : q[n + 1] = b[n]
      <3>1. 1 \in 1 .. m + 1 /\ \A n \in 1 .. m : n + 1 \in 1 .. m + 1
        BY <2>4
      <3> HIDE DEF b, m, P, t
      <3> QED
        BY <2>5, <2>6, <2>9, <3>1
    <2>11. DOMAIN q = 1 .. m + 1 /\ q = [n \in 1 .. m + 1 |-> q[n]]
      OBVIOUS
    <2> HIDE DEF q, b, m, P, t
    <2>12. q = <<v>> \o b
      <3>1. b \in Seq({vals[i] : i \in Slot}) /\ Len(b) = m
        BY <2>7
      <3> QED
        BY ONLY <3>1, <2>10, <2>11, PushIs
    <2> QED
      BY <2>8, <2>12 DEF q, b
  <1> QED
    BY <1>1, <1>2, <1>3, <1>4

\* The slot where a call meets its key holds the top of the key's stack.
LEMMA StackTop ==
  ASSUME BagInv, call # NoCall, NEW c \in Key, c = call.key, At \in Slot, slots[At] = c
  PROVE  LET P == Places(c) \ {At}  t == Turns(c) IN
         /\ Places(c) = P \cup {At} /\ At \notin P /\ IsFiniteSet(P)
         /\ Copies(c) = Cardinality(P) + 1 /\ Cardinality(P) \in Nat
         /\ NthBy(t, Places(c), 1) = At
         /\ \A n \in 1 .. Cardinality(P) : NthBy(t, Places(c), n + 1) = NthBy(t, P, n)
         /\ \A n \in 1 .. Cardinality(P) : NthBy(t, P, n) \in P
         /\ Bindings(c) # <<>> /\ Head(Bindings(c)) = vals[At]
  <1> DEFINE P == Places(c) \ {At}
             t == Turns(c)
             b == Bindings(c)
  <1>0. TypeOK /\ ChainUnbroken
    BY DEF BagInv, IInv
  <1>1. Places(c) = P \cup {At} /\ At \notin P
    BY DEF Places
  <1>2. \E p \in 1 .. Cap : Nth(c, p) = At
    BY DEF BagInv, IInv, ChainUnbroken
  <1>3. IsFiniteSet(P) /\ Told(t, P \cup {At}) /\ \A j \in P : t[At] < t[j]
    BY <1>2, Foremost
  <1> HIDE DEF P
  <1>4. Copies(c) = Cardinality(P) + 1 /\ Cardinality(P) \in Nat
    BY <1>0, <1>1, <1>3, PlacesTold, FS_AddElement, FS_CardinalityType
  <1> HIDE DEF t
  <1>5. /\ NthBy(t, Places(c), 1) = At
        /\ \A n \in 1 .. Cardinality(P) : NthBy(t, Places(c), n + 1) = NthBy(t, P, n)
    BY <1>1, <1>3, NewFirst
  <1>6. \A n \in 1 .. Cardinality(P) : NthBy(t, P, n) \in P
    <2>1. Told(t, P)
      BY <1>3 DEF Told
    <2> QED
      BY <1>3, <2>1, Ranking
  <1>7. b # <<>> /\ Head(b) = vals[At]
    <2>1. b \in Seq({vals[i] : i \in Slot}) /\ Len(b) = Copies(c)
          /\ (1 \in 1 .. Copies(c) => b[1] = vals[NthBy(t, Places(c), 1)])
      BY <1>0, BindingsType DEF t
    <2> HIDE DEF b
    <2>2. Len(b) > 0 /\ b[1] = vals[At]
      BY <1>4, <1>5, <2>1
    <2> QED
      BY <2>1, <2>2
  <1> QED
    BY <1>1, <1>3, <1>4, <1>5, <1>6, <1>7 DEF P, t

\* A deletion takes the top of the key's stack away.
LEMMA StackPopped ==
  ASSUME BagInv, TableDeleted, call # NoCall, hash' = hash, vals' = vals
  PROVE  [k \in Key |-> Bindings(k)]' =
           [[k \in Key |-> Bindings(k)] EXCEPT ![call.key] = Tail(@)]
  <1>0. TypeOK /\ ChainUnbroken
    BY DEF BagInv, IInv
  <1>1. call.key \in Key /\ At \in Slot /\ slots[At] = call.key
        /\ slots' = [slots EXCEPT ![At] = Tomb] /\ slots \in [Slot -> Entry]
    BY <1>0 DEF TypeOK, TableDeleted
  <1>2. PICK c \in Key : c = call.key
    BY <1>1
  <1>3. ASSUME NEW k \in Key, k # c
        PROVE  Bindings(k)' = Bindings(k)
    <2>1. Places(k)' = Places(k)
      BY <1>1, <1>2, <1>3, KeyAssumption DEF Places
    <2> QED
      BY <1>0, <2>1, StackKept
  <1>4. Bindings(c)' = Tail(Bindings(c))
    <2> DEFINE P == Places(c) \ {At}
               t == Turns(c)
               b == Bindings(c)
               m == Cardinality(P)
               q == [n \in 1 .. m |-> vals[NthBy(t, P, n)]]
    <2>1. Places(c)' = P
      BY <1>1, <1>2, KeyAssumption DEF Places
    <2>2. /\ Copies(c) = m + 1 /\ m \in Nat
          /\ \A n \in 1 .. m : NthBy(t, Places(c), n + 1) = NthBy(t, P, n)
      BY <1>1, <1>2, StackTop
    <2>3. Bindings(c)' = q
      <3>1. Turns(c)' = t /\ Copies(c)' = m
        BY <2>1, TurnsStay DEF Copies, Places
      <3>2. Bindings(c)' = [n \in 1 .. Copies(c)' |-> vals'[NthBy(Turns(c)', Places(c)', n)]]
        BY DEF Bindings
      <3> QED
        BY <2>1, <3>1, <3>2
    <2>4. b \in Seq({vals[i] : i \in Slot}) /\ Len(b) = m + 1
          /\ \A n \in 1 .. m + 1 : b[n] = vals[NthBy(t, Places(c), n)]
      BY <1>0, <2>2, BindingsType
    <2>5. \A n \in 1 .. m : q[n] = b[n + 1]
      <3>1. \A n \in 1 .. m : n + 1 \in 1 .. m + 1
        BY <2>2
      <3> HIDE DEF b, m, P, t
      <3> QED
        BY <2>2, <2>4, <3>1
    <2>6. DOMAIN q = 1 .. m /\ q = [n \in 1 .. m |-> q[n]]
      OBVIOUS
    <2> HIDE DEF q, b, m, P, t
    <2>7. q = Tail(b)
      <3>1. m \in Nat /\ Len(b) = m + 1 /\ b \in Seq({vals[i] : i \in Slot})
        BY <2>2, <2>4
      <3> QED
        BY ONLY <3>1, <2>5, <2>6, PopIs
    <2> QED
      BY <2>3, <2>7 DEF b
  <1> QED
    BY <1>1, <1>2, <1>3, <1>4

----------------------------------------------------------------------------
\* Refinement of KeyStacks

\* All stacks together hold as many values as len says.
LEMMA StacksHeld ==
  ASSUME TypeOK, LenCountsKeys, ChainUnbroken
  PROVE  Stacks!Held = len
  <1> DEFINE Pairs == UNION {{k} \X (1 .. Copies(k)) : k \in Key}
             StackPairs == UNION {{k} \X (1 .. Len([j \in Key |-> Bindings(j)][k])) : k \in Key}
             BagPairs == UNION {{k} \X (1 .. [j \in Key |-> Copies(j)][k]) : k \in Key}
  <1>1. \A k \in Key : Len([j \in Key |-> Bindings(j)][k]) = Copies(k)
    BY BindingsType
  <1>2. StackPairs = Pairs /\ BagPairs = Pairs
    BY <1>1
  <1>3. Stacks!Held = Stacks!Cardinality(StackPairs) /\ Bag!Held = Bag!Cardinality(BagPairs)
    BY DEF Stacks!Held, Bag!Held
  <1>4. \A S : Stacks!Cardinality(S) = Cardinality(S) /\ Bag!Cardinality(S) = Cardinality(S)
    BY DEF Stacks!Cardinality, Bag!Cardinality, Cardinality
  <1> HIDE DEF Pairs, StackPairs, BagPairs
  <1> QED
    BY <1>2, <1>3, <1>4, HeldIsLen

\* A key without copies has no bindings, any other has.
LEMMA BoundIs ==
  ASSUME TypeOK, ChainUnbroken, NEW k \in Key
  PROVE  Bindings(k) # <<>> <=> Copies(k) > 0
  <1>1. Bindings(k) \in Seq({vals[i] : i \in Slot}) /\ Len(Bindings(k)) = Copies(k)
        /\ Copies(k) \in Nat
    BY BindingsType
  <1> DEFINE b == Bindings(k)
             c == Copies(k)
  <1> HIDE DEF b, c
  <1>2. b \in Seq({vals[i] : i \in Slot}) /\ Len(b) = c /\ c \in Nat
    BY <1>1 DEF b, c
  <1>3. b # <<>> <=> c > 0
    BY <1>2
  <1> QED
    BY <1>3 DEF b, c

\* The stacks after a step that leaves slots and values alone.
LEMMA StacksSame ==
  ASSUME TypeOK, ChainUnbroken, hash' = hash, slots' = slots, vals' = vals
  PROVE  [k \in Key |-> Bindings(k)]' = [k \in Key |-> Bindings(k)]
  <1>1. ASSUME NEW k \in Key PROVE Bindings(k)' = Bindings(k)
    <2>1. Places(k)' = Places(k)
      BY DEF Places
    <2> QED
      BY <2>1, StackKept
  <1> QED
    BY <1>1

\* The answers of a lookup or a deletion that finds nothing, of a lookup that finds
\* the key, and of a deletion that does.
LEMMA StackMiss ==
  ASSUME NEW k \in Key, NEW fn \in {"lookup", "delete"}, Bindings(k) = <<>>,
         Stacks!Answer(fn, k, NoVal, FALSE, NoVal),
         [j \in Key |-> Bindings(j)]' = [j \in Key |-> Bindings(j)]
  PROVE  Stacks!Next
  <1> DEFINE bound == [j \in Key |-> Bindings(j)][k] # <<>>
  <1>1. bound = FALSE
    OBVIOUS
  <1>2. CASE fn = "lookup"
    <2>1. Stacks!Answer("lookup", k, NoVal, bound,
                        IF bound THEN Head([j \in Key |-> Bindings(j)][k]) ELSE NoVal)
      <3> HIDE DEF bound
      <3> QED
        BY <1>1, <1>2
    <2> QED
      BY <2>1 DEF Stacks!Next, Stacks!Lookup, Stacks!Bound
  <1>3. CASE fn = "delete"
    <2>1. Stacks!Answer("delete", k, NoVal, bound, NoVal)
      <3> HIDE DEF bound
      <3> QED
        BY <1>1, <1>3
    <2> QED
      BY <1>1, <2>1 DEF Stacks!Next, Stacks!Delete, Stacks!Bound
  <1> QED
    BY <1>2, <1>3

LEMMA StackHit ==
  ASSUME NEW k \in Key, Bindings(k) # <<>>,
         Stacks!Answer("lookup", k, NoVal, TRUE, Head(Bindings(k))),
         [j \in Key |-> Bindings(j)]' = [j \in Key |-> Bindings(j)]
  PROVE  Stacks!Next
  <1> DEFINE bound == [j \in Key |-> Bindings(j)][k] # <<>>
             top == Head([j \in Key |-> Bindings(j)][k])
  <1>1. bound = TRUE /\ top = Head(Bindings(k))
    OBVIOUS
  <1>2. Stacks!Answer("lookup", k, NoVal, bound, IF bound THEN top ELSE NoVal)
    <2> HIDE DEF bound, top
    <2> QED
      BY <1>1
  <1> QED
    BY <1>2 DEF Stacks!Next, Stacks!Lookup, Stacks!Bound

LEMMA StackDrop ==
  ASSUME NEW k \in Key, Bindings(k) # <<>>,
         Stacks!Answer("delete", k, NoVal, TRUE, NoVal),
         [j \in Key |-> Bindings(j)]' = [[j \in Key |-> Bindings(j)] EXCEPT ![k] = Tail(@)]
  PROVE  Stacks!Next
  <1> DEFINE bound == [j \in Key |-> Bindings(j)][k] # <<>>
  <1>1. bound = TRUE
    OBVIOUS
  <1>2. Stacks!Answer("delete", k, NoVal, bound, NoVal)
    <2> HIDE DEF bound
    <2> QED
      BY <1>1
  <1> QED
    BY <1>1, <1>2 DEF Stacks!Next, Stacks!Delete, Stacks!Bound

\* Every step of the map is one of the stacks: a call takes effect when it returns.
LEMMA StackStep == MapInv /\ [MapNext]_mapVars => [Stacks!Next]_(Stacks!vars)
  <1> SUFFICES ASSUME MapInv, [MapNext]_mapVars PROVE [Stacks!Next]_(Stacks!vars)
    OBVIOUS
  <1> DEFINE now == [k \in Key |-> Bindings(k)]
             then == [k \in Key |-> Bindings(k)]'
             Goal == [Stacks!Next]_(Stacks!vars)
  <1>0. BagInv /\ TypeOK /\ CallOK /\ LenCountsKeys /\ ChainUnbroken /\ len \in 0 .. Cap
        /\ Cap \in Nat /\ DOMAIN vals = Slot /\ ArgOK
    BY ExpAssumption DEF MapInv, BagInv, IInv, TypeOK
  <1>1. \A k \in Key : now[k] = Bindings(k) /\ (Bindings(k) # <<>> <=> Copies(k) > 0)
    BY <1>0, BoundIs
  <1>2. Stacks!Held = len
    BY <1>0, StacksHeld
  <1>3. ASSUME hash' = hash, slots' = slots, vals' = vals
        PROVE  then = now
    BY <1>0, <1>3, StacksSame
  <1>4. ASSUME hash' = hash, slots' = slots, vals' = vals, call'.fn = call.fn,
               call'.key = call.key, res' = res, arg' = arg, got' = got
        PROVE  Goal
    <2>1. then = now
      BY <1>3, <1>4
    <2> QED
      BY <1>4, <2>1 DEF Stacks!vars
  <1>5. CASE UNCHANGED mapVars
    BY <1>4, <1>5 DEF mapVars, vars
  <1>6. ASSUME NEW c, GoOn(c), UNCHANGED <<vals, arg, got>>
        PROVE  Goal
    <2>1. hash' = hash /\ slots' = slots /\ res' = res /\ call'.fn = call.fn
          /\ call'.key = call.key
      BY <1>0, <1>6 DEF GoOn, TypeOK
    <2> QED
      BY <1>4, <1>6, <2>1
  \* What a call that returns looks like from outside.
  <1>7. ASSUME NEW fn \in Fn, NEW k \in Key, NEW v, NEW ret \in Slot \cup {-1},
               Return(fn, k, ret), arg' = NoVal,
               call = NoCall \/ (call.fn = fn /\ call.key = k /\ arg = v)
        PROVE  Stacks!Answer(fn, k, v, ret # -1, got')
    <2>1. call = NoCall => arg = NoVal
      BY <1>0 DEF ArgOK, NoCall
    <2> QED
      BY <1>7, <2>1 DEF Return, NoCall, Stacks!Answer, Stacks!None
  <1>8. ASSUME NEW fn \in Fn, NEW k \in Key, NEW v, MapBegin(fn, k, v),
               IF fn = "insert" THEN v \in Val ELSE v = NoVal
        PROVE  Goal
    <2>1. slots' = slots /\ then = now /\ call = NoCall /\ arg = NoVal
      BY <1>0, <1>3, <1>8 DEF MapBegin, Begin, ArgOK, NoCall
    <2>2. CASE Enter(fn, k)
      <3>1. call'.fn = fn /\ call'.key = k /\ call' # NoCall /\ res' = res
        BY <2>2, KeyAssumption DEF Enter, NoCall
      <3>2. arg' = v /\ got' = got
        BY <1>8, <3>1 DEF MapBegin
      <3>3. Stacks!Begin
        BY <1>8, <2>1, <3>1, <3>2 DEF NoCall, Stacks!Begin, Stacks!None, Fn
      <3> QED
        BY <3>3 DEF Stacks!Next
    <2>3. CASE Return(fn, k, -1) /\ (IF fn = "insert" THEN len + 1 > Cap ELSE len = 0)
      <3>0. arg' = NoVal /\ got' = NoVal
        BY <1>8, <2>3 DEF MapBegin, Return
      <3>1. Stacks!Answer(fn, k, v, FALSE, NoVal)
        BY <1>7, <2>1, <2>3, <3>0
      <3>2. CASE fn = "insert"
        <4>1. Stacks!Held = Cap
          BY <1>0, <1>2, <2>3, <3>2
        <4>2. Stacks!Insert(k, v) /\ v \in Val
          BY <1>8, <2>1, <3>1, <3>2, <4>1 DEF Stacks!Insert
        <4> QED
          BY <4>2 DEF Stacks!Next
      <3>3. CASE fn # "insert"
        <4>1. Bindings(k) = <<>> /\ v = NoVal
          BY <1>0, <1>1, <1>8, <2>3, <3>3, EmptyTable
        <4>2. fn \in {"lookup", "delete"}
          BY <3>3 DEF Fn
        <4> QED
          BY <2>1, <3>1, <4>1, <4>2, StackMiss
      <3> QED
        BY <3>2, <3>3
    <2> QED
      BY <1>8, <2>2, <2>3 DEF MapBegin, Begin
  \* A lookup or deletion that gives up.
  <1>9. ASSUME call # NoCall, Seeking, hash' = hash, slots' = slots, vals' = vals,
               Return(call.fn, call.key, -1), arg' = NoVal, got' = NoVal,
               Copies(call.key) = 0
        PROVE  Goal
    <2>1. call.key \in Key /\ call.fn \in Fn /\ arg = NoVal
      BY <1>0, <1>9, AtSlot DEF ArgOK, Seeking
    <2>2. Stacks!Answer(call.fn, call.key, NoVal, FALSE, NoVal) /\ then = now
      BY <1>3, <1>7, <1>9, <2>1
    <2>3. Bindings(call.key) = <<>>
      BY <1>1, <1>9, <2>1
    <2> QED
      BY <1>9, <2>1, <2>2, <2>3, StackMiss DEF Seeking
  <1>10. CASE call # NoCall /\ (MapFindEmpty \/ MapPassOther)
    <2>1. CASE MapFindEmpty
      BY <1>0, <1>9, <1>10, <2>1, WalkMissesNothing DEF MapFindEmpty, FindEmpty, Stop
    <2>2. CASE MapPassOther /\ call.count >= len /\ Stop(-1) /\ UNCHANGED <<slots, len>>
      <3>1. call' = NoCall /\ arg' = NoVal /\ got' = NoVal
        BY <2>2 DEF MapPassOther, Stop, Return
      <3> QED
        BY <1>0, <1>9, <1>10, <2>2, <3>1, WalkMissesNothing DEF MapPassOther, PassOther, Stop
    <2>3. CASE MapPassOther /\ GoOn(call.count + 1)
      <3>1. call' # NoCall
        BY <1>0, <1>10, <2>3, AtSlot, KeyAssumption DEF GoOn, TypeOK, NoCall
      <3> QED
        BY <1>6, <2>3, <3>1 DEF MapPassOther
    <2> QED
      BY <1>10, <2>1, <2>2, <2>3 DEF MapPassOther, PassOther
  <1>11. CASE call # NoCall /\ MapLookupHit
    <2>1. At \in Slot /\ At # -1 /\ call.key \in Key /\ call.fn = "lookup" /\ arg = NoVal
          /\ slots[At] = call.key
      BY <1>0, <1>11, AtSlot DEF MapLookupHit, LookupHit, Slot, ArgOK
    <2>2. then = now /\ got' = vals[At]
      BY <1>3, <1>11 DEF MapLookupHit, LookupHit, Stop
    <2>3. Bindings(call.key) # <<>> /\ Head(Bindings(call.key)) = vals[At]
      BY <1>0, <1>11, <2>1, StackTop
    <2>4. Stacks!Answer("lookup", call.key, NoVal, At # -1, got')
      BY <1>7, <1>11, <2>1 DEF MapLookupHit, LookupHit, Stop, Fn
    <2>5. Stacks!Answer("lookup", call.key, NoVal, TRUE, vals[At])
      BY <2>1, <2>2, <2>4
    <2> QED
      BY <1>1, <2>1, <2>2, <2>3, <2>5, StackHit
  <1>12. CASE call # NoCall /\ MapDeleteHit
    <2>1. At \in Slot /\ call.key \in Key /\ call.fn = "delete" /\ arg = NoVal
          /\ slots[At] = call.key /\ TableDeleted /\ hash' = hash /\ vals' = vals
      BY <1>0, <1>12, AtSlot
      DEF MapDeleteHit, DeleteHit, Stop, Slot, ArgOK, TableDeleted
    <2>2. Bindings(call.key) # <<>>
      BY <1>0, <1>12, <2>1, StackTop
    <2>3. then = [now EXCEPT ![call.key] = Tail(@)]
      BY <1>0, <1>12, <2>1, StackPopped
    <2>4. 0 \in Slot \cup {-1} /\ 0 # -1
      BY <1>0, ExpAssumption DEF Slot
    <2>5. Stacks!Answer("delete", call.key, NoVal, 0 # -1, got') /\ got' = NoVal
      BY <1>7, <1>12, <2>1, <2>4 DEF MapDeleteHit, DeleteHit, Stop, Fn
    <2>6. Stacks!Answer("delete", call.key, NoVal, TRUE, NoVal)
      BY <2>4, <2>5
    <2> QED
      BY <1>1, <2>1, <2>2, <2>3, <2>6, StackDrop
  <1>13. CASE call # NoCall /\ (MapInsertStore \/ MapInsertHit)
    <2>1. call.fn = "insert" /\ call.key \in Key /\ At \in Slot /\ At # -1 /\ arg \in Val
          /\ Return("insert", call.key, At) /\ arg' = NoVal /\ got' = NoVal /\ hash' = hash
      BY <1>0, <1>13, AtSlot
      DEF MapInsertStore, MapInsertHit, InsertStore, InsertHit, Stop, Slot, ArgOK
    <2>2. Stacks!Answer("insert", call.key, arg, TRUE, NoVal)
      <3>1. Stacks!Answer("insert", call.key, arg, At # -1, NoVal)
        BY <1>7, <2>1 DEF Fn
      <3> QED
        BY <2>1, <3>1
    <2>3. Stacks!Held < Cap
      BY <1>0, <1>2, <2>1 DEF BagInv, Room
    <2>4. CASE MapInsertStore
      <3>1. TableStored /\ vals' = [vals EXCEPT ![At] = arg]
        BY <2>1, <2>4 DEF MapInsertStore, InsertStore, TableStored, IsEmpty, IsTomb
      <3>2. ChainUnbroken'
        BY <1>0, AnyStepKeeps, MapStepIsSetStep DEF BagInv, IInv
      <3>3. then = [now EXCEPT ![call.key] = <<arg>> \o @]
        BY <1>0, <1>13, <2>1, <3>1, <3>2, StackPushed
      <3>4. Stacks!Insert(call.key, arg)
        BY <2>2, <2>3, <3>3 DEF Stacks!Insert
      <3> QED
        BY <2>1, <3>4 DEF Stacks!Next
    <2>5. CASE MapInsertHit
      <3>1. then = now /\ slots[At] = call.key
        BY <1>3, <2>1, <2>5 DEF MapInsertHit, InsertHit
      <3>2. Bindings(call.key) # <<>>
        BY <1>0, <1>13, <2>1, <3>1, StackTop
      <3>3. Stacks!Insert(call.key, arg)
        BY <1>1, <2>1, <2>2, <2>3, <3>1, <3>2 DEF Stacks!Insert, Stacks!Bound
      <3> QED
        BY <2>1, <3>3 DEF Stacks!Next
    <2> QED
      BY <1>13, <2>4, <2>5
  <1>14. CASE MapPassTomb \/ MapInsertPass
    BY <1>6, <1>14 DEF MapPassTomb, MapInsertPass, PassTomb, InsertPass
  <1>15. CASE MapProbe
    BY <1>10, <1>11, <1>12, <1>13, <1>14, <1>15 DEF MapProbe
  <1> QED
    BY <1>5, <1>8, <1>15 DEF MapNext, Fn

LEMMA StackInit == MapInit => Stacks!Init
  <1> SUFFICES ASSUME MapInit PROVE Stacks!Init
    OBVIOUS
  <1>0. TypeOK /\ ChainUnbroken
    BY Start DEF MapInit, IInv
  <1>1. \A k \in Key : Bindings(k) = <<>>
    <2>1. \A k \in Key : Copies(k) = 0
      BY CopiesType, KeyAssumption DEF MapInit, Init
    <2> QED
      BY <1>0, <2>1, BoundIs
  <1>2. call.fn = "none" /\ call.key = StrNull /\ res.fn = "none" /\ res.key = StrNull
        /\ res.ret = -1 /\ arg = NoVal /\ got = NoVal
    BY DEF MapInit, Init, NoCall
  <1> QED
    BY <1>1, <1>2 DEF Stacks!Init, Stacks!None

----------------------------------------------------------------------------
\* Theorems about the map

\* The set's invariant holds of the map.
THEOREM MapInvariance == MapSpec => []MapInv
  BY MapStart, MapStep, PTL DEF MapSpec

\* m->len is the number of keys of the map.
THEOREM MapLenCorrect == MapSpec => []LenCountsKeys
  BY MapInvariance, PTL DEF MapInv, BagInv, IInv

\* Every key of the map is found along its probe sequence, whatever was deleted
\* or inserted since.
THEOREM MapChainsCorrect == MapSpec => []ChainUnbroken
  BY MapInvariance, PTL DEF MapInv, BagInv, IInv

\* The keys of a map behave as the set's: a binding is found as long as one is left,
\* and an insertion fails only when every slot holds one.
THEOREM MapImplementsKeyBag == MapSpec => ImplementsKeyBag
  <1>1. MapInv /\ [MapNext]_mapVars => [Bag!Next]_(Bag!vars)
    BY MapStepIsSetStep, BagStep DEF MapInv
  <1>2. MapInit => Bag!Init
    BY BagInit DEF MapInit
  <1> QED
    BY <1>1, <1>2, MapInvariance, PTL DEF MapSpec, ImplementsKeyBag, Bag!Spec

\* A key of the map is bound a second time only where a tombstone was.
THEOREM MapSecondCopiesOverTombs == MapSpec => SecondCopyOverTomb
  <1>1. MapInv /\ [MapNext]_mapVars =>
          [\A k \in Key : Copies(k) >= 1 /\ Copies(k)' > Copies(k) =>
             \E i \in Slot : slots[i] = Tomb /\ slots'[i] = k]_vars
    BY MapStepIsSetStep, SecondCopy DEF MapInv, mapVars, vars
  <1> QED
    BY <1>1, MapInvariance, PTL DEF MapSpec, SecondCopyOverTomb

\* The map does what KeyStacks promises: a lookup shows the value bound last of those
\* that are left, a deletion brings back the one before.
THEOREM KeyStacksImplemented == MapSpec => ImplementsKeyStacks
  BY StackInit, StackStep, MapInvariance, PTL DEF MapSpec, ImplementsKeyStacks, Stacks!Spec

\* The slot of a binding and its value stay as they are until the key is deleted:
\* the pointer that lookup or insert returned can be used until then.
THEOREM BindingsStayPinned == MapSpec => BindingsPinned
  <1>1. ASSUME MapInv, [MapNext]_mapVars, NEW i \in Slot, slots[i] \in Key,
               <<slots'[i], vals'[i]>> # <<slots[i], vals[i]>>
        PROVE  slots'[i] = Tomb /\ call.fn = "delete" /\ call.key = slots[i]
    <2>1. CASE slots'[i] # slots[i]
      BY <1>1, <2>1, MapStepIsSetStep, KeysStay DEF MapInv, BagInv
    <2>2. CASE slots'[i] = slots[i]
      <3>1. vals'[i] # vals[i]
        BY <1>1, <2>2
      <3>2. Stored /\ i = At
        BY <1>1, <3>1, ValsStep DEF Stored, MapInv
      <3> QED
        BY <1>1, <3>2 DEF Stored
    <2> QED
      BY <2>1, <2>2
  <1>2. MapInv /\ [MapNext]_mapVars =>
          [\A i \in Slot :
             slots[i] \in Key /\ <<slots[i], vals[i]>>' # <<slots[i], vals[i]>> =>
               /\ slots'[i] = Tomb
               /\ call.fn = "delete" /\ call.key = slots[i]]_mapVars
    BY <1>1
  <1> QED
    BY <1>2, MapInvariance, PTL DEF MapSpec, BindingsPinned
============================================================================
