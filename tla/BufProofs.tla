----------------------------- MODULE BufProofs -----------------------------
(* Proofs about Buf, for every set of types, counts, capacities, addresses   *)
(* and any number of blocks.                                                 *)
EXTENDS Buf, SequenceTheorems, NatLemmas

ArenaType == [base : Nat, len : Nat, cap : Nat]

----------------------------------------------------------------------------
\* One allocation

\* What a buf_alloc that hands out bytes knows: the arena had not passed its
\* capacity, the block starts at or after len, aligned, and ends where the arena
\* does then, less than one alignment past the capacity.
Granting(b, r, size, align, count) ==
  /\ count > 0
  /\ r.beg \in Nat /\ r.beg >= b.len
  /\ (b.base + r.beg) % align = 0
  /\ r.buf = [b EXCEPT !.len = r.beg + count * size]
  /\ b.len + count * size <= b.cap
  /\ r.beg + count * size <= b.cap + align - 1

LEMMA PadRange ==
  ASSUME NEW b \in ArenaType, NEW align \in Nat \ {0}
  PROVE  Pad(b, align) \in 0 .. align - 1 /\ (b.base + (b.len + Pad(b, align))) % align = 0
  <1> DEFINE x == b.base + b.len
  <1>1. x \in Int /\ -x \in Int /\ b.base \in Int /\ b.len \in Int
    BY DEF ArenaType
  <1>2. Pad(b, align) = (-x) % align
    BY DEF Pad
  <1>3. (-x) % align \in 0 .. align - 1
    <2> HIDE DEF x
    <2> QED BY <1>1, ModDef
  <1>4. (x + ((-x) % align)) % align = 0
    <2> HIDE DEF x
    <2> QED BY <1>1, PadAligns
  <1>5. b.base + (b.len + Pad(b, align)) = x + ((-x) % align)
    BY <1>1, <1>2, <1>3
  <1> QED
    BY <1>2, <1>3, <1>4, <1>5

\* buf_alloc traps, leaves everything as it is, or grants a block.
LEMMA AllocKinds ==
  ASSUME NEW b \in ArenaType, NEW size \in Nat \ {0}, NEW align \in Nat \ {0},
         NEW count \in Int, NEW soft,
         NEW r, r = Alloc(b, size, align, count, soft)
  PROVE  \/ r.out = "trap"
         \/ r.out # "trap" /\ r.buf = b /\ ~(r.out = "ok" /\ count > 0)
         \/ r.out = "ok" /\ Granting(b, r, size, align, count)
  <1>1. CASE count <= 0
    BY <1>1 DEF Alloc, Outcome
  <1>2. CASE count > 0 /\ ~Fits(b, size, count)
    BY <1>2 DEF Alloc, Outcome
  <1>3. CASE count > 0 /\ Fits(b, size, count)
    <2> DEFINE beg == b.len + Pad(b, align)
    <2>1. r = [out |-> "ok", beg |-> beg, buf |-> [b EXCEPT !.len = beg + count * size]]
      BY <1>3 DEF Alloc, Outcome
    <2>2. count * size <= b.cap - b.len
      <3>1. b.cap - b.len \in Int /\ count <= (b.cap - b.len) \div size
        BY <1>3 DEF Fits, ArenaType
      <3> QED
        BY <3>1, DivFits
    <2>3. Pad(b, align) \in 0 .. align - 1 /\ (b.base + beg) % align = 0
      BY PadRange
    <2>4. b.len \in Nat /\ b.cap \in Nat /\ count * size \in Int
      BY DEF ArenaType
    <2>5. beg \in Nat /\ beg >= b.len /\ beg <= b.len + align - 1
      BY <2>3, <2>4
    <2>6. b.len + count * size <= b.cap /\ beg + count * size <= b.cap + align - 1
      BY <2>2, <2>4, <2>5
    <2>7. r.out = "ok" /\ r.beg = beg /\ r.buf = [b EXCEPT !.len = r.beg + count * size]
      BY <2>1
    <2> QED
      BY <1>3, <2>3, <2>5, <2>6, <2>7 DEF Granting
  <1> QED
    BY <1>1, <1>2, <1>3

----------------------------------------------------------------------------
\* The inductive invariant

\* A sub-buffer is filled within its bounds, an array has no fill level: what a
\* shrink cuts off is never more than the block has.
FillOK ==
  \A k \in DOMAIN blocks :
    /\ blocks[k].beg + blocks[k].used <= blocks[k].end
    /\ blocks[k].kind = "arr" => blocks[k].used = 0

IInv ==
  /\ TypeOK
  /\ FillOK
  /\ BlocksDisjoint
  /\ BlocksAligned
  /\ OverrunBounded
  /\ ZeroedStaysZero

----------------------------------------------------------------------------
\* The four things a step may do to the arena and its blocks

Kept == UNCHANGED <<buf, blocks, dirty>>

Cleared ==
  /\ blocks' = <<>> /\ buf' \in ArenaType /\ buf'.len = 0 /\ dirty' \in SUBSET Nat

Granted(b) ==
  /\ b \in BlockType /\ b.used = 0 /\ b.beg >= buf.len /\ b.end > b.beg
  /\ (buf.base + b.beg) % b.align = 0
  /\ blocks' = Append(blocks, b)
  /\ buf' = [buf EXCEPT !.len = b.end]
  /\ buf.len <= buf.cap /\ b.end <= buf.cap + MaxAlign - 1
  /\ dirty' = IF b.zero THEN dirty \ (b.beg .. b.end - 1) ELSE dirty

\* The block k becomes b: what it holds changes, or it loses bytes at its end and
\* the arena with it; then no other block has bytes behind it.
Changed(k, b) ==
  /\ k \in DOMAIN blocks /\ b \in BlockType
  /\ blocks' = [blocks EXCEPT ![k] = b]
  /\ b.kind = blocks[k].kind /\ b.align = blocks[k].align /\ b.beg = blocks[k].beg
  /\ b.beg + b.used <= b.end /\ b.end <= blocks[k].end
  /\ b.kind = "arr" => b.used = 0
  /\ buf' = [buf EXCEPT !.len = @ - (blocks[k].end - b.end)]
  /\ \/ b.end = blocks[k].end
     \/ \A j \in DOMAIN blocks \ {k} : Held(j) => blocks[j].end <= blocks[k].beg
  /\ \/ dirty' = dirty /\ b.zero = blocks[k].zero
     \/ ~b.zero /\ dirty' \subseteq dirty \cup Bytes(k)

LEMMA TakeKinds ==
  ASSUME TypeOK, NEW kind \in {"arr", "buf"}, NEW size \in Nat \ {0}, NEW align \in 1 .. MaxAlign,
         NEW count \in Int, NEW zero \in BOOLEAN, NEW soft \in BOOLEAN,
         Take(kind, size, align, count, zero, soft)
  PROVE  trapped' \in BOOLEAN /\ heap' = heap /\ (Kept \/ \E b : Granted(b))
  <1> DEFINE r == Alloc(buf, size, align, count, soft)
             end == r.beg + count * size
             b == Block(kind, size, align, r.beg, end, zero)
  <1>0. buf \in ArenaType /\ align \in Nat \ {0} /\ MaxAlign \in Nat
    BY TypesAssumption DEF TypeOK, ArenaType
  <1>1. \/ r.out = "trap"
        \/ r.out # "trap" /\ r.buf = buf /\ ~(r.out = "ok" /\ count > 0)
        \/ r.out = "ok" /\ Granting(buf, r, size, align, count)
    BY <1>0, AllocKinds
  <1>2. \/ r.out = "trap" /\ Trap
        \/ /\ r.out # "trap"
           /\ buf' = r.buf
           /\ IF r.out = "ok" /\ count > 0
              THEN /\ blocks' = Append(blocks, b)
                   /\ dirty' = IF zero THEN dirty \ (r.beg .. end - 1) ELSE dirty
              ELSE UNCHANGED <<blocks, dirty>>
           /\ UNCHANGED <<heap, trapped>>
    BY DEF Take
  <1> HIDE DEF r
  <1>3. CASE r.out = "trap"
    BY <1>2, <1>3 DEF Trap, Kept
  <1>4. CASE r.out # "trap" /\ r.buf = buf /\ ~(r.out = "ok" /\ count > 0)
    BY <1>2, <1>4 DEF Kept, TypeOK
  <1>5. CASE r.out = "ok" /\ Granting(buf, r, size, align, count)
    <2>1. /\ buf' = r.buf /\ blocks' = Append(blocks, b)
          /\ dirty' = IF zero THEN dirty \ (r.beg .. end - 1) ELSE dirty
          /\ heap' = heap /\ trapped' \in BOOLEAN
      BY <1>2, <1>5 DEF Granting, TypeOK
    <2>2. /\ b.beg = r.beg /\ b.end = end /\ b.align = align /\ b.used = 0 /\ b.zero = zero
      BY DEF Block
    <2>3. end \in Nat /\ end > r.beg /\ r.beg \in Nat
      BY <1>5 DEF Granting
    <2>4. b \in BlockType
      BY <1>0, <2>3 DEF Block, BlockType
    <2>5. buf.len <= buf.cap /\ end <= buf.cap + MaxAlign - 1
      BY <1>0, <1>5 DEF Granting, ArenaType
    <2>6. r.beg >= buf.len /\ (buf.base + r.beg) % align = 0 /\ buf' = [buf EXCEPT !.len = end]
      BY <1>5, <2>1 DEF Granting
    <2> HIDE DEF b, end
    <2>7. Granted(b)
      BY <2>1, <2>2, <2>3, <2>4, <2>5, <2>6 DEF Granted
    <2> QED
      BY <2>1, <2>7
  <1> QED
    BY <1>1, <1>3, <1>4, <1>5

\* Changing a field of one block.
LEMMA SameBlock ==
  ASSUME TypeOK, NEW k \in DOMAIN blocks
  PROVE  blocks[k] \in BlockType
  BY DEF TypeOK

LEMMA LifetimeKinds ==
  ASSUME TypeOK, Lifetime
  PROVE  trapped' \in BOOLEAN /\ heap' \in BOOLEAN /\ Cleared
  <1>0. NullBuf \in ArenaType /\ NullBuf.len = 0
    BY DEF NullBuf, ArenaType
  <1>1. ASSUME NEW cap \in Caps, NEW base \in HeapBases \cup {0}, BufNew(base, cap)
        PROVE  trapped' \in BOOLEAN /\ heap' \in BOOLEAN /\ Cleared
    <2>1. base \in Nat /\ cap \in Nat
      BY BasesAssumption, SizesAssumption
    <2>2. buf' \in ArenaType /\ buf'.len = 0
      BY <1>0, <1>1, <2>1 DEF BufNew, ArenaType
    <2>3. dirty' \in SUBSET Nat
      BY <1>1, <2>1 DEF BufNew
    <2> QED
      BY <1>1, <2>2, <2>3 DEF BufNew, Cleared, TypeOK
  <1>2. ASSUME NEW cap \in Caps, NEW base \in StackBases, BufStack(base, cap)
        PROVE  trapped' \in BOOLEAN /\ heap' \in BOOLEAN /\ Cleared
    BY <1>2, BasesAssumption, SizesAssumption DEF BufStack, Cleared, TypeOK, ArenaType
  <1>3. CASE BufReset
    BY <1>3 DEF BufReset, Cleared, TypeOK, ArenaType
  <1>4. CASE BufFree
    BY <1>0, <1>4 DEF BufFree, Cleared, TypeOK
  <1> QED
    BY <1>1, <1>2, <1>3, <1>4 DEF Lifetime

LEMMA AllocationKinds ==
  ASSUME TypeOK, Allocation
  PROVE  trapped' \in BOOLEAN /\ heap' \in BOOLEAN /\ (Kept \/ \E b : Granted(b))
  <1>1. ASSUME NEW zero \in BOOLEAN, NEW soft \in BOOLEAN, NEW t \in Types, NEW count \in Counts,
               BufAlloc(t, count, zero, soft)
        PROVE  trapped' \in BOOLEAN /\ heap' = heap /\ (Kept \/ \E b : Granted(b))
    <2>1. t.size \in Nat \ {0} /\ t.align \in 1 .. MaxAlign /\ count \in Int
      BY TypesAssumption, SizesAssumption
    <2> QED
      BY <1>1, <2>1, TakeKinds DEF BufAlloc
  <1>2. ASSUME NEW zero \in BOOLEAN, NEW soft \in BOOLEAN, NEW cap \in Caps,
               BufNew2(cap, zero, soft)
        PROVE  trapped' \in BOOLEAN /\ heap' = heap /\ (Kept \/ \E b : Granted(b))
    <2>1. 1 \in Nat \ {0} /\ 1 \in 1 .. MaxAlign /\ cap \in Int
      BY TypesAssumption, SizesAssumption
    <2> QED
      BY <1>2, <2>1, TakeKinds DEF BufNew2
  <1> QED
    BY <1>1, <1>2 DEF Allocation, TypeOK

LEMMA UseKinds ==
  ASSUME TypeOK, FillOK, BlocksDisjoint, Use
  PROVE  trapped' \in BOOLEAN /\ heap' = heap /\ (Kept \/ \E k, b : Changed(k, b))
  <1>0. ASSUME NEW k \in DOMAIN blocks
        PROVE  /\ blocks[k] \in BlockType
               /\ blocks[k].beg + blocks[k].used <= blocks[k].end
               /\ blocks[k].kind = "arr" => blocks[k].used = 0
               /\ Held(k) => blocks[k].end <= buf.len
    BY SameBlock DEF FillOK, BlocksDisjoint
  <1>1. ASSUME NEW k \in DOMAIN blocks, Write(k)
        PROVE  trapped' \in BOOLEAN /\ heap' = heap /\ \E b : Changed(k, b)
    <2> DEFINE b == [blocks[k] EXCEPT !.zero = FALSE]
    <2>1. blocks' = [blocks EXCEPT ![k] = b]
      BY <1>1 DEF Write
    <2>2. b \in BlockType /\ b.zero = FALSE /\ b.kind = blocks[k].kind /\ b.align = blocks[k].align
          /\ b.beg = blocks[k].beg /\ b.end = blocks[k].end /\ b.used = blocks[k].used
      BY <1>0 DEF BlockType
    <2>3. buf' = [buf EXCEPT !.len = @ - (blocks[k].end - b.end)]
      BY <1>0, <1>1, <2>2 DEF Write, TypeOK, BlockType
    <2>4. dirty' \subseteq dirty \cup Bytes(k) /\ heap' = heap /\ trapped' \in BOOLEAN
      BY <1>1 DEF Write, TypeOK
    <2>5. b.end <= blocks[k].end
      BY <1>0, <2>2 DEF BlockType
    <2> HIDE DEF b
    <2> QED
      BY <1>0, <2>1, <2>2, <2>3, <2>4, <2>5 DEF Changed
  <1>2. ASSUME NEW k \in DOMAIN blocks, NEW n \in Nat \ {0}, AppendTo(k, n)
        PROVE  trapped' \in BOOLEAN /\ heap' = heap /\ \E b : Changed(k, b)
    <2> DEFINE b == [blocks[k] EXCEPT !.used = @ + n, !.zero = FALSE]
    <2>1. blocks' = [blocks EXCEPT ![k] = b]
      BY <1>2 DEF AppendTo
    <2>2. b \in BlockType /\ b.zero = FALSE /\ b.kind = blocks[k].kind /\ b.align = blocks[k].align
          /\ b.beg = blocks[k].beg /\ b.end = blocks[k].end /\ b.used = blocks[k].used + n
      <3> DEFINE c == [blocks[k] EXCEPT !.used = @ + n]
      <3>1. blocks[k].used + n \in Nat
        BY <1>0 DEF BlockType
      <3>2. c \in BlockType /\ c.zero = blocks[k].zero /\ c.kind = blocks[k].kind
            /\ c.align = blocks[k].align /\ c.beg = blocks[k].beg /\ c.end = blocks[k].end
            /\ c.used = blocks[k].used + n
        BY <1>0, <3>1 DEF BlockType
      <3>3. b = [c EXCEPT !.zero = FALSE]
        OBVIOUS
      <3> HIDE DEF b, c
      <3> QED
        BY <3>2, <3>3 DEF BlockType
    <2>3. buf' = [buf EXCEPT !.len = @ - (blocks[k].end - b.end)]
      BY <1>0, <1>2, <2>2 DEF AppendTo, TypeOK, BlockType
    <2>4. dirty' \subseteq dirty \cup Bytes(k) /\ heap' = heap /\ trapped' \in BOOLEAN
      <3> DEFINE beg == blocks[k].beg
                 used == blocks[k].used
      <3>1. beg \in Nat /\ used \in Nat /\ blocks[k].end \in Nat
        BY <1>0 DEF BlockType
      <3>2. dirty' = dirty \cup (beg + used .. beg + used + n - 1)
            /\ used + n <= blocks[k].end - beg
        BY <1>2 DEF AppendTo, Length
      <3>3. Bytes(k) = beg .. blocks[k].end - 1
        BY DEF Bytes
      <3>4. heap' = heap /\ trapped' \in BOOLEAN
        BY <1>2 DEF AppendTo, TypeOK
      <3> HIDE DEF beg, used
      <3> QED
        BY <3>1, <3>2, <3>3, <3>4
    <2>5. b.kind # "arr" /\ b.beg + b.used <= b.end /\ b.end <= blocks[k].end
      BY <1>0, <1>2, <2>2 DEF AppendTo, Length, BlockType
    <2> HIDE DEF b
    <2> QED
      BY <1>0, <2>1, <2>2, <2>3, <2>4, <2>5 DEF Changed
  <1>3. ASSUME NEW k \in DOMAIN blocks, NEW n \in Nat, ArrShrink(k, n)
        PROVE  trapped' \in BOOLEAN /\ heap' = heap /\ (Kept \/ \E b : Changed(k, b))
    <2> DEFINE end == blocks[k].beg + n * blocks[k].size
               b == [blocks[k] EXCEPT !.end = end]
    <2>0. CASE Trap
      BY <2>0 DEF Trap, Kept
    <2>1. CASE ~Trap
      <3>1. /\ blocks[k].kind = "arr"
            /\ n * blocks[k].size <= Length(k)
            /\ OnTop(buf, blocks[k].beg, Length(k))
            /\ buf' = [buf EXCEPT !.len = @ - (Length(k) - n * blocks[k].size)]
            /\ blocks' = [blocks EXCEPT ![k] = b]
            /\ UNCHANGED <<heap, dirty, trapped>>
        BY <1>3, <2>1 DEF ArrShrink
      <3>2. n * blocks[k].size \in Nat /\ blocks[k].beg \in Nat /\ blocks[k].end \in Nat
        BY <1>0 DEF BlockType
      <3>3. end \in Nat /\ end <= blocks[k].end /\ blocks[k].end = buf.len
        <4>1. ASSUME NEW x \in Nat, NEW y \in Nat, NEW z \in Nat, NEW l \in Int,
                     x <= z - y, l - (z - y) = y
              PROVE  y + x \in Nat /\ y + x <= z /\ z = l
          BY <4>1
        <4>2. buf.len \in Int
          BY DEF TypeOK
        <4>3. /\ n * blocks[k].size <= blocks[k].end - blocks[k].beg
              /\ buf.len - (blocks[k].end - blocks[k].beg) = blocks[k].beg
          BY <3>1 DEF Length, OnTop
        <4> QED
          BY <3>2, <4>1, <4>2, <4>3
      <3>4. b \in BlockType /\ b.zero = blocks[k].zero /\ b.kind = blocks[k].kind
            /\ b.align = blocks[k].align /\ b.beg = blocks[k].beg /\ b.end = end
            /\ b.used = blocks[k].used
        BY <1>0, <3>3 DEF BlockType
      <3>5. buf' = [buf EXCEPT !.len = @ - (blocks[k].end - b.end)]
        <4>1. Length(k) - n * blocks[k].size = blocks[k].end - b.end
          BY <3>2, <3>4 DEF Length
        <4> QED
          BY <3>1, <4>1
      <3>6. b.used = 0 /\ b.beg + b.used <= b.end
        BY <1>0, <3>1, <3>2, <3>4
      <3>7. \/ b.end = blocks[k].end
            \/ \A j \in DOMAIN blocks \ {k} : Held(j) => blocks[j].end <= blocks[k].beg
        <4> SUFFICES ASSUME b.end # blocks[k].end, NEW j \in DOMAIN blocks, j # k, Held(j)
                     PROVE  blocks[j].end <= blocks[k].beg
          OBVIOUS
        <4>1. Held(k)
          BY <3>1, <3>2, <3>3, <3>4 DEF Held
        <4>2. k \in Nat /\ j \in Nat /\ k >= 1 /\ j >= 1
          BY DEF TypeOK
        <4>3. CASE j < k
          BY <4>1, <4>2, <4>3 DEF BlocksDisjoint
        <4>4. CASE j > k
          <5>1. blocks[k].end <= blocks[j].beg /\ blocks[j].beg < blocks[j].end
                /\ blocks[j].end <= buf.len
            BY <4>1, <4>2, <4>4 DEF BlocksDisjoint
          <5>2. blocks[j].beg \in Nat /\ blocks[j].end \in Nat
            BY <1>0 DEF BlockType
          <5> QED
            BY <3>2, <3>3, <5>1, <5>2
        <4> QED
          BY <4>2, <4>3, <4>4
      <3>8. dirty' = dirty /\ heap' = heap /\ trapped' \in BOOLEAN
        BY <3>1 DEF TypeOK
      <3> HIDE DEF b
      <3>9. Changed(k, b)
        BY <3>1, <3>3, <3>4, <3>5, <3>6, <3>7, <3>8 DEF Changed
      <3> QED
        BY <3>8, <3>9
    <2> QED
      BY <2>0, <2>1
  <1>4. CASE BufShrink
    <2> DEFINE k == Len(blocks)
               end == blocks[k].beg + blocks[k].used
               b == [blocks[k] EXCEPT !.end = end]
    <2>1. /\ k > 0
          /\ buf' = [buf EXCEPT !.len = @ - (Length(k) - blocks[k].used)]
          /\ blocks' = [blocks EXCEPT ![k] = b]
          /\ UNCHANGED <<heap, dirty, trapped>>
      BY <1>4 DEF BufShrink
    <2>2. k \in DOMAIN blocks /\ k \in Nat
      BY <2>1 DEF TypeOK
    <2>3. blocks[k].beg \in Nat /\ blocks[k].end \in Nat /\ blocks[k].used \in Nat
      BY <1>0, <2>2 DEF BlockType
    <2>4. end \in Nat /\ end <= blocks[k].end
      BY <1>0, <2>2, <2>3
    <2>5. b \in BlockType /\ b.zero = blocks[k].zero /\ b.kind = blocks[k].kind
          /\ b.align = blocks[k].align /\ b.beg = blocks[k].beg /\ b.end = end
          /\ b.used = blocks[k].used
      BY <1>0, <2>2, <2>4 DEF BlockType
    <2>6. buf' = [buf EXCEPT !.len = @ - (blocks[k].end - b.end)]
      BY <2>1, <2>3, <2>5 DEF Length, TypeOK
    <2>7. b.beg + b.used <= b.end /\ (b.kind = "arr" => b.used = 0)
      BY <1>0, <2>2, <2>3, <2>5
    <2>8. \/ b.end = blocks[k].end
          \/ \A j \in DOMAIN blocks \ {k} : Held(j) => blocks[j].end <= blocks[k].beg
      <3> SUFFICES ASSUME b.end # blocks[k].end, NEW j \in DOMAIN blocks, j # k, Held(j)
                   PROVE  blocks[j].end <= blocks[k].beg
        OBVIOUS
      <3>1. Held(k)
        BY <2>3, <2>4, <2>5 DEF Held
      <3>2. j \in 1 .. k - 1
        BY <2>2 DEF TypeOK
      <3> QED
        BY <2>2, <3>1, <3>2 DEF BlocksDisjoint
    <2>9. dirty' = dirty /\ heap' = heap /\ trapped' \in BOOLEAN
      BY <2>1 DEF TypeOK
    <2> HIDE DEF b, k
    <2>10. Changed(k, b)
      BY <2>1, <2>2, <2>4, <2>5, <2>6, <2>7, <2>8, <2>9 DEF Changed
    <2> QED
      BY <2>9, <2>10
  <1> QED
    BY <1>1, <1>2, <1>3, <1>4 DEF Use

LEMMA StepKinds ==
  ASSUME IInv, [Next]_vars
  PROVE  /\ trapped' \in BOOLEAN /\ heap' \in BOOLEAN
         /\ Kept \/ Cleared \/ (\E b : Granted(b)) \/ (\E k, b : Changed(k, b))
  <1>1. CASE UNCHANGED vars
    BY <1>1 DEF vars, Kept, IInv, TypeOK
  <1>2. CASE Next
    BY <1>2, LifetimeKinds, AllocationKinds, UseKinds DEF Next, IInv, TypeOK
  <1> QED
    BY <1>1, <1>2

----------------------------------------------------------------------------
\* Each of them keeps the invariant

\* The blocks after an allocation.
LEMMA GrantedBlocks ==
  ASSUME IInv, NEW b, Granted(b)
  PROVE  /\ blocks' \in Seq(BlockType)
         /\ DOMAIN blocks' = 1 .. Len(blocks) + 1
         /\ \A j \in DOMAIN blocks : blocks'[j] = blocks[j]
         /\ blocks'[Len(blocks) + 1] = b
         /\ DOMAIN blocks = 1 .. Len(blocks) /\ Len(blocks) \in Nat
         /\ Len(blocks') = Len(blocks) + 1
  <1>1. blocks \in Seq(BlockType) /\ b \in BlockType /\ blocks' = Append(blocks, b)
    BY DEF IInv, TypeOK, Granted
  <1> QED
    BY <1>1, AppendProperties, LenProperties

\* The blocks after a write, an append or a shrink.
LEMMA ChangedBlocks ==
  ASSUME IInv, NEW k, NEW b, Changed(k, b)
  PROVE  /\ blocks' \in Seq(BlockType)
         /\ DOMAIN blocks' = DOMAIN blocks
         /\ \A j \in DOMAIN blocks : blocks'[j] = IF j = k THEN b ELSE blocks[j]
         /\ DOMAIN blocks = 1 .. Len(blocks) /\ Len(blocks) \in Nat
         /\ Len(blocks') = Len(blocks)
  <1>1. blocks \in Seq(BlockType) /\ b \in BlockType /\ blocks' = [blocks EXCEPT ![k] = b]
        /\ k \in DOMAIN blocks
    BY DEF IInv, TypeOK, Changed
  <1>2. k \in 1 .. Len(blocks) /\ DOMAIN blocks = 1 .. Len(blocks) /\ Len(blocks) \in Nat
    BY <1>1, LenProperties
  <1>3. /\ blocks' \in Seq(BlockType) /\ Len(blocks') = Len(blocks)
        /\ \A j \in 1 .. Len(blocks) : blocks'[j] = IF j = k THEN b ELSE blocks[j]
    BY <1>1, <1>2, ExceptSeq
  <1>4. DOMAIN blocks' = 1 .. Len(blocks')
    BY <1>3, LenProperties
  <1> QED
    BY <1>2, <1>3, <1>4

LEMMA KeptInv ==
  ASSUME IInv, Kept, trapped' \in BOOLEAN, heap' \in BOOLEAN
  PROVE  IInv'
  <1>1. buf' = buf /\ blocks' = blocks /\ dirty' = dirty
    BY DEF Kept
  <1> QED
    BY <1>1 DEF IInv, TypeOK, FillOK, BlocksDisjoint, BlocksAligned, OverrunBounded,
                ZeroedStaysZero, Held, Bytes

LEMMA ClearedInv ==
  ASSUME IInv, Cleared, trapped' \in BOOLEAN, heap' \in BOOLEAN
  PROVE  IInv'
  <1>1. blocks' = <<>> /\ DOMAIN blocks' = {} /\ blocks' \in Seq(BlockType)
    BY DEF Cleared
  <1>2. buf' \in ArenaType /\ buf'.len = 0 /\ buf'.cap \in Nat /\ dirty' \subseteq Nat
    BY DEF Cleared, ArenaType
  <1>3. OverrunBounded'
    BY <1>2, TypesAssumption DEF OverrunBounded
  <1> QED
    BY <1>1, <1>2, <1>3
    DEF IInv, TypeOK, ArenaType, FillOK, BlocksDisjoint, BlocksAligned, ZeroedStaysZero

LEMMA GrantedInv ==
  ASSUME IInv, NEW b, Granted(b), trapped' \in BOOLEAN, heap' \in BOOLEAN
  PROVE  IInv'
  <1> DEFINE n == Len(blocks)
  <1>1. /\ blocks' \in Seq(BlockType) /\ DOMAIN blocks' = 1 .. n + 1
        /\ \A j \in DOMAIN blocks : blocks'[j] = blocks[j]
        /\ blocks'[n + 1] = b /\ DOMAIN blocks = 1 .. n /\ n \in Nat
    BY GrantedBlocks
  <1>2. b \in BlockType /\ b.beg \in Nat /\ b.end \in Nat /\ b.used = 0
        /\ b.beg >= buf.len /\ b.end > b.beg
    BY DEF Granted, BlockType
  <1>3. buf \in ArenaType /\ buf' = [buf EXCEPT !.len = b.end]
    BY DEF Granted, IInv, TypeOK, ArenaType
  <1>4. /\ buf' \in ArenaType /\ buf'.len = b.end /\ buf'.base = buf.base /\ buf'.cap = buf.cap
        /\ buf.len \in Nat
    BY <1>2, <1>3 DEF ArenaType
  <1>5. ASSUME NEW j \in DOMAIN blocks
        PROVE  blocks[j].beg \in Nat /\ blocks[j].end \in Nat
    BY SameBlock, <1>5 DEF IInv, BlockType
  <1> HIDE DEF n
  <1>6. \A j \in DOMAIN blocks' : j = n + 1 \/ (j \in DOMAIN blocks /\ j # n + 1)
    BY <1>1
  <1>7. dirty' \subseteq dirty
    BY DEF Granted
  <1>8. TypeOK'
    BY <1>1, <1>4, <1>7 DEF IInv, TypeOK, ArenaType
  <1>9. FillOK'
    <2> SUFFICES ASSUME NEW j \in DOMAIN blocks'
                 PROVE  /\ blocks'[j].beg + blocks'[j].used <= blocks'[j].end
                        /\ blocks'[j].kind = "arr" => blocks'[j].used = 0
      BY DEF FillOK
    <2>1. CASE j = n + 1
      BY <1>1, <1>2, <2>1
    <2>2. CASE j \in DOMAIN blocks
      BY <1>1, <2>2 DEF IInv, FillOK
    <2> QED
      BY <1>6, <2>1, <2>2
  <1>10. BlocksDisjoint'
    <2> SUFFICES ASSUME NEW k \in DOMAIN blocks', blocks'[k].beg # blocks'[k].end
                 PROVE  /\ blocks'[k].beg < blocks'[k].end
                        /\ blocks'[k].end <= buf'.len
                        /\ \A j \in 1 .. k - 1 : blocks'[j].beg # blocks'[j].end =>
                             blocks'[j].end <= blocks'[k].beg
      BY DEF BlocksDisjoint, Held
    <2>1. CASE k = n + 1
      <3> SUFFICES ASSUME NEW j \in 1 .. k - 1, blocks'[j].beg # blocks'[j].end
                   PROVE  blocks'[j].end <= blocks'[k].beg
        BY <1>1, <1>2, <1>4, <2>1
      <3>1. j \in DOMAIN blocks /\ blocks'[j] = blocks[j]
        BY <1>1, <2>1
      <3>2. blocks[j].end <= buf.len
        BY <3>1 DEF IInv, BlocksDisjoint, Held
      <3> QED
        BY <1>1, <1>2, <1>4, <1>5, <2>1, <3>1, <3>2
    <2>2. CASE k \in DOMAIN blocks
      <3>1. blocks'[k] = blocks[k] /\ \A j \in 1 .. k - 1 : j \in DOMAIN blocks /\ blocks'[j] = blocks[j]
        BY <1>1, <2>2
      <3>2. blocks[k].end <= buf.len
        BY <2>2, <3>1 DEF IInv, BlocksDisjoint, Held
      <3>3. blocks[k].end <= buf'.len
        BY <1>2, <1>4, <1>5, <2>2, <3>2
      <3> QED
        BY <2>2, <3>1, <3>3 DEF IInv, BlocksDisjoint, Held
    <2> QED
      BY <1>6, <2>1, <2>2
  <1>11. BlocksAligned'
    <2> SUFFICES ASSUME NEW k \in DOMAIN blocks'
                 PROVE  (buf.base + blocks'[k].beg) % blocks'[k].align = 0
      BY <1>4 DEF BlocksAligned
    <2>1. CASE k = n + 1
      BY <1>1, <2>1 DEF Granted
    <2>2. CASE k \in DOMAIN blocks
      BY <1>1, <2>2 DEF IInv, BlocksAligned
    <2> QED
      BY <1>6, <2>1, <2>2
  <1>12. OverrunBounded'
    BY <1>4 DEF Granted, OverrunBounded
  <1>13. ZeroedStaysZero'
    <2> SUFFICES ASSUME NEW k \in DOMAIN blocks', blocks'[k].zero
                 PROVE  (blocks'[k].beg .. blocks'[k].end - 1) \cap dirty' = {}
      BY DEF ZeroedStaysZero, Bytes
    <2>1. CASE k = n + 1
      BY <1>1, <2>1 DEF Granted
    <2>2. CASE k \in DOMAIN blocks
      BY <1>1, <1>7, <2>2 DEF IInv, ZeroedStaysZero, Bytes
    <2> QED
      BY <1>6, <2>1, <2>2
  <1> QED
    BY <1>8, <1>9, <1>10, <1>11, <1>12, <1>13 DEF IInv

LEMMA ChangedInv ==
  ASSUME IInv, NEW k, NEW b, Changed(k, b), trapped' \in BOOLEAN, heap' \in BOOLEAN
  PROVE  IInv'
  <1>1. /\ blocks' \in Seq(BlockType) /\ DOMAIN blocks' = DOMAIN blocks
        /\ \A j \in DOMAIN blocks : blocks'[j] = IF j = k THEN b ELSE blocks[j]
        /\ DOMAIN blocks = 1 .. Len(blocks) /\ Len(blocks) \in Nat
    BY ChangedBlocks
  <1>2. ASSUME NEW j \in DOMAIN blocks
        PROVE  blocks[j].beg \in Nat /\ blocks[j].end \in Nat /\ blocks[j].used \in Nat
    BY SameBlock, <1>2 DEF IInv, BlockType
  <1>3. /\ k \in DOMAIN blocks /\ blocks'[k] = b
        /\ b.beg \in Nat /\ b.end \in Nat /\ b.used \in Nat
        /\ b.beg = blocks[k].beg /\ b.align = blocks[k].align /\ b.kind = blocks[k].kind
        /\ b.beg + b.used <= b.end /\ b.end <= blocks[k].end
        /\ b.kind = "arr" => b.used = 0
    BY <1>1 DEF Changed, BlockType
  <1>4. buf.len \in Nat /\ buf.cap \in Nat /\ buf \in ArenaType
    BY DEF IInv, TypeOK, ArenaType
  <1>5. buf' = [buf EXCEPT !.len = @ - (blocks[k].end - b.end)]
    BY DEF Changed
  <1>6. b.end = blocks[k].end \/ (Held(k) /\ blocks[k].end <= buf.len)
    BY <1>2, <1>3 DEF IInv, BlocksDisjoint, Held
  <1>7. /\ buf'.len \in Nat /\ buf'.len <= buf.len /\ buf' \in ArenaType
        /\ buf'.base = buf.base /\ buf'.cap = buf.cap
        /\ buf'.len = buf.len - (blocks[k].end - b.end)
    <2>1. buf.len - (blocks[k].end - b.end) \in Nat
          /\ buf.len - (blocks[k].end - b.end) <= buf.len
      BY <1>2, <1>3, <1>4, <1>6
    <2> QED
      BY <1>4, <1>5, <2>1 DEF ArenaType
  <1>8. dirty' \subseteq Nat
    <2>1. Bytes(k) \subseteq Nat
      BY <1>2, <1>3 DEF Bytes
    <2> QED
      BY <2>1 DEF Changed, IInv, TypeOK
  <1>9. TypeOK'
    BY <1>1, <1>7, <1>8 DEF TypeOK, ArenaType
  <1>10. FillOK'
    BY <1>1, <1>3 DEF IInv, FillOK
  <1>11. BlocksDisjoint'
    <2> SUFFICES ASSUME NEW i \in DOMAIN blocks, blocks'[i].beg # blocks'[i].end
                 PROVE  /\ blocks'[i].beg < blocks'[i].end
                        /\ blocks'[i].end <= buf'.len
                        /\ \A j \in 1 .. i - 1 : blocks'[j].beg # blocks'[j].end =>
                             blocks'[j].end <= blocks'[i].beg
      BY <1>1 DEF BlocksDisjoint, Held
    <2>1. Held(i)
      BY <1>1, <1>2, <1>3 DEF Held
    <2>2. /\ blocks[i].beg < blocks[i].end /\ blocks[i].end <= buf.len
          /\ \A j \in 1 .. i - 1 : Held(j) => blocks[j].end <= blocks[i].beg
      BY <2>1 DEF IInv, BlocksDisjoint
    <2>3. blocks'[i].beg < blocks'[i].end
      BY <1>1, <1>2, <1>3, <2>2
    <2>4. blocks'[i].end <= buf'.len
      <3>1. CASE i = k
        BY <1>1, <1>2, <1>3, <1>4, <1>7, <2>2, <3>1
      <3>2. CASE i # k /\ b.end = blocks[k].end
        BY <1>1, <1>2, <1>3, <1>4, <1>7, <2>2, <3>2
      <3>3. CASE i # k /\ b.end # blocks[k].end
        <4>1. blocks[i].end <= blocks[k].beg
          BY <2>1, <3>3 DEF Changed
        <4>2. blocks[k].end <= buf.len
          BY <1>6, <3>3
        <4>3. blocks'[i].end = blocks[i].end
          BY <1>1, <3>3
        <4>4. ASSUME NEW e \in Nat, NEW x \in Nat, NEW y \in Nat, NEW z \in Nat, NEW l \in Nat,
                     e <= x, x <= y, z <= l
              PROVE  e <= l - (z - y)
          BY <4>4
        <4>5. blocks[k].beg <= b.end
          BY <1>1, <1>2, <1>3
        <4>6. buf'.len = buf.len - (blocks[k].end - b.end)
          BY <1>7
        <4> QED
          BY <1>1, <1>2, <1>3, <1>4, <4>1, <4>2, <4>3, <4>4, <4>5, <4>6
      <3> QED
        BY <3>1, <3>2, <3>3
    <2>5. ASSUME NEW j \in 1 .. i - 1, blocks'[j].beg # blocks'[j].end
          PROVE  blocks'[j].end <= blocks'[i].beg
      <3>1. j \in DOMAIN blocks
        BY <1>1
      <3>2. /\ blocks'[j].beg = blocks[j].beg /\ blocks'[i].beg = blocks[i].beg
            /\ blocks'[j].end \in Nat /\ blocks'[j].end <= blocks[j].end
            /\ blocks'[j].beg <= blocks'[j].end
        <4>1. CASE j = k
          BY <1>1, <1>2, <1>3, <3>1, <4>1
        <4>2. CASE j # k
          <5>1. blocks'[j] = blocks[j]
            BY <1>1, <3>1, <4>2
          <5>2. blocks[j].beg <= blocks[j].end
            BY <1>2, <3>1 DEF IInv, FillOK
          <5>3. blocks'[i].beg = blocks[i].beg
            BY <1>1, <1>3
          <5> QED
            BY <1>2, <3>1, <5>1, <5>2, <5>3
        <4> QED
          BY <4>1, <4>2
      <3>3. Held(j)
        BY <1>2, <2>5, <3>1, <3>2 DEF Held
      <3> QED
        BY <1>2, <2>2, <3>1, <3>2, <3>3
    <2> QED
      BY <2>3, <2>4, <2>5
  <1>12. BlocksAligned'
    BY <1>1, <1>3, <1>7 DEF IInv, BlocksAligned
  <1>13. OverrunBounded'
    BY <1>4, <1>7, TypesAssumption DEF IInv, OverrunBounded
  <1>14. ZeroedStaysZero'
    <2> SUFFICES ASSUME NEW i \in DOMAIN blocks, blocks'[i].zero,
                        NEW x \in blocks'[i].beg .. blocks'[i].end - 1, x \in dirty'
                 PROVE  FALSE
      BY <1>1 DEF ZeroedStaysZero, Bytes
    <2>1. x \in Bytes(i)
      BY <1>1, <1>2, <1>3 DEF Bytes
    <2>2. blocks[i].zero
      BY <1>1 DEF Changed
    <2>3. x \notin dirty
      BY <2>1, <2>2 DEF IInv, ZeroedStaysZero
    <2>4. ~b.zero /\ x \in Bytes(k)
      BY <2>3 DEF Changed
    <2>5. i # k
      BY <1>1, <2>4
    <2>6. Held(i) /\ Held(k)
      BY <1>2, <1>3, <2>1, <2>4 DEF Held, Bytes
    <2>7. i \in Nat /\ k \in Nat /\ i >= 1 /\ k >= 1
      BY <1>1, <1>3
    <2>8. /\ x \in Int
          /\ blocks[i].beg <= x /\ x < blocks[i].end
          /\ blocks[k].beg <= x /\ x < blocks[k].end
      BY <1>2, <1>3, <2>1, <2>4 DEF Bytes
    <2>9. CASE i < k
      <3>1. blocks[i].end <= blocks[k].beg
        BY <1>3, <2>6, <2>7, <2>9 DEF IInv, BlocksDisjoint
      <3> QED
        BY <1>2, <1>3, <2>8, <3>1
    <2>10. CASE i > k
      <3>1. blocks[k].end <= blocks[i].beg
        BY <2>6, <2>7, <2>10 DEF IInv, BlocksDisjoint
      <3> QED
        BY <1>2, <1>3, <2>8, <3>1
    <2> QED
      BY <2>5, <2>7, <2>9, <2>10
  <1> QED
    BY <1>9, <1>10, <1>11, <1>12, <1>13, <1>14 DEF IInv

----------------------------------------------------------------------------
\* Theorems

LEMMA Start == Init => IInv
  <1> SUFFICES ASSUME Init PROVE IInv
    OBVIOUS
  <1>1. blocks = <<>> /\ DOMAIN blocks = {} /\ blocks \in Seq(BlockType)
    BY DEF Init
  <1>2. buf.len = 0 /\ buf.cap = 0 /\ buf \in ArenaType
    BY DEF Init, NullBuf, ArenaType
  <1>3. OverrunBounded
    BY <1>2, TypesAssumption DEF OverrunBounded
  <1> QED
    BY <1>1, <1>2, <1>3
    DEF Init, IInv, TypeOK, ArenaType, FillOK, BlocksDisjoint, BlocksAligned, ZeroedStaysZero

LEMMA Step == IInv /\ [Next]_vars => IInv'
  BY StepKinds, KeptInv, ClearedInv, GrantedInv, ChangedInv

\* The inductive invariant holds throughout.
THEOREM Invariance == Spec => []IInv
  BY Start, Step, PTL DEF Spec

\* The arena and its blocks keep their types; len never becomes negative,
\* whatever is shrunk in whatever order (buf.h:94-98, arr.h:24-27).
THEOREM TypeCorrect == Spec => []TypeOK
  BY Invariance, PTL DEF IInv

\* No byte is handed out twice.
THEOREM BlocksStayDisjoint == Spec => []BlocksDisjoint
  BY Invariance, PTL DEF IInv

\* Every block is aligned, wherever malloc or the stack put the arena.
THEOREM BlocksStayAligned == Spec => []BlocksAligned
  BY Invariance, PTL DEF IInv

\* len passes cap by less than one alignment.
THEOREM OverrunStaysBounded == Spec => []OverrunBounded
  BY Invariance, PTL DEF IInv

\* A zeroed block reads as zeros until its own holder writes to it.
THEOREM ZeroedCorrect == Spec => []ZeroedStaysZero
  BY Invariance, PTL DEF IInv

\* An arena that has passed its capacity hands out nothing more.
THEOREM OverrunBlocks == Spec => OverrunBlocksAllocation
  <1>1. IInv /\ [Next]_vars => [buf.len > buf.cap => Len(blocks') <= Len(blocks)]_vars
    <2> SUFFICES ASSUME IInv, [Next]_vars, buf.len > buf.cap
                 PROVE  Len(blocks') <= Len(blocks)
      OBVIOUS
    <2>0. buf.len \in Nat /\ buf.cap \in Nat /\ Len(blocks) \in Nat
      BY LenProperties DEF IInv, TypeOK
    <2>1. CASE Kept
      BY <2>0, <2>1 DEF Kept
    <2>2. CASE Cleared
      BY <2>0, <2>2 DEF Cleared
    <2>3. ASSUME NEW b, Granted(b) PROVE FALSE
      BY <2>0, <2>3 DEF Granted
    <2>4. ASSUME NEW k, NEW b, Changed(k, b) PROVE Len(blocks') <= Len(blocks)
      BY <2>0, <2>4, ChangedBlocks
    <2> QED
      BY StepKinds, <2>1, <2>2, <2>3, <2>4
  <1> QED
    BY <1>1, Invariance, PTL DEF Spec, OverrunBlocksAllocation

----------------------------------------------------------------------------
\* Refinement of Region

Owned == {Bytes(k) : k \in DOMAIN blocks} \ {{}}

\* The blocks that hold bytes are pairwise disjoint.
LEMMA HeldApart ==
  ASSUME IInv, NEW j \in DOMAIN blocks, NEW k \in DOMAIN blocks, j # k
  PROVE  Bytes(j) \cap Bytes(k) = {}
  <1>1. blocks[j] \in BlockType /\ blocks[k] \in BlockType /\ j \in Nat /\ k \in Nat
    BY SameBlock, LenProperties DEF IInv, TypeOK
  <1>2. j \in 1 .. k - 1 \/ k \in 1 .. j - 1
    BY <1>1, LenProperties DEF IInv, TypeOK
  <1>3. CASE Held(j) /\ Held(k)
    <2>1. blocks[j].end <= blocks[k].beg \/ blocks[k].end <= blocks[j].beg
      BY <1>2, <1>3 DEF IInv, BlocksDisjoint
    <2> QED
      BY <1>1, <2>1 DEF Bytes, BlockType
  <1>4. CASE ~(Held(j) /\ Held(k))
    BY <1>1, <1>4 DEF Bytes, Held, BlockType
  <1> QED
    BY <1>3, <1>4

\* An allocation grants bytes that nobody owns.
LEMMA GrantedOwned ==
  ASSUME IInv, NEW b, Granted(b)
  PROVE  LET B == b.beg .. b.end - 1 IN
         B # {} /\ B \cap UNION Owned = {} /\ Owned' = Owned \cup {B}
  <1> DEFINE B == b.beg .. b.end - 1
  <1>0. PICK n : n = Len(blocks)
    OBVIOUS
  <1>1. /\ DOMAIN blocks' = 1 .. n + 1 /\ DOMAIN blocks = 1 .. n /\ n \in Nat
        /\ \A j \in DOMAIN blocks : blocks'[j] = blocks[j]
        /\ blocks'[n + 1] = b
    BY <1>0, GrantedBlocks
  <1>2. b.beg \in Nat /\ b.end \in Nat /\ b.beg >= buf.len /\ b.end > b.beg /\ buf.len \in Nat
    BY DEF Granted, BlockType, IInv, TypeOK
  <1>3. B # {}
    BY <1>2
  <1>4. ASSUME NEW j \in DOMAIN blocks PROVE B \cap Bytes(j) = {}
    <2>1. blocks[j] \in BlockType
      BY SameBlock DEF IInv
    <2>2. CASE Held(j)
      <3>1. blocks[j].end <= buf.len
        BY <2>2 DEF IInv, BlocksDisjoint
      <3> QED
        BY <1>2, <2>1, <3>1 DEF Bytes, BlockType
    <2>3. CASE ~Held(j)
      BY <2>1, <2>3 DEF Bytes, Held, BlockType
    <2> QED
      BY <2>2, <2>3
  <1>5. B \cap UNION Owned = {}
    BY <1>4 DEF Owned
  <1>6. Bytes(n + 1)' = B /\ \A j \in DOMAIN blocks : Bytes(j)' = Bytes(j)
    BY <1>1 DEF Bytes
  <1>7. DOMAIN blocks' = DOMAIN blocks \cup {n + 1}
    BY <1>1
  <1>8. Owned' = Owned \cup {B}
    <2>1. Owned' = {Bytes(k)' : k \in DOMAIN blocks'} \ {{}}
      BY DEF Owned
    <2> HIDE DEF B
    <2> QED
      BY <1>3, <1>6, <1>7, <2>1 DEF Owned
  <1> QED
    BY <1>3, <1>5, <1>8

\* Whatever a holder does leaves the others' bytes alone, and trims its own.
LEMMA ChangedOwned ==
  ASSUME IInv, NEW k, NEW b, Changed(k, b)
  PROVE  LET C == b.beg .. b.end - 1 IN
         /\ C \subseteq Bytes(k)
         /\ Bytes(k) = {} => Owned' = Owned
         /\ Bytes(k) # {} => Owned' = (Owned \ {Bytes(k)}) \cup ({C} \ {{}})
  <1> DEFINE C == b.beg .. b.end - 1
  <1>1. /\ DOMAIN blocks' = DOMAIN blocks /\ k \in DOMAIN blocks
        /\ \A j \in DOMAIN blocks : blocks'[j] = IF j = k THEN b ELSE blocks[j]
    BY ChangedBlocks DEF Changed
  <1>2. Bytes(k)' = C /\ \A j \in DOMAIN blocks \ {k} : Bytes(j)' = Bytes(j)
    BY <1>1 DEF Bytes
  <1>3. C \subseteq Bytes(k)
    <2>1. blocks[k] \in BlockType /\ b \in BlockType
      BY <1>1, SameBlock DEF IInv, Changed
    <2> QED
      BY <2>1 DEF Changed, Bytes, BlockType
  <1>4. \A j \in DOMAIN blocks \ {k} : Bytes(j) = Bytes(k) => Bytes(j) = {}
    BY <1>1, HeldApart
  <1>5. Owned' = {Bytes(j)' : j \in DOMAIN blocks} \ {{}}
    BY <1>1 DEF Owned
  <1>6. DOMAIN blocks = (DOMAIN blocks \ {k}) \cup {k}
    BY <1>1
  <1> DEFINE Rest == {Bytes(j) : j \in DOMAIN blocks \ {k}} \ {{}}
  <1>7. Owned' = Rest \cup ({C} \ {{}})
    <2> HIDE DEF C
    <2> QED BY <1>2, <1>5, <1>6
  <1>8. Owned = Rest \cup ({Bytes(k)} \ {{}})
    BY <1>6 DEF Owned
  <1>9. Bytes(k) \notin Rest
    BY <1>4
  <1> HIDE DEF C, Rest
  <1>10. Bytes(k) = {} => C = {}
    BY <1>3
  <1>11. Bytes(k) = {} => Owned' = Owned
    BY <1>7, <1>8, <1>10
  <1>12. Bytes(k) # {} => Owned' = (Owned \ {Bytes(k)}) \cup ({C} \ {{}})
    BY <1>7, <1>8, <1>9
  <1> QED
    BY <1>3, <1>11, <1>12 DEF C

LEMMA RegionStep == IInv /\ [Next]_vars => [R!Next]_Owned
  <1> SUFFICES ASSUME IInv, [Next]_vars PROVE R!Next \/ Owned' = Owned
    OBVIOUS
  <1>1. CASE Kept
    <2>1. Owned' = Owned
      BY <1>1 DEF Kept, Owned, Bytes
    <2> QED BY <2>1
  <1>2. CASE Cleared
    <2>1. Owned' = {}
      BY <1>2 DEF Cleared, Owned
    <2> QED
      BY <2>1 DEF R!Next, R!Release, Owned
  <1>3. ASSUME NEW b, Granted(b) PROVE R!Next
    <2> DEFINE B == b.beg .. b.end - 1
    <2>1. B # {} /\ B \cap UNION Owned = {} /\ Owned' = Owned \cup {B}
      BY <1>3, GrantedOwned
    <2>2. B \in Owned' \ Owned
      BY <2>1
    <2> HIDE DEF B
    <2>3. R!Grant
      BY <2>1, <2>2 DEF R!Grant, Owned
    <2> QED
      BY <2>3 DEF R!Next
  <1>4. ASSUME NEW k, NEW b, Changed(k, b) PROVE R!Next \/ Owned' = Owned
    <2> DEFINE C == b.beg .. b.end - 1
    <2>1. /\ C \subseteq Bytes(k)
          /\ Bytes(k) = {} => Owned' = Owned
          /\ Bytes(k) # {} => Owned' = (Owned \ {Bytes(k)}) \cup ({C} \ {{}})
      BY <1>4, ChangedOwned
    <2>2. Bytes(k) # {} => Bytes(k) \in Owned
      BY <1>4 DEF Changed, Owned
    <2> HIDE DEF C
    <2>3. Bytes(k) # {} => R!Trim
      BY <2>1, <2>2 DEF R!Trim, Owned
    <2> QED
      BY <2>1, <2>3 DEF R!Next
  <1> QED
    BY StepKinds, <1>1, <1>2, <1>3, <1>4

\* The arena implements the promise of Region: bytes have one owner, only their
\* owner gives them back, and everything else goes at once (buf.h:52-100,
\* arr.h:24-27).
THEOREM RegionImplemented == Spec => ImplementsRegion
  <1>1. Init => R!Init
    BY DEF Init, R!Init
  <1>2. IInv /\ [Next]_vars => [R!Next]_Owned
    BY RegionStep
  <1> QED
    BY <1>1, <1>2, Invariance, PTL DEF Spec, ImplementsRegion, R!Spec, Owned
============================================================================
