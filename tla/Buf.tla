------------------------------- MODULE Buf --------------------------------
(***************************************************************************)
(* The arena of builtin/buf.h with the blocks its callers hold: objects    *)
(* and arrays from Make / arr_new, and sub-buffers from buf_new2, which    *)
(* fill up one append at a time and may be shrunk to what they hold.  The  *)
(* program is sequential: one action is one call.                          *)
(*                                                                         *)
(* The content of the memory is abstracted to the set of bytes that are    *)
(* not zero, which is all ALLOC_ZERO is about.                             *)
(***************************************************************************)
EXTENDS BufOps, Sequences

CONSTANTS
  Types,      \* [size, align] of the objects allocated
  Counts,     \* counts asked for; a negative one is a caller's mistake
  Caps,       \* capacities of arenas and sub-buffers
  HeapBases,  \* addresses malloc may return
  StackBases, \* addresses of the arrays of buf_stack
  MaxAlign,   \* the largest alignment in Types
  MaxBlocks   \* bound: blocks held at a time

ASSUME TypesAssumption ==
  /\ MaxAlign \in Nat \ {0}
  /\ \A t \in Types : t.size \in Nat \ {0} /\ t.align \in 1..MaxAlign
ASSUME SizesAssumption ==
  /\ Counts \subseteq Int
  /\ Caps \subseteq Nat
  /\ MaxBlocks \in Nat
ASSUME BasesAssumption ==
  /\ HeapBases \subseteq Nat \ {0}
  /\ StackBases \subseteq Nat \ {0}

VARIABLES
  buf,     \* the arena
  heap,    \* did malloc provide it? (buf_free frees only such an arena)
  blocks,  \* the blocks in use, oldest first
  dirty,   \* offsets of the bytes that are not zero
  trapped  \* has the program stopped in __builtin_trap or assert?

vars == <<buf, heap, blocks, dirty, trapped>>

\* A sub-buffer is a block of chars with a fill level; an array has none.
Block(kind, size, align, beg, end, zero) ==
  [kind |-> kind, size |-> size, align |-> align, beg |-> beg, end |-> end,
   used |-> 0, zero |-> zero]

Bytes(k) == blocks[k].beg .. blocks[k].end - 1
Length(k) == blocks[k].end - blocks[k].beg

Init ==
  /\ buf = NullBuf
  /\ heap = FALSE
  /\ blocks = <<>>
  /\ dirty = {}
  /\ trapped = FALSE

Trap == /\ trapped' = TRUE
        /\ UNCHANGED <<buf, heap, blocks, dirty>>

----------------------------------------------------------------------------
\* Lifetime

\* malloc(cap) hands out bytes with any content, or fails and leaves cap = 0.
BufNew(base, cap) ==
  /\ buf = NullBuf
  /\ buf' = IF base = 0 THEN NullBuf ELSE [base |-> base, len |-> 0, cap |-> cap]
  /\ heap' = (base # 0)
  /\ blocks' = <<>>
  /\ dirty' = IF base = 0 THEN {} ELSE 0 .. cap - 1
  /\ UNCHANGED trapped

\* buf_stack(name, capacity): an array initialised with = {}.
BufStack(base, cap) ==
  /\ buf = NullBuf
  /\ buf' = [base |-> base, len |-> 0, cap |-> cap]
  /\ heap' = FALSE
  /\ blocks' = <<>>
  /\ dirty' = {}
  /\ UNCHANGED trapped

\* Every block handed out since the arena was made is given back at once.
BufReset ==
  /\ buf' = [buf EXCEPT !.len = 0]
  /\ blocks' = <<>>
  /\ UNCHANGED <<heap, dirty, trapped>>

BufFree ==
  /\ heap \/ buf = NullBuf
  /\ buf' = NullBuf
  /\ heap' = FALSE
  /\ blocks' = <<>>
  /\ dirty' = {}
  /\ UNCHANGED trapped

----------------------------------------------------------------------------
\* Allocation

\* buf_alloc for a block of the given kind.  A count of zero yields a pointer
\* and no bytes; a soft failure yields NULL: neither adds a block.
Take(kind, size, align, count, zero, soft) ==
  LET r   == Alloc(buf, size, align, count, soft)
      end == r.beg + count * size
  IN
  \/ r.out = "trap" /\ Trap
  \/ /\ r.out # "trap"
     /\ buf' = r.buf
     /\ IF r.out = "ok" /\ count > 0
        THEN /\ Len(blocks) < MaxBlocks
             /\ blocks' = Append(blocks, Block(kind, size, align, r.beg, end, zero))
             /\ dirty' = IF zero THEN dirty \ (r.beg .. end - 1) ELSE dirty
        ELSE UNCHANGED <<blocks, dirty>>
     /\ UNCHANGED <<heap, trapped>>

BufAlloc(t, count, zero, soft) == Take("arr", t.size, t.align, count, zero, soft)

\* buf_new2: chars, so no padding and no alignment.
BufNew2(cap, zero, soft) == Take("buf", 1, 1, cap, zero, soft)

----------------------------------------------------------------------------
\* What the holder of a block does with it

Write(k) ==
  /\ blocks[k].kind = "arr"
  /\ dirty' = dirty \cup Bytes(k)
  /\ blocks' = [blocks EXCEPT ![k].zero = FALSE]
  /\ UNCHANGED <<buf, heap, trapped>>

\* Mutant: the bytes land one place further.
AppendPast(k, n) ==
  /\ blocks[k].kind = "buf"
  /\ blocks[k].used + n <= Length(k)
  /\ dirty' = dirty \cup {blocks[k].beg + blocks[k].used + n}
  /\ blocks' = [blocks EXCEPT ![k].used = @ + n, ![k].zero = FALSE]
  /\ UNCHANGED <<buf, heap, trapped>>

\* sub.len += n, as after read() in cmd_exec: the bytes land behind the fill
\* level.
AppendTo(k, n) ==
  /\ blocks[k].kind = "buf"
  /\ blocks[k].used + n <= Length(k)
  /\ dirty' = dirty \cup (blocks[k].beg + blocks[k].used ..
                            blocks[k].beg + blocks[k].used + n - 1)
  /\ blocks' = [blocks EXCEPT ![k].used = @ + n, ![k].zero = FALSE]
  /\ UNCHANGED <<buf, heap, trapped>>

\* buf_shrink(src, sub) has no check of its own; its callers (cmd_exec) shrink
\* the sub-buffer they took last, before any other allocation.
BufShrink ==
  LET k == Len(blocks) IN
  /\ k > 0
  /\ blocks[k].kind = "buf"
  /\ buf' = [buf EXCEPT !.len = @ - (Length(k) - blocks[k].used)]
  /\ blocks' = [blocks EXCEPT ![k].end = blocks[k].beg + blocks[k].used]
  /\ UNCHANGED <<heap, dirty, trapped>>

\* arr_shrink(arr, buffer, newlen): assert((newlen <= len) && buf_ontop(..)).
ArrShrink(k, newlen) ==
  LET size == blocks[k].size
      ok   == /\ newlen * size <= Length(k)
              /\ OnTop(buf, blocks[k].beg, Length(k))
  IN
  /\ blocks[k].kind = "arr"
  /\ \/ /\ ok
        /\ buf' = [buf EXCEPT !.len = @ - (Length(k) - newlen * size)]
        /\ blocks' = [blocks EXCEPT ![k].end = blocks[k].beg + newlen * size]
        /\ UNCHANGED <<heap, dirty, trapped>>
     \/ ~ok /\ Trap

----------------------------------------------------------------------------
Lifetime ==
  \/ \E cap \in Caps : \/ \E base \in HeapBases \cup {0} : BufNew(base, cap)
                       \/ \E base \in StackBases : BufStack(base, cap)
  \/ BufReset
  \/ BufFree

Allocation ==
  \E zero, soft \in BOOLEAN :
    \/ \E t \in Types, count \in Counts : BufAlloc(t, count, zero, soft)
    \/ \E cap \in Caps : BufNew2(cap, zero, soft)

Use ==
  \/ \E k \in DOMAIN blocks : \/ Write(k)
                              \/ \E n \in Counts \cap (Nat \ {0}) : AppendTo(k, n)
                              \/ \E n \in Counts \cap Nat : ArrShrink(k, n)
  \/ BufShrink

Next == ~trapped /\ (Lifetime \/ Allocation \/ Use)

Spec == Init /\ [][Next]_vars

----------------------------------------------------------------------------
\* Properties

BlockType == [kind : {"arr", "buf"}, size : Nat \ {0}, align : Nat \ {0},
              beg : Nat, end : Nat, used : Nat, zero : BOOLEAN]

\* The arena, its blocks and its memory keep their types (buf.h:19-25): in
\* particular len never becomes negative, whatever is shrunk.
TypeOK ==
  /\ buf \in [base : Nat, len : Nat, cap : Nat]
  /\ heap \in BOOLEAN
  /\ blocks \in Seq(BlockType)
  /\ dirty \subseteq Nat
  /\ trapped \in BOOLEAN

\* No byte belongs to two callers: the blocks that hold bytes lie one behind
\* the other, and the next allocation starts behind them all (buf_alloc,
\* buf_shrink, arr_shrink, buf_reset: buf.h:52-100, arr.h:24-27).  A block
\* shrunk to nothing may be left behind len when the one below it shrinks too.
Held(k) == blocks[k].beg # blocks[k].end

BlocksDisjoint ==
  \A k \in DOMAIN blocks : Held(k) =>
    /\ blocks[k].beg < blocks[k].end
    /\ blocks[k].end <= buf.len
    /\ \A j \in 1 .. k - 1 : Held(j) => blocks[j].end <= blocks[k].beg

\* Every block starts at an address its type may live at, wherever the arena
\* itself starts (the pad of buf.h:60 is computed from the address).
BlocksAligned ==
  \A k \in DOMAIN blocks : (buf.base + blocks[k].beg) % blocks[k].align = 0

\* The check of buf.h:61 leaves the padding out, so len can pass cap, but by
\* less than one alignment.
OverrunBounded == buf.len <= buf.cap + MaxAlign - 1

\* Once len has passed cap, no call hands out bytes until blocks are given back:
\* a later buf_alloc traps or returns NULL (buf.h:61-65, where the free space
\* has become negative).
OverrunBlocksAllocation ==
  [][buf.len > buf.cap => Len(blocks') <= Len(blocks)]_vars

\* A block asked for with ALLOC_ZERO reads as zeros until its own holder writes
\* to it: not for the bytes it inherits from blocks given back by a reset or a
\* shrink, nor for what the holders of other blocks write (buf.h:70).
ZeroedStaysZero ==
  \A k \in DOMAIN blocks : blocks[k].zero => Bytes(k) \cap dirty = {}

\* The arena hands out, trims and takes back bytes as the Region specification
\* promises: a step disturbs no block but the one it is about.
R == INSTANCE Region WITH owned <- {Bytes(k) : k \in DOMAIN blocks} \ {{}}
ImplementsRegion == R!Spec
============================================================================
