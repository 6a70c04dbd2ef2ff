------------------------------ MODULE BufOps ------------------------------
(***************************************************************************)
(* The arithmetic of the arena allocator (builtin/buf.h, and buf.hpp line  *)
(* for line) as operators on one Buf: its address, its fill level and its  *)
(* capacity.  An offset is a distance from the first byte of the arena, an *)
(* address is base + offset; base = 0 is the NULL pointer.                 *)
(***************************************************************************)
EXTENDS Integers

NullBuf == [base |-> 0, len |-> 0, cap |-> 0]

\* Mutant: the padding is computed from the offset, as if arenas were aligned.
PadFromOffset(b, align) == (-b.len) % align

\* isize pad = -(uptr)beg & (align - 1), align being a power of two.
Pad(b, align) == (-(b.base + b.len)) % align

\* Mutants: what is left is ignored; it is divided as an unsigned word (no cast
\* of objsize to isize), so that a negative rest becomes a huge one.
FitsCapacity(b, size, count) == count <= b.cap \div size
FitsUnsigned(b, size, count) == count <= ((b.cap - b.len) % 2 ^ 16) \div size

\* The capacity check.  It weighs the objects alone, not the padding before
\* them.  (C truncates and \div rounds down: for count >= 1 both comparisons
\* agree, also when len has passed cap.)
Fits(b, size, count) == count <= (b.cap - b.len) \div size

\* What one buf_alloc does: traps, returns 0, or returns the offset of the
\* block; the arena it leaves behind is in the field buf.
Outcome(out, beg, b) == [out |-> out, beg |-> beg, buf |-> b]

\* Mutants: a negative count is let through; len forgets the padding.
AllocNegative(b, size, align, count, soft) ==
  IF count = 0 THEN Outcome("ok", b.len, b)
  ELSE IF ~Fits(b, size, count) THEN Outcome(IF soft THEN "null" ELSE "trap", 0, b)
  ELSE Outcome("ok", b.len, [b EXCEPT !.len = @ + count * size])
AllocNoPad(b, size, align, count, soft) ==
  IF count <= 0 THEN Outcome("ok", b.len, b)
  ELSE IF ~Fits(b, size, count) THEN Outcome(IF soft THEN "null" ELSE "trap", 0, b)
  ELSE Outcome("ok", b.len + Pad(b, align), [b EXCEPT !.len = @ + count * size])

Alloc(b, size, align, count, soft) ==
  IF count < 0 THEN Outcome("trap", 0, b)
  ELSE IF count = 0 THEN Outcome("ok", b.len, b)
  ELSE IF ~Fits(b, size, count) THEN Outcome(IF soft THEN "null" ELSE "trap", 0, b)
  ELSE LET beg == b.len + Pad(b, align)
       IN  Outcome("ok", beg, [b EXCEPT !.len = beg + count * size])

\* Mutant: arr_shrink without its assertion.
OnTopAlways(b, beg, size) == TRUE

\* buf_ontop: does a block of size bytes at offset beg end where the arena does?
OnTop(b, beg, size) == b.len - size = beg
============================================================================
