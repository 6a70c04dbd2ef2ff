------------------------------ MODULE StrOps ------------------------------
(***************************************************************************)
(* The functions of builtin/str.h (and str.hpp) that read views: compare,  *)
(* find, trim, split, and the two iterators.  A Str is an address and a    *)
(* length, address 0 being NULL; m is the memory, a function from          *)
(* addresses to characters.  Lang is "c" or "cpp" where the libraries      *)
(* differ.                                                                 *)
(***************************************************************************)
EXTENDS Integers, SequencesExt

CONSTANT NUL  \* the character that ends a C string

Str(buf, len) == [buf |-> buf, len |-> len]
StrNull == Str(0, 0)
EndOf(s) == s.buf + s.len
Addresses(s) == s.buf .. EndOf(s) - 1
IsNull(s) == s.buf = 0

----------------------------------------------------------------------------
\* Comparison

\* memcmp: all bytes.  strncmp, in C++: the bytes up to a common NUL.
SameBytes(lang, m, p, q, n) ==
  \A i \in 0 .. n - 1 :
    \/ m[p + i] = m[q + i]
    \/ lang = "cpp" /\ \E j \in 0 .. i - 1 : m[p + j] = NUL /\ m[q + j] = NUL

StrEqual(lang, m, s1, s2) ==
  /\ s1.len = s2.len
  /\ IF s1.len = 0 THEN IsNull(s1) <=> IsNull(s2)
     ELSE SameBytes(lang, m, s1.buf, s2.buf, s1.len)

\* str_sub, whose assertion holds at every place it is called from here.
StrSub(s, i, j) == Str(s.buf + i, j - i)

\* Mutant: the length is not compared first.
StartsWithUnchecked(lang, m, s, prefix) ==
  StrEqual(lang, m, StrSub(s, 0, prefix.len), prefix)

StartsWith(lang, m, s, prefix) ==
  /\ s.len >= prefix.len
  /\ StrEqual(lang, m, StrSub(s, 0, prefix.len), prefix)

EndsWith(lang, m, s, suffix) ==
  /\ s.len >= suffix.len
  /\ StrEqual(lang, m, StrSub(s, s.len - suffix.len, s.len), suffix)

\* Mutant: the first character is enough.
FindFirstChar(lang, m, s, sub) ==
  IF sub.len = 0 THEN 0 ELSE IF sub.len > s.len THEN -1
  ELSE LET hits == {i \in 0 .. s.len - 1 : m[s.buf + i] = m[sub.buf]}
       IN  IF hits = {} THEN -1 ELSE Min(hits)

\* The loop runs over all of s, so the last comparisons reach past its end.
StrFind(lang, m, s, sub) ==
  IF IsNull(s) THEN (IF IsNull(sub) THEN 0 ELSE -1)
  ELSE IF sub.len = 0 THEN 0
  ELSE IF sub.len > s.len THEN -1
  ELSE LET hits == {i \in 0 .. s.len - 1 :
                      /\ m[s.buf + i] = m[sub.buf]
                      /\ StrEqual(lang, m, Str(s.buf + i, sub.len), sub)}
       IN  IF hits = {} THEN -1 ELSE Min(hits)

----------------------------------------------------------------------------
\* Trim.  flags = [left, right, blank]: the sides and the characters to drop.

\* Mutant: the last character that stays is dropped as well.
TrimShort(m, s, flags) ==
  LET stay == {i \in 0 .. s.len - 1 : m[s.buf + i] \notin flags.blank}
  IN  IF s.len <= 0 \/ stay = {} THEN s
      ELSE StrSub(s, IF flags.left THEN Min(stay) ELSE 0,
                     IF flags.right THEN Max(stay) ELSE s.len)

\* A loop that meets blanks only does not move its end: such a string stays.
Trim(m, s, flags) ==
  LET stay  == {i \in 0 .. s.len - 1 : m[s.buf + i] \notin flags.blank}
      start == IF flags.left /\ stay # {} THEN Min(stay) ELSE 0
      stop  == IF flags.right /\ stay # {} THEN Max(stay) + 1 ELSE s.len
  IN  IF s.len = 0 THEN s ELSE StrSub(s, start, stop)

----------------------------------------------------------------------------
\* Split

SplitPair(m, s, sep, flags) ==
  LET found == {i \in 0 .. s.len - 1 : m[s.buf + i] = sep}
  IN  IF s.len = 0 THEN <<s, StrNull>>
      ELSE IF found = {} THEN <<Trim(m, s, flags), StrNull>>
      ELSE <<Trim(m, StrSub(s, 0, Min(found)), flags),
             Trim(m, StrSub(s, Min(found) + 1, s.len), flags)>>

\* Mutant: the array's size is not looked at.
SplitTurnNoLimit(acc, i, s, sep, room, ignore, subst) ==
  LET here  == s.buf + i
      part  == Str(acc.start, here - acc.start)
      keep  == part.len > 0 \/ ~ignore
  IN
  IF acc.done \/ acc.mem[here] # sep THEN acc
  ELSE [parts |-> IF keep THEN Append(acc.parts, part) ELSE acc.parts,
        start |-> here + 1, done |-> FALSE,
        mem |-> IF subst THEN [acc.mem EXCEPT ![here] = NUL] ELSE acc.mem]

\* Mutant: start moves on before the NUL is written there.
SplitTurnShifted(acc, i, s, sep, room, ignore, subst) ==
  LET here  == s.buf + i
      part  == Str(acc.start, here - acc.start)
      keep  == part.len > 0 \/ ~ignore
      parts == IF keep THEN Append(acc.parts, part) ELSE acc.parts
  IN
  IF acc.done \/ acc.mem[here] # sep THEN acc
  ELSE IF keep /\ Len(parts) >= room THEN [acc EXCEPT !.parts = parts, !.done = TRUE]
  ELSE [parts |-> parts, start |-> here + 1, done |-> FALSE,
        mem |-> IF subst THEN [acc.mem EXCEPT ![here + 1] = NUL] ELSE acc.mem]

\* One turn of the loop of str_splitc, at offset i, with its local variables in
\* acc.  done is the jump to __done, before the separator is overwritten.
SplitTurn(acc, i, s, sep, room, ignore, subst) ==
  LET here  == s.buf + i
      part  == Str(acc.start, here - acc.start)
      keep  == part.len > 0 \/ ~ignore
      parts == IF keep THEN Append(acc.parts, part) ELSE acc.parts
  IN
  IF acc.done \/ acc.mem[here] # sep THEN acc
  ELSE IF keep /\ Len(parts) >= room THEN [acc EXCEPT !.parts = parts, !.done = TRUE]
  ELSE [parts |-> parts, start |-> here + 1, done |-> FALSE,
        mem |-> IF subst THEN [acc.mem EXCEPT ![here] = NUL] ELSE acc.mem]

\* The local variables after each number of turns of that loop.
SplitLoop(first, s, sep, room, ignore, subst) ==
  LET acc[i \in 0 .. s.len] ==
        IF i = 0 THEN first ELSE SplitTurn(acc[i - 1], i - 1, s, sep, room, ignore, subst)
  IN  acc

\* str_splitc into an array of room parts.  In C++ the test of the last part
\* reads the length of the whole string instead of the part's own.
SplitC(lang, m, s, sep, room, ignore, subst) ==
  LET first == [parts |-> <<>>, start |-> s.buf, done |-> FALSE, mem |-> m]
      acc   == IF s.len <= 0 THEN first
               ELSE SplitLoop(first, s, sep, room, ignore, subst)[s.len]
      rest  == Str(acc.start, EndOf(s) - acc.start)
      keep  == \/ ~ignore
               \/ (IF lang = "cpp" THEN s.len ELSE rest.len) # 0
  IN
  IF room = 0 THEN first
  ELSE IF acc.done \/ rest.len < 0 \/ ~keep THEN acc
  ELSE [acc EXCEPT !.parts = Append(@, rest)]

----------------------------------------------------------------------------
\* Iterators: the part handed out, and what is left of the source.

Handed(part, src) == [part |-> part, src |-> src]

\* Mutant: the separator itself is not skipped.
TillNextCStay(m, s, c) ==
  LET hits == {i \in 0 .. s.len - 1 : m[s.buf + i] = c}
      n    == IF hits = {} THEN s.len ELSE Min(hits)
  IN  Handed(StrSub(s, 0, n), StrSub(s, n, s.len))

TillNextC(m, s, c) ==
  LET hits == {i \in 0 .. s.len - 1 : m[s.buf + i] = c}
  IN  IF hits = {} THEN Handed(s, Str(EndOf(s), 0))
      ELSE Handed(StrSub(s, 0, Min(hits)), StrSub(s, Min(hits) + 1, s.len))

\* With a match that reaches past the end the remaining length is negative.
TillNext(lang, m, s, sub) ==
  LET pos == StrFind(lang, m, s, sub)
  IN  IF pos < 0 THEN Handed(s, Str(EndOf(s), 0))
      ELSE Handed(Str(s.buf, pos), Str(s.buf + pos + sub.len, s.len - pos - sub.len))
============================================================================
