------------------------------- MODULE StrMem -------------------------------
(***************************************************************************)
(* Strings in an arena: str_new, str_copy, str_fmtn and str_fmt of         *)
(* builtin/str.h, and the same of str.hpp.  The strings a program has made *)
(* are views of the arena's bytes, so that what a later call stores, or    *)
(* gives back, can spoil an earlier string.                                *)
(*                                                                         *)
(* vsnprintf is what C99 promises: it stores as much of the text as fits   *)
(* before a terminator and returns the length of the whole text.           *)
(***************************************************************************)
EXTENDS BufOps, Sequences, FiniteSetsExt

CONSTANTS
  Texts,    \* the texts a program copies and formats: sequences of characters
  Limits,   \* the limits given to str_fmtn
  Cap,      \* the capacity of the arena, in bytes
  MaxStrs   \* bound on the strings alive

ASSUME StrMemAssumption ==
  /\ Cap \in Nat /\ Limits \subseteq Int /\ MaxStrs \in Nat
  /\ IsFiniteSet(Texts) /\ \A t \in Texts : t \in Seq({t[i] : i \in DOMAIN t})

VARIABLES
  arena,  \* the Buf
  mem,    \* its bytes, and those behind it
  strs,   \* the strings made since the last reset
  alive   \* FALSE once __builtin_trap was reached

strVars == <<arena, mem, strs, alive>>

Word == 2 ^ 16
NUL == "NUL"
Garbage == "garbage"
LongestText == Max({Len(t) : t \in Texts} \cup {0})
Bytes == 0 .. Cap + MaxStrs * (LongestText + 1)

\* A Str at an offset of the arena; text is what it was made from, kept how much
\* of it the call stored, and term whether a terminator follows: for good
\* ("kept"), until the next allocation ("passing"), or not ("none").
Str(beg, len, text, kept, term) ==
  [beg |-> beg, len |-> len, text |-> text, kept |-> kept, term |-> term]
StrNull == Str(-1, 0, <<>>, 0, "none")

\* The bytes of s, and the memory after t and a terminator, if asked for, have
\* been stored at beg.
View(s) == [i \in 1 .. s.len |-> mem[s.beg + i - 1]]
Stored(beg, t, null_term) ==
  [i \in Bytes |-> IF i \in beg .. beg + Len(t) - 1 THEN t[i - beg + 1]
                   ELSE IF null_term /\ i = beg + Len(t) THEN NUL ELSE mem[i]]

StrInit ==
  /\ arena = [base |-> 64, len |-> 0, cap |-> Cap]
  /\ mem = [i \in Bytes |-> Garbage]
  /\ strs = <<>>
  /\ alive = TRUE

\* buf_avail: the rest is divided as an unsigned word and the quotient read as
\* a signed one.
BufAvail(b, objsize) ==
  LET n == ((b.cap - b.len) % Word) \div objsize IN
  IF n >= Word \div 2 THEN n - Word ELSE n

MakeBytes(n) == Alloc(arena, 1, 1, n, FALSE)

Trap(a) ==
  /\ a.out = "trap"
  /\ alive' = FALSE
  /\ UNCHANGED <<arena, mem, strs>>

\* str_new
StrNew(n) == [alloc |-> MakeBytes(n), data |-> Str(MakeBytes(n).beg, n, <<>>, 0, "none")]

\* Mutant: there is no byte for the terminator.
StrCopyTight(text, null_term) ==
  IF text = <<>>
  THEN strs' = Append(strs, StrNull) /\ UNCHANGED <<arena, mem, alive>>
  ELSE LET a == MakeBytes(Len(text)) IN
       \/ Trap(a)
       \/ /\ a.out = "ok"
          /\ arena' = a.buf
          /\ mem' = Stored(a.beg, text, null_term)
          /\ strs' = Append(strs, Str(a.beg, Len(text), text, Len(text),
                                      IF null_term THEN "kept" ELSE "none"))
          /\ UNCHANGED alive

\* str_copy
StrCopy(text, null_term) ==
  IF text = <<>>
  THEN strs' = Append(strs, StrNull) /\ UNCHANGED <<arena, mem, alive>>
  ELSE LET a == MakeBytes(Len(text) + IF null_term THEN 1 ELSE 0) IN
       \/ Trap(a)
       \/ /\ a.out = "ok"
          /\ arena' = a.buf
          /\ mem' = Stored(a.beg, text, null_term)
          /\ strs' = Append(strs, Str(a.beg, Len(text), text, Len(text),
                                      IF null_term THEN "kept" ELSE "none"))
          /\ UNCHANGED alive

\* vsnprintf into n bytes: how much it stores before the terminator.
Fitting(text, n) == IF Len(text) < n THEN Len(text) ELSE n - 1

\* Mutant: the arena keeps one byte less than the text has.
FormatShort(text, n) ==
  LET a == MakeBytes(n)
      kept == IF n = 0 THEN 0 ELSE Fitting(text, n)
  IN
  \/ Trap(a)
  \/ /\ a.out = "ok"
     /\ arena' = [a.buf EXCEPT !.len = @ - (n - Len(text)) - 1]
     /\ mem' = IF n = 0 THEN mem ELSE Stored(a.beg, SubSeq(text, 1, kept), TRUE)
     /\ strs' = Append(strs, Str(a.beg, Len(text), text, kept,
                                 IF Len(text) < n THEN "passing" ELSE "none"))
     /\ UNCHANGED alive

\* What str_fmtn and str_fmt do with n bytes.  len is the length of the whole
\* text, cut off or not, and the arena goes back, or on, to its end.
Format(text, n) ==
  LET a == MakeBytes(n)
      kept == IF n = 0 THEN 0 ELSE Fitting(text, n)
  IN
  \/ Trap(a)
  \/ /\ a.out = "ok"
     /\ arena' = [a.buf EXCEPT !.len = @ - (n - Len(text))]
     /\ mem' = IF n = 0 THEN mem ELSE Stored(a.beg, SubSeq(text, 1, kept), TRUE)
     /\ strs' = Append(strs, Str(a.beg, Len(text), text, kept,
                                 IF Len(text) < n THEN "passing" ELSE "none"))
     /\ UNCHANGED alive

\* str_fmt takes all there is.
StrFmt(text) == Format(text, BufAvail(arena, 1))
StrFmtn(text, limit) == Format(text, limit)

\* buf_reset: the strings are gone, the bytes are still there.
Reset ==
  /\ arena' = [arena EXCEPT !.len = 0]
  /\ strs' = <<>>
  /\ UNCHANGED <<mem, alive>>

MakeStr ==
  /\ alive /\ Len(strs) < MaxStrs
  /\ \E text \in Texts :
       \/ \E null_term \in BOOLEAN : StrCopy(text, null_term)
       \/ \E limit \in Limits : StrFmtn(text, limit)
       \/ StrFmt(text)

----------------------------------------------------------------------------
\* Properties

\* A string goes on holding what was stored for it, whatever is made after it:
\* no allocation overlaps it, although formatting gives back what it did not
\* need (str.h:124-157).  It ends where the arena does or before, and passes the
\* capacity only if its text was cut off: len is then the length of the whole
\* text, and the arena counts the part that is missing as used.
StringsKeep ==
  \A k \in DOMAIN strs :
    LET s == strs[k] IN
    /\ \A i \in 1 .. s.kept : mem[s.beg + i - 1] = s.text[i]
    /\ s.beg + s.len <= arena.len
    /\ (s.kept = s.len /\ s.len > 0) => s.beg + s.len <= Cap
============================================================================
