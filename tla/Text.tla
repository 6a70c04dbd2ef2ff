------------------------------- MODULE Text -------------------------------
(***************************************************************************)
(* A program that takes a text apart with builtin/str.h: it splits it and  *)
(* splits the parts again, trims and compares what it got, and runs loops  *)
(* of the form  while (src.len) part = str_till_next(&src, ...)  whose     *)
(* body may split the part at hand.  All Strs are views on one memory, and *)
(* a split that substitutes NUL for the separators writes to it.           *)
(*                                                                         *)
(* The memory holds the text, the NUL behind it, and string literals.      *)
(***************************************************************************)
EXTENDS StrOps

CONSTANTS
  Langs,    \* "c" for str.h, "cpp" for str.hpp
  Char,     \* the characters a text is made of
  M,        \* bound: the length of the text
  Literals, \* the characters of the literals, which hold the needles
  Seps,     \* characters to split at
  Newline,  \* the separator of str_split_lines
  Rooms,    \* sizes of the array of parts: maxlen, or for -1 buf_avail
  Flags     \* trim flags

ASSUME TextAssumption ==
  /\ M \in Nat
  /\ NUL \notin Char
  /\ Literals \in Seq(Char)
  /\ Newline \in Char
  /\ Seps \subseteq Char
  /\ Rooms \subseteq Nat
  /\ Langs \subseteq {"c", "cpp"}

VARIABLES
  lang,   \* the library in use
  mem,    \* the memory
  parts,  \* the Strs the last call handed out
  job,    \* that call: its operands and the memory it was made in
  loop,   \* the loop under way, or the last one: its operands
  src,    \* the loop's Str, which the iterator advances
  got     \* the parts the loop has had so far

vars == <<lang, mem, parts, job, loop, src, got>>

Whole == Str(1, M)
Literal == {w \in [buf : M + 2 .. Len(mem), len : 0 .. Len(Literals)] :
              EndOf(w) <= Len(mem) /\ (w.len = 0 => w.buf = Len(mem))}

NoFlags == [left |-> FALSE, right |-> FALSE, blank |-> {}]
Job(op, s) ==
  [op |-> op, src |-> s, with |-> StrNull, sep |-> NUL, room |-> 0,
   ignore |-> FALSE, subst |-> FALSE, flags |-> NoFlags, mem |-> mem]
NoLoop == [by |-> "none", from |-> StrNull, needle |-> StrNull, mem |-> <<>>]
InLoop == src.len # 0
Looped == loop.by # "none"

Init ==
  /\ lang \in Langs
  /\ \E text \in [1 .. M -> Char] : mem = text \o <<NUL>> \o Literals \o <<NUL>>
  /\ parts = <<>>
  /\ job = [op |-> "none"]
  /\ loop = NoLoop
  /\ src = StrNull
  /\ got = <<>>

\* What a call may be given: the text or a part of the last result; in a loop,
\* the part at hand, which may have a negative length.
Operands == {Whole} \cup Range(parts)
PartAtHand == IF got = <<>> THEN {} ELSE {Last(got)}

----------------------------------------------------------------------------
\* Calls

SplitAt(s, sep, room, ignore, subst) ==
  LET r == SplitC(lang, mem, s, sep, room, ignore, subst) IN
  /\ parts' = r.parts
  /\ mem' = r.mem
  /\ job' = [Job("split", s) EXCEPT !.sep = sep, !.room = room, !.ignore = ignore,
                                    !.subst = subst]
  /\ UNCHANGED <<lang, loop, src, got>>

SplitLines(s, room, ignore) == SplitAt(s, Newline, room, ignore, FALSE)

\* The caller goes over the parts it has.
TrimAll(flags) ==
  /\ job.op = "split"
  /\ parts' = [k \in DOMAIN parts |-> Trim(mem, parts[k], flags)]
  /\ job' = [job EXCEPT !.op = "trim", !.flags = flags]
  /\ UNCHANGED <<lang, mem, loop, src, got>>

Pair(s, sep, flags) ==
  /\ parts' = SplitPair(mem, s, sep, flags)
  /\ job' = [Job("pair", s) EXCEPT !.sep = sep, !.flags = flags]
  /\ UNCHANGED <<lang, mem, loop, src, got>>

\* str_equal, str_startswith, str_endswith and str_find on the same operands;
\* they change nothing, ComparesAgree is about their results.
Compare(s, w) ==
  /\ job' = [Job("compare", s) EXCEPT !.with = w]
  /\ UNCHANGED <<lang, mem, parts, loop, src, got>>

----------------------------------------------------------------------------
\* Loops

StartLoop(s, by, needle) ==
  /\ by = "char" => needle.len = 1
  /\ loop' = [by |-> by, from |-> s, needle |-> needle, mem |-> mem]
  /\ src' = s
  /\ got' = <<>>
  /\ parts' = <<>>
  /\ job' = [op |-> "none"]
  /\ UNCHANGED <<lang, mem>>

Step == IF loop.by = "char" THEN TillNextC(mem, src, mem[loop.needle.buf])
        ELSE TillNext(lang, mem, src, loop.needle)

\* One iteration.  Only an empty needle, which is found over and over where the
\* loop stands, makes the parts more than the text has characters: the loop's
\* state is then the same at each turn, and got is cut.
Turn ==
  /\ InLoop
  /\ src' = Step.src
  /\ got' = IF Len(got) > M + 1 THEN got ELSE Append(got, Step.part)
  /\ parts' = <<>>
  /\ job' = [op |-> "none"]
  /\ UNCHANGED <<lang, mem, loop>>

----------------------------------------------------------------------------
Split(s) ==
  \/ \E sep \in Seps, room \in Rooms, ignore, subst \in BOOLEAN :
       SplitAt(s, sep, room, ignore, subst)
  \/ \E room \in Rooms, ignore \in BOOLEAN : SplitLines(s, room, ignore)

\* What could follow a Compare could have happened in its place.
Call ==
  job.op # "compare" /\ \E s \in Operands :
    \/ Split(s)
    \/ \E sep \in Seps, flags \in Flags : Pair(s, sep, flags)
    \/ \E w \in Operands \cup Literal : Compare(s, w)
    \/ \E by \in {"char", "str"}, w \in Literal : StartLoop(s, by, w)

\* Of what a body may do, only a split that writes could disturb the loop.
Body ==
  \E s \in PartAtHand, sep \in Seps, room \in Rooms, ignore \in BOOLEAN :
    SplitAt(s, sep, room, ignore, TRUE)

Next ==
  \/ ~Looped /\ (Call \/ \E flags \in Flags : TrimAll(flags))
  \/ Looped /\ (Turn \/ Body)

\* A loop of a sequential program goes on; its body is of calls that return.
Spec == Init /\ [][Next]_vars /\ WF_vars(Turn)

----------------------------------------------------------------------------
\* Properties

\* The maximal stretches of s without a separator: what a split is to find.
Extents(m, s, sep) ==
  {w \in {Str(b, n) : b \in s.buf .. EndOf(s), n \in 0 .. s.len} :
     /\ EndOf(w) <= EndOf(s)
     /\ \A a \in Addresses(w) : m[a] # sep
     /\ w.buf = s.buf \/ m[w.buf - 1] = sep
     /\ EndOf(w) = EndOf(s) \/ m[EndOf(w)] = sep}

\* With SPLIT_IGNORE_EMPTY the empty ones are left out; the C++ library lets the
\* one at the end of a string through.
Wanted(m, s, sep, ignore) ==
  {w \in Extents(m, s, sep) :
     ~ignore \/ w.len > 0 \/ (lang = "cpp" /\ s.len > 0 /\ w.buf = EndOf(s))}

\* A split hands out the stretches between the separators, in order and without
\* a gap, the first maxlen of them if there are more (str.h:278-308).
SplitExact ==
  job.op = "split" =>
    LET wanted == Wanted(job.mem, job.src, job.sep, job.ignore) IN
    /\ Range(parts) \subseteq wanted
    /\ Len(parts) = Min({job.room, Cardinality(wanted)})
    /\ \A k \in DOMAIN parts, w \in wanted :
         w.buf < parts[k].buf => \E j \in 1 .. k - 1 : parts[j] = w

\* The two halves of a pair lie on the two sides of the first separator, and
\* nothing but it and blanks is lost; the second is null exactly if there was no
\* separator, so that a key without a value can be told from one with an empty
\* value (str.h:240-268).
PairTellsMissing(s, a, b) ==
  LET seps == {p \in Addresses(s) : mem[p] = job.sep}
      kept == Addresses(a) \cup (IF IsNull(b) THEN {} ELSE Addresses(b))
  IN
  /\ IsNull(b) <=> seps = {}
  /\ seps # {} => EndOf(a) <= Min(seps) /\ b.buf > Min(seps)
  /\ \A p \in Addresses(s) \ kept : mem[p] \in job.flags.blank \/ (seps # {} /\ p = Min(seps))

\* What a split that had room for all, and trims after it, leave out is nothing
\* but separators and trimmed characters, and no character is in two parts; a
\* trimmed part begins and ends with a character that stays unless it is made
\* of blanks only (str.h:198-235); and a pair keeps all but its separator.
TrimKeepsContent ==
  /\ (job.op \in {"split", "trim"} /\ Len(parts) < job.room) =>
       \A a \in Addresses(job.src) : job.mem[a] \notin job.flags.blank \cup {job.sep} =>
         Cardinality({k \in DOMAIN parts : a \in Addresses(parts[k])}) = 1
  /\ job.op = "trim" =>
       \A s \in Range(parts) :
         (\E a \in Addresses(s) : mem[a] \notin job.flags.blank) =>
           /\ job.flags.left => mem[s.buf] \notin job.flags.blank
           /\ job.flags.right => mem[EndOf(s) - 1] \notin job.flags.blank
  /\ job.op = "pair" => PairTellsMissing(job.src, parts[1], parts[2])

\* After a split with SPLIT_SUBSTITUTE_NULL every part but the last is a C
\* string, the last one too if the array was not full and the source was one;
\* and no split writes to anything but separators of its source (str.h:287-289).
SubstituteTerminates ==
  job.op = "split" =>
    /\ \A a \in DOMAIN mem :
         \/ mem[a] = job.mem[a]
         \/ job.subst /\ a \in Addresses(job.src) /\ job.mem[a] = job.sep
    /\ (job.subst /\ parts # <<>> /\ ~IsNull(job.src)) =>
         /\ \A k \in 1 .. Len(parts) - 1 : mem[EndOf(parts[k])] = NUL
         /\ (Len(parts) < job.room /\ mem[EndOf(job.src)] = NUL) =>
              mem[EndOf(Last(parts))] = NUL

\* How many bytes of w a comparison looks at: all in C (memcmp), in C++ those up to
\* the first NUL (strncmp).
Compared(l, m, w) ==
  LET nuls == {i \in 0 .. w.len - 1 : m[w.buf + i] = NUL}
  IN  IF l = "cpp" /\ nuls # {} THEN Min(nuls) + 1 ELSE w.len

\* What the four functions answer is what the bytes say, of w's those that are
\* compared: w is equal to s, a prefix or a suffix of it if they are there and the
\* lengths allow it, and it is found at the first place of s where they are, which
\* may be so near the end of s that w lies across it.  Empty and null strings are
\* told apart, but for the search, which finds both at once (str.h:106-190).
ComparesAgree ==
  job.op = "compare" =>
    LET s == job.src
        w == job.with
        equal  == StrEqual(lang, mem, s, w)
        starts == StartsWith(lang, mem, s, w)
        ends   == EndsWith(lang, mem, s, w)
        pos    == StrFind(lang, mem, s, w)
        At(i)  == \A k \in 0 .. Compared(lang, mem, w) - 1 : mem[s.buf + i + k] = mem[w.buf + k]
        alike  == IsNull(s) <=> IsNull(w)
    IN
    /\ w.len > 0 =>
         /\ equal <=> (s.len = w.len /\ At(0))
         /\ starts <=> (s.len >= w.len /\ At(0))
         /\ ends <=> (s.len >= w.len /\ At(s.len - w.len))
         /\ pos >= 0 => pos < s.len /\ At(pos) /\ \A i \in 0 .. pos - 1 : ~At(i)
         /\ pos < 0 => \A i \in 0 .. s.len - w.len : ~At(i)
    /\ w.len = 0 =>
         /\ equal <=> (s.len = 0 /\ alike)
         /\ starts <=> alike
         /\ ends <=> alike
         /\ pos = IF IsNull(s) /\ ~IsNull(w) THEN -1 ELSE 0

\* The parts of a loop and the needles between them tile the loop's source as it
\* was when the loop began, whatever its body split, and no part hides a needle
\* (str.h:320-352).  Only the last part may lie across the end, and only if the
\* needle before it was found there.
LoopTiles ==
  LET n == loop.needle.len
      Found(p) == SameBytes(lang, loop.mem, p, loop.needle.buf, n)
  IN
  /\ src.len > -n \/ src.len = 0
  /\ got # <<>> => /\ got[1].buf = loop.from.buf
                   /\ src.len # 0 => src.buf = EndOf(Last(got)) + n
                   /\ src.len = 0 => EndOf(loop.from) - EndOf(Last(got)) \in {0, n}
  /\ \A k \in 1 .. Len(got) - 1 :
       /\ got[k].len >= 0
       /\ got[k + 1].buf = EndOf(got[k]) + n
       /\ Found(EndOf(got[k]))
  /\ n > 0 => \A k \in DOMAIN got : \A p \in Addresses(got[k]) :
                Found(p) => p + n > EndOf(loop.from)

\* A loop over a string comes to its end, unless it looks for nothing: an empty
\* needle is found where the loop stands, which does not get it any further
\* (str.h:182, 347-349).
LoopEnds == (InLoop /\ loop.needle.len > 0) ~> ~InLoop

\* "Non-null and non-empty strings must match at all bytes" (str.hpp:129).
MatchAtAllBytes ==
  (job.op = "compare" /\ job.with.len > 0) =>
    LET s == job.src
        w == job.with
        At(i) == \A k \in 0 .. w.len - 1 : mem[s.buf + i + k] = mem[w.buf + k]
    IN  /\ StrEqual(lang, mem, s, w) \/ StartsWith(lang, mem, s, w) => At(0)
        /\ EndsWith(lang, mem, s, w) => At(s.len - w.len)
============================================================================
