----------------------------- MODULE Vsnprintf -----------------------------
(***************************************************************************)
(* rpl_vsnprintf of pocs/poc_snprintf_holger_weiss.c, the repository's     *)
(* study of the vsnprintf that str_fmt relies on, and its callers          *)
(* rpl_snprintf and rpl_asprintf, which formats twice: once to measure and *)
(* once into the block it allocated.  One action per state of the format   *)
(* reader, and one per group of conversions.                               *)
(*                                                                         *)
(* The build modelled is the one of a modern system: <stdarg.h>, uintmax_t *)
(* and localeconv() are there.                                             *)
(***************************************************************************)
EXTENDS FmtOps

CONSTANTS
  Calls,  \* the formats and arguments tried: [format : Seq(STRING), args : Seq(...)]
  Sizes,  \* the sizes given to snprintf
  Bits,   \* the widths of the integer types: char, short, int, long
  NegatedMin  \* what the build makes of -INT_MIN, which overflows

IntMax == 2 ^ (Bits.int - 1) - 1

ASSUME VsnprintfAssumption ==
  /\ Sizes \subseteq Nat
  /\ \A c \in Calls : c.format \in Seq(STRING)
  /\ \A t \in {"char", "short", "int", "long"} : Bits[t] \in 1 .. MaxBits
  /\ NegatedMin \in {-IntMax - 1, IntMax + 1}

VARIABLES
  call,    \* the format and the arguments
  api,     \* who called: "snprintf" or "asprintf"
  pass,    \* "measure" or "write"
  size,    \* the size of the buffer
  str,     \* the buffer and one byte behind it
  len,     \* the characters printed so far
  pos,     \* where in the format ch was read
  arg,     \* the next argument
  state,   \* PRINT_S_*, then "out" and "done"
  conv,    \* the conversion being read
  overflow,
  result,  \* what was returned
  counts,  \* what the pointers of %n were given
  out      \* all OUTCHAR was given, and the conversions with their parts of it

vars == <<call, api, pass, size, str, len, pos, arg, state, conv, overflow, result, counts, out>>

Unset == "unset"
NoResult == -2
NUL == "NUL"
Blank == [flags |-> {}, width |-> 0, precision |-> -1, cflags |-> "none", base |-> 0]

ChAt(p) == IF p <= Len(call.format) THEN call.format[p] ELSE NUL
Ch == ChAt(pos)
\* The next argument is of the kind a conversion asks for; any other, or none, is
\* undefined in C.
Given(kind) == arg \in DOMAIN call.args /\ call.args[arg] \in kind
Digit == {"0", "1", "2", "3", "4", "5", "6", "7", "8", "9"}
CharToInt(ch) == CHOOSE i \in 0 .. 9 : Lower[i + 1] = ch

Buffer(n) == [i \in 0 .. n |-> Unset]

\* A null pointer for a buffer has no size, whatever the caller said.
Init ==
  /\ call \in Calls
  /\ \/ /\ api = "snprintf" /\ pass = "write"
        /\ \E given \in Sizes, null \in BOOLEAN : size = IF null THEN 0 ELSE given
     \/ api = "asprintf" /\ pass = "measure" /\ size = 0
  /\ str = Buffer(size)
  /\ len = 0 /\ pos = 1 /\ arg = 1
  /\ state = "default"
  /\ conv = Blank
  /\ overflow = FALSE
  /\ result = NoResult
  /\ counts = <<>>
  /\ out = [text |-> <<>>, fields |-> <<>>]

----------------------------------------------------------------------------
\* OUTCHAR for each of the characters
Put(chars) ==
  /\ str' = [i \in DOMAIN str |->
       IF i \in len .. len + Len(chars) - 1 /\ i + 1 < size THEN chars[i - len + 1] ELSE str[i]]
  /\ len' = len + Len(chars)

Calling == <<call, api, pass, size>>
Printed == <<str, len, counts, out>>

\* A step of the reader that prints nothing.
Read(c, next) ==
  /\ conv' = c
  /\ state' = next
  /\ UNCHANGED <<Calling, Printed, result>>

Keep == UNCHANGED <<arg, overflow>>

Default ==
  /\ state = "default" /\ Ch # NUL
  /\ IF Ch = "%"
     THEN /\ state' = "flags"
          /\ UNCHANGED <<str, len, out>>
     ELSE /\ Put(<<Ch>>)
          /\ out' = [out EXCEPT !.text = Append(@, Ch)]
          /\ UNCHANGED state
  /\ pos' = pos + 1
  /\ UNCHANGED <<Calling, counts, conv, result>>
  /\ Keep

FlagOf == [c \in {"-", "+", " ", "#", "0", "'"} |->
  CASE c = "-" -> "MINUS" [] c = "+" -> "PLUS" [] c = " " -> "SPACE"
    [] c = "#" -> "NUM" [] c = "0" -> "ZERO" [] c = "'" -> "QUOTE"]

Flags ==
  /\ state = "flags" /\ Ch # NUL
  /\ IF Ch \in DOMAIN FlagOf
     THEN Read([conv EXCEPT !.flags = @ \cup {FlagOf[Ch]}], "flags") /\ pos' = pos + 1
     ELSE Read(conv, "width") /\ UNCHANGED pos
  /\ Keep

\* goto out with overflow set
Overflow ==
  /\ overflow' = TRUE
  /\ Read(conv, "out")
  /\ UNCHANGED <<pos, arg>>

\* What * takes its number from is an int.
Star == -IntMax - 1 .. IntMax

Exceeds(n, digit) == n > (IntMax - digit) \div 10

\* A negative width: it stays negative, or becomes one more than INT_MAX, if it is
\* INT_MIN and the build wraps around or computes with more bits than an int has.
Negated(w) == IF w < -IntMax THEN NegatedMin ELSE -w

Width ==
  /\ state = "width" /\ Ch # NUL
  /\ \/ /\ Ch \in Digit
        /\ IF Exceeds(conv.width, CharToInt(Ch)) THEN Overflow
           ELSE /\ Read([conv EXCEPT !.width = 10 * @ + CharToInt(Ch)], "width")
                /\ pos' = pos + 1 /\ Keep
     \/ /\ Ch = "*" /\ Given(Star)
        /\ LET w == call.args[arg] IN
           Read(IF w < 0 THEN [conv EXCEPT !.flags = @ \cup {"MINUS"}, !.width = Negated(w)]
                ELSE [conv EXCEPT !.width = w], "dot")
        /\ pos' = pos + 1 /\ arg' = arg + 1
        /\ UNCHANGED overflow
     \/ /\ Ch \notin Digit \cup {"*"}
        /\ Read(conv, "dot") /\ UNCHANGED pos /\ Keep

\* Mutant: the reader stays where it is when there is no precision.
DotStuck ==
  /\ state = "dot" /\ Ch # NUL
  /\ IF Ch = "." THEN Read(conv, "precision") /\ pos' = pos + 1
     ELSE Read(conv, "width") /\ UNCHANGED pos
  /\ Keep

Dot ==
  /\ state = "dot" /\ Ch # NUL
  /\ IF Ch = "." THEN Read(conv, "precision") /\ pos' = pos + 1
     ELSE Read(conv, "mod") /\ UNCHANGED pos
  /\ Keep

Precision ==
  /\ state = "precision" /\ Ch # NUL
  /\ LET p == IF conv.precision = -1 THEN 0 ELSE conv.precision IN
     \/ /\ Ch \in Digit
        /\ IF Exceeds(p, CharToInt(Ch)) THEN Overflow
           ELSE /\ Read([conv EXCEPT !.precision = 10 * p + CharToInt(Ch)], "precision")
                /\ pos' = pos + 1 /\ Keep
     \/ /\ Ch = "*" /\ Given(Star)
        /\ Read([conv EXCEPT !.precision = IF call.args[arg] < 0 THEN -1 ELSE call.args[arg]], "mod")
        /\ pos' = pos + 1 /\ arg' = arg + 1
        /\ UNCHANGED overflow
     \/ /\ Ch \notin Digit \cup {"*"}
        /\ Read([conv EXCEPT !.precision = p], "mod") /\ UNCHANGED pos /\ Keep

\* The modifiers and how many characters each has.
Modifier(ch, following, cflags) ==
  LET twice == following = ch IN
  CASE ch = "h" -> IF twice THEN <<"char", 2>> ELSE <<"short", 1>>
    [] ch = "l" -> IF twice THEN <<"llong", 2>> ELSE <<"long", 1>>
    [] ch = "L" -> <<"ldouble", 1>>
    [] ch = "j" -> <<"intmax", 1>>
    [] ch = "t" -> <<"ptrdiff", 1>>
    [] ch = "z" -> <<"size", 1>>
    [] OTHER -> <<cflags, 0>>

Mod ==
  LET m == Modifier(Ch, ChAt(pos + 1), conv.cflags) IN
  /\ state = "mod" /\ Ch # NUL
  /\ Read([conv EXCEPT !.cflags = m[1]], "conv")
  /\ pos' = pos + m[2]
  /\ Keep

----------------------------------------------------------------------------
\* Conversions

TypeBits(cflags) ==
  CASE cflags \in {"char", "short", "long"} -> Bits[cflags]
    [] cflags \in {"llong", "size", "ptrdiff", "intmax"} -> MaxBits
    [] OTHER -> Bits.int

Unsigned(v, cflags) == v % 2 ^ TypeBits(cflags)
Signed(v, cflags) ==
  LET h == 2 ^ (TypeBits(cflags) - 1) IN ((v + h) % (2 * h)) - h

\* Mutant: base is still that of the conversion before.
NextConvBase(c) == [Blank EXCEPT !.base = c.base]

\* What the conversion c leaves to the next one.
NextConv(c) == Blank

Converted(c) ==
  /\ pos' = pos + 1
  /\ state' = "default"
  /\ conv' = NextConv(c)
  /\ UNCHANGED <<Calling, overflow, result>>

\* The text of a conversion that takes one argument; the record in fields is
\* what the reader made of the conversion, for the properties.
Convert1(text, c) ==
  /\ Put(text)
  /\ out' = [text |-> out.text \o text,
             fields |-> Append(out.fields,
               [as |-> Ch, flags |-> c.flags, width |-> c.width, precision |-> c.precision,
                cflags |-> c.cflags, value |-> call.args[arg], text |-> text])]
  /\ arg' = arg + 1
  /\ UNCHANGED counts
  /\ Converted(c)

ConvSigned ==
  /\ state = "conv" /\ Ch \in {"d", "i"} /\ Given(Int)
  /\ Convert1(FmtInt(Signed(call.args[arg], conv.cflags), 10, conv.width, conv.precision, conv.flags),
              conv)

BaseOf(ch, base) == CASE ch \in {"x", "X"} -> 16
                      [] ch = "o" -> IF base = 0 THEN 8 ELSE base
                      [] ch = "u" -> IF base = 0 THEN 10 ELSE base

ConvUnsigned ==
  /\ state = "conv" /\ Ch \in {"X", "x", "o", "u"} /\ Given(Int)
  /\ LET c == [conv EXCEPT !.flags = @ \cup {"UNSIGNED"} \cup (IF Ch = "X" THEN {"UP"} ELSE {}),
                           !.base = BaseOf(Ch, @)] IN
     Convert1(FmtInt(Unsigned(call.args[arg], c.cflags), c.base, c.width, c.precision, c.flags), c)

FloatFlags(ch) ==
  (CASE ch \in {"E", "e"} -> {"TYPE_E"} [] ch \in {"G", "g"} -> {"TYPE_G"} [] OTHER -> {})
  \cup (IF ch \in {"A", "E", "G", "F"} THEN {"UP"} ELSE {})

ConvFloat ==
  /\ state = "conv" /\ Ch \in {"A", "E", "G", "F", "a", "e", "g", "f"} /\ Given(Floating)
  /\ LET c == [conv EXCEPT !.flags = @ \cup FloatFlags(Ch)]
         r == FmtFlt(call.args[arg], c.width, c.precision, c.flags)
     IN IF r.overflow
        THEN /\ overflow' = TRUE
             /\ arg' = arg + 1
             /\ Read(c, "out")
             /\ UNCHANGED pos
        ELSE Convert1(r.text, c)

ConvChar ==
  /\ state = "conv" /\ Ch = "c"
  /\ Convert1(<<call.args[arg]>>, conv)

ConvString ==
  /\ state = "conv" /\ Ch = "s" /\ Given(Seq(STRING))
  /\ Convert1(FmtStr(call.args[arg], conv.width, conv.precision, conv.flags), conv)

\* An address is a number; the null pointer is 0.
ConvPointer ==
  /\ state = "conv" /\ Ch = "p" /\ Given(Nat)
  /\ LET c == [conv EXCEPT !.flags = @ \cup {"NUM", "UNSIGNED"}] IN
     IF call.args[arg] = 0
     THEN Convert1(FmtStr(<<"(", "n", "i", "l", ")">>, conv.width, -1, conv.flags), conv)
     ELSE Convert1(FmtInt(call.args[arg], 16, c.width, c.precision, c.flags), c)

ConvCount ==
  /\ state = "conv" /\ Ch = "n"
  /\ counts' = Append(counts, [at |-> Len(out.text), as |-> conv.cflags,
                               given |-> Signed(len, conv.cflags)])
  /\ arg' = arg + 1
  /\ UNCHANGED <<str, len, out>>
  /\ Converted(conv)

\* A percent sign, or a character that is no conversion and is skipped.
ConvOther ==
  /\ state = "conv"
  /\ Ch \notin {NUL, "d", "i", "X", "x", "o", "u", "A", "E", "G", "F", "a", "e", "g", "f",
                "c", "s", "p", "n"}
  /\ IF Ch = "%"
     THEN Put(<<Ch>>) /\ out' = [out EXCEPT !.text = Append(@, Ch)]
     ELSE UNCHANGED <<str, len, out>>
  /\ UNCHANGED <<arg, counts>>
  /\ Converted(conv)

\* The loop ends at the end of the format, in whatever state the reader is.
EndOfFormat ==
  /\ state \notin {"out", "done"} /\ Ch = NUL
  /\ state' = "out"
  /\ UNCHANGED <<Calling, Printed, pos, arg, conv, overflow, result>>

----------------------------------------------------------------------------
\* Mutant: the terminator goes behind the last character also when that is
\* where the buffer ends.
TerminatedLate == IF size > 0 THEN [str EXCEPT ![IF len <= size THEN len ELSE size - 1] = NUL]
                  ELSE str

\* The label out: the terminator, and what is returned.
Terminated ==
  IF len < size THEN [str EXCEPT ![len] = NUL]
  ELSE IF size > 0 THEN [str EXCEPT ![size - 1] = NUL] ELSE str

Returned == IF overflow \/ len > IntMax THEN -1 ELSE len

\* Of a single call, and of the second call of rpl_asprintf.
Return ==
  /\ state = "out" /\ pass = "write"
  /\ str' = Terminated
  /\ result' = Returned
  /\ state' = "done"
  /\ UNCHANGED <<Calling, len, pos, arg, conv, overflow, counts, out>>

\* Mutant: the block has no room for the terminator.
AllocateTight ==
  /\ state = "out" /\ pass = "measure" /\ Returned >= 0
  /\ pass' = "write"
  /\ size' = Returned
  /\ str' = Buffer(Returned)
  /\ len' = 0 /\ pos' = 1 /\ arg' = 1
  /\ state' = "default" /\ conv' = Blank
  /\ overflow' = FALSE /\ result' = NoResult
  /\ counts' = <<>> /\ out' = [text |-> <<>>, fields |-> <<>>]
  /\ UNCHANGED <<call, api>>

\* Between the two calls of rpl_asprintf: the block of malloc, and the second
\* call with the arguments from the start (they were copied).
Allocate ==
  /\ state = "out" /\ pass = "measure" /\ Returned >= 0
  /\ pass' = "write"
  /\ size' = Returned + 1
  /\ str' = Buffer(Returned + 1)
  /\ len' = 0 /\ pos' = 1 /\ arg' = 1
  /\ state' = "default" /\ conv' = Blank
  /\ overflow' = FALSE /\ result' = NoResult
  /\ counts' = <<>> /\ out' = [text |-> <<>>, fields |-> <<>>]
  /\ UNCHANGED <<call, api>>

\* The first call failed, or malloc did.
GiveUp ==
  /\ state = "out" /\ pass = "measure"
  /\ result' = -1
  /\ state' = "done"
  /\ UNCHANGED <<Calling, Printed, pos, arg, conv, overflow>>

Next ==
  \/ Default \/ Flags \/ Width \/ Dot \/ Precision \/ Mod
  \/ ConvSigned \/ ConvUnsigned \/ ConvFloat \/ ConvChar \/ ConvString \/ ConvPointer
  \/ ConvCount \/ ConvOther \/ EndOfFormat
  \/ Return \/ Allocate \/ GiveUp

\* Only a call that has returned may stop: any other deadlock is an error.
Stopped == state = "done" /\ UNCHANGED vars

Spec == Init /\ [][Next \/ Stopped]_vars

----------------------------------------------------------------------------
\* Properties

\* The buffer holds the first size - 1 characters printed and, at the end, a
\* terminator behind them; nothing else in it and nothing behind it is touched,
\* and len counts what did not fit as well (lines 523-528, 874-883).
StoresPrefix ==
  LET n == IF len + 1 < size THEN len ELSE AtLeast0(size - 1)
      ended == state = "done" /\ pass = "write" /\ size > 0
  IN  /\ len = Len(out.text)
      /\ \A i \in DOMAIN str :
           str[i] = IF i < n THEN out.text[i + 1]
                    ELSE IF i = n /\ ended THEN NUL ELSE Unset

\* The string of asprintf is all that was printed and fills the block but for
\* the terminator; what %n reported are the places in it (lines 821-864, 1436-1447).
AsprintfExact ==
  (api = "asprintf" /\ state = "done" /\ result >= 0) =>
    /\ size = result + 1 /\ result = Len(out.text)
    /\ \A i \in 0 .. result - 1 : str[i] = out.text[i + 1]
    /\ str[result] = NUL
    /\ \A k \in DOMAIN counts :
         counts[k].at < 2 ^ (TypeBits(counts[k].as) - 1) => counts[k].at = counts[k].given

Digits == {Lower[i] : i \in 1 .. 16} \cup {Upper[i] : i \in 1 .. 16}
ASSUME SeparatorAssumption == ToSet(ThousandsSep) \cap Digits = {}

DigitsOf(s) == SelectSeq(s, LAMBDA c : c \in Digits)
DigitValue(c) == (CHOOSE i \in 1 .. 16 : Lower[i] = c \/ Upper[i] = c) - 1
\* What the first characters of s are worth; those that are no digits do not count.
Worth(s, base) ==
  LET v[i \in 0 .. Len(s)] == IF i = 0 THEN 0
                              ELSE IF s[i] \in Digits THEN base * v[i - 1] + DigitValue(s[i])
                              ELSE v[i - 1]
  IN  v
ValueOf(s, base) == Worth(s, base)[Len(s)]
Abs(n) == IF n < 0 THEN -n ELSE n

\* text is body and blanks that take it no further than the width, on the left or,
\* with the flag -, on the right.
Padded(f, body) ==
  LET pad == Len(f.text) - Len(body) IN
  /\ pad >= 0
  /\ f.text = IF "MINUS" \in f.flags THEN body \o Times(" ", pad) ELSE Times(" ", pad) \o body
  /\ pad > 0 => Len(f.text) <= f.width

\* The separators of an integer are taken off both paddings, although the zeros of
\* a precision (or the one that %#o adds to it) have taken their places already
\* (lines 943-965).
TakenTwice(f) ==
  /\ f.as \in {"d", "i", "u", "o", "x", "X", "p"} /\ "QUOTE" \in f.flags
  /\ f.precision > 0 \/ (f.as = "o" /\ "NUM" \in f.flags)

\* The zeros in front of a number: as many as the precision asks for, or as fill
\* the width with the flag 0, unless - or a precision rules it out.
Leading(f, zeros, digits) ==
  zeros > 0 => \/ digits = f.precision
               \/ "ZERO" \in f.flags /\ "MINUS" \notin f.flags /\ f.precision = -1
                  /\ (TakenTwice(f) \/ Len(f.text) = f.width)
               \/ f.as = "o" /\ "NUM" \in f.flags /\ zeros = 1

LeadingZeros(s) == CHOOSE k \in 0 .. Len(s) : /\ \A i \in 1 .. k : s[i] = "0"
                                              /\ k = Len(s) \/ s[k + 1] # "0"

\* The digits of an integer, with the separators, read back as its value, and are as
\* many as the precision asks for.  There is always one, by the do-while of convert
\* (line 1365): C99 asks for none if the value and the precision are 0 (7.19.6.1, 8).
DigitsAsAsked(f, body, v, base) ==
  /\ body # <<>> /\ ToSet(body) \subseteq Digits \cup ToSet(ThousandsSep)
  /\ ValueOf(body, base) = Abs(v)
  /\ "QUOTE" \notin f.flags =>
       /\ ToSet(body) \subseteq Digits /\ Len(body) >= f.precision
       /\ f.as = "o" /\ "NUM" \in f.flags => body[1] = "0"
  /\ v # 0 => Leading(f, LeadingZeros(body), Len(body))

SignAsked(negative, flags) ==
  IF negative THEN <<"-">>
  ELSE IF "PLUS" \in flags THEN <<"+">> ELSE IF "SPACE" \in flags THEN <<" ">> ELSE <<>>

\* An integer is printed as the value it was made from, in the base and with the
\* sign and prefix asked for.
IntegerAsAsked(f) ==
  LET v == IF f.as \in {"d", "i"} THEN Signed(f.value, f.cflags) ELSE Unsigned(f.value, f.cflags)
      base == CASE f.as \in {"x", "X"} -> 16 [] f.as = "o" -> 8 [] OTHER -> 10
      head == (IF f.as \in {"d", "i"} THEN SignAsked(v < 0, f.flags) ELSE <<>>)
              \o (IF base = 16 /\ "NUM" \in f.flags /\ v # 0 THEN <<"0", f.as>> ELSE <<>>)
  IN \E a \in 0 .. Len(f.text) : \E b \in a + Len(head) .. Len(f.text) :
       /\ Padded(f, SubSeq(f.text, a + 1, b))
       /\ SubSeq(f.text, a + 1, a + Len(head)) = head
       /\ DigitsAsAsked(f, SubSeq(f.text, a + Len(head) + 1, b), v, base)

Named(kind, upper) ==
  IF kind = "nan" THEN IF upper THEN <<"N", "A", "N">> ELSE <<"n", "a", "n">>
  ELSE IF upper THEN <<"I", "N", "F">> ELSE <<"i", "n", "f">>

\* What is left of a floating point number without its padding is a sign, where one
\* is due, and the name of the value or a digit and what follows it.  The flag 0 fills
\* a number up with zeros, unless there is a -, and nothing but a number; otherwise no
\* number begins with a 0 that is not its only digit (lines 1050-1062, 1239-1307).
FloatLaidOut(f) ==
  LET sign == SignAsked(f.value.n < 0, f.flags)
      zeros == "ZERO" \in f.flags /\ "MINUS" \notin f.flags
      finite == f.value.kind = "fraction"
  IN \E a \in 0 .. Len(f.text) : \E b \in a + Len(sign) + 1 .. Len(f.text) :
       LET rest == SubSeq(f.text, a + Len(sign) + 1, b) IN
       /\ Padded(f, SubSeq(f.text, a + 1, b))
       /\ SubSeq(f.text, a + 1, a + Len(sign)) = sign
       /\ ~finite => rest = Named(f.value.kind, f.as = "E")
       /\ finite => /\ rest[1] \in Digit /\ " " \notin ToSet(rest)
                    /\ zeros => rest = SubSeq(f.text, Len(sign) + 1, Len(f.text))
                    /\ (Len(rest) > 1 /\ rest[1] = "0" /\ rest[2] \in Digit) =>
                         zeros /\ Len(f.text) = f.width

\* A fraction reads back to within half of its last digit; e-style has one digit
\* before the point, and %g uses it only where C99 says (lines 1161-1184).
FractionAsAsked(f) ==
  LET v == f.value
      exps == {i \in DOMAIN f.text : f.text[i] = IF f.as = "E" THEN "E" ELSE "e"}
      end == IF exps = {} THEN Len(f.text) ELSE (CHOOSE i \in exps : TRUE) - 1
      mant == SubSeq(f.text, 1, end)
      points == {i \in DOMAIN mant : mant[i] = "."}
      int == IF points = {} THEN mant ELSE SubSeq(mant, 1, (CHOOSE i \in points : TRUE) - 1)
      k == Len(DigitsOf(mant)) - Len(DigitsOf(int))
      x == IF exps = {} THEN 0
           ELSE LET e == SubSeq(f.text, end + 2, Len(f.text)) IN
                IF e[1] = "-" THEN -ValueOf(e, 10) ELSE ValueOf(e, 10)
      s == Larger(v.d, AtLeast0(k - x))
      unit == 10 ^ (x - k + s)
      asked == IF f.precision = -1 THEN 6 ELSE f.precision
      g == "TYPE_G" \in f.flags
  IN /\ 2 * Abs(ValueOf(mant, 10) * unit - Abs(v.n) * 10 ^ (s - v.d)) <= unit
     /\ (exps # {} /\ v.n # 0) => ValueOf(int, 10) \in 1 .. 9
     /\ "TYPE_E" \in f.flags => exps # {}
     /\ ~g => k = IF asked > FracDigits THEN FracDigits ELSE asked
     /\ (g /\ asked \in 1 .. FracDigits /\ v.n # 0) =>
          /\ (exps = {}) <=> Magnitude(ValueOf(mant, 10)) + x - k \in -4 .. asked - 1
          /\ "NUM" \notin f.flags /\ k > 0 => Last(mant) # "0"

\* A string is cut to the precision, and the rest is padding.
StringAsAsked(f) ==
  Padded(f, IF f.precision = -1 \/ Len(f.value) < f.precision THEN f.value
            ELSE SubSeq(f.value, 1, f.precision))

\* Nothing is shorter than its "Minimum field width" (lines 964, 1239) but what
\* TakenTwice names, and a character, to which the code gives none although C99 does
\* (line 790); a string is laid out as its flags, width and precision ask.
FieldsLaidOut ==
  \A k \in DOMAIN out.fields :
    LET f == out.fields[k] IN
    /\ f.as = "c" \/ TakenTwice(f) \/ Len(f.text) >= f.width
    /\ (f.as = "s" /\ f.value # NullPtr) => StringAsAsked(f)

IntegersAsAsked ==
  \A k \in DOMAIN out.fields :
    out.fields[k].as \in {"d", "i", "u", "o", "x", "X"} => IntegerAsAsked(out.fields[k])

FractionsAsAsked ==
  \A k \in DOMAIN out.fields :
    LET f == out.fields[k] IN
    f.as \in {"f", "e", "g", "E"} =>
      /\ FloatLaidOut(f)
      /\ f.value.kind = "fraction" => FractionAsAsked(f)

\* What a conversion prints has the padding, the sign, the prefix, the precision and
\* the style that its flags, width and precision ask for, by the rules of C99 which
\* the comments quote (lines 943-976, 1161-1184), and a number reads back as the
\* argument, whatever conversions came before it.  Where the code prints something
\* else than C99 asks for, this is what it does instead: the one digit of a zero, a
\* character without its width, and what TakenTwice names.
FieldAsAsked == FieldsLaidOut /\ IntegersAsAsked /\ FractionsAsAsked

\* Every format is read to its end, or to an overflow: each step consumes a
\* character or takes the reader on to a state that comes later, so that none
\* waits for a character it does not consume (lines 577-873).
Rank == [default |-> 2, flags |-> 7, width |-> 6, dot |-> 5, precision |-> 4, mod |-> 3,
         conv |-> 2, out |-> 1, done |-> 0]
Remaining ==
  (IF pass = "measure" THEN 8 * Len(call.format) + 8 ELSE 0)
  + 8 * (Len(call.format) + 1 - pos) + Rank[state]

ReaderAdvances == [][Remaining' < Remaining /\ pos' <= Len(call.format) + 1]_vars
============================================================================
