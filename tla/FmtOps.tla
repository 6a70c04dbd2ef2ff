------------------------------ MODULE FmtOps ------------------------------
(***************************************************************************)
(* The conversions of pocs/poc_snprintf_holger_weiss.c as operators: what  *)
(* fmtstr, fmtint and fmtflt pass to OUTCHAR, one after the other, for a   *)
(* value, a width, a precision (-1: none) and a set of flags.              *)
(*                                                                         *)
(* A character is a string of length one.  A floating point number is a    *)
(* decimal fraction n / 10^d, an infinity (n # 0) or a NaN: the arithmetic *)
(* on it is exact, the roundings of long double are left out.  Digits are  *)
(* kept most significant first, which is the order they are printed in.    *)
(***************************************************************************)
EXTENDS Integers, SequencesExt

CONSTANTS
  MaxBits,      \* width of UINTMAX_T
  FracDigits,   \* its decimal digits less one: 9, 19 or 38 (lines 1106-1117)
  ThousandsSep  \* localeconv()->thousands_sep

UIntMax == 2 ^ MaxBits - 1

ASSUME FmtAssumption ==
  /\ MaxBits \in Nat \ {0} /\ FracDigits \in Nat
  /\ 10 ^ FracDigits <= UIntMax
  /\ ThousandsSep \in Seq(STRING)

MaxConvert == 43

\* The octal digits of UINTMAX_T: an integer of 128 bits fits into the buffer of convert
\* (line 471).  And the laws of powers, of which the provers know nothing.
OctalDigits == MaxBits \div 3 + 1
ASSUME PowersAssumption ==
  /\ OctalDigits <= MaxConvert
  /\ \A b \in {8, 10, 16} : /\ b ^ 0 = 1 /\ 2 ^ MaxBits <= b ^ OctalDigits
                           /\ \A k \in 1 .. OctalDigits : b ^ k = b * b ^ (k - 1)
  /\ 2 ^ 0 = 1 /\ \A n \in 1 .. MaxBits : 2 ^ n = 2 * 2 ^ (n - 1)

MaxExp == 4932  \* LDBL_MAX_10_EXP, where getexponent stops
AtLeast0(n) == IF n < 0 THEN 0 ELSE n
Larger(a, b) == IF a >= b THEN a ELSE b
Times(c, n) == [i \in 1 .. n |-> c]
When(c, s) == IF c THEN s ELSE <<>>

Lower == <<"0", "1", "2", "3", "4", "5", "6", "7", "8", "9", "a", "b", "c", "d", "e", "f">>
Upper == <<"0", "1", "2", "3", "4", "5", "6", "7", "8", "9", "A", "B", "C", "D", "E", "F">>

\* The digits of value, the last size of them if there are more.
Convert(value, size, base, caps) ==
  LET n == CHOOSE k \in 1 .. size :
             /\ base ^ k > value \/ k = size
             /\ \A j \in 1 .. k - 1 : ~(base ^ j > value)
  IN  [i \in 1 .. n |-> (IF caps THEN Upper ELSE Lower)[((value \div base ^ (n - i)) % base) + 1]]

GetNumSep(digits) == ((digits - IF digits % 3 = 0 THEN 1 ELSE 0) \div 3) * Len(ThousandsSep)

\* digits as printed: printsep comes after each digit that is followed by a
\* positive multiple of three.
Grouped(digits, separators) ==
  LET n == Len(digits) IN
  FlattenSeq([i \in 1 .. n |->
    <<digits[i]>> \o When(separators > 0 /\ n - i > 0 /\ (n - i) % 3 = 0, ThousandsSep)])

Sign(negative, flags) ==
  CASE negative -> <<"-">>
    [] ~negative /\ "PLUS" \in flags -> <<"+">>
    [] ~negative /\ "PLUS" \notin flags /\ "SPACE" \in flags -> <<" ">>
    [] OTHER -> <<>>

----------------------------------------------------------------------------
\* fmtstr
NullPtr == <<"NULL">>

FmtStr(value, width, precision, flags) ==
  LET v == IF value = NullPtr THEN <<"(", "n", "u", "l", "l", ")">> ELSE value
      strln == IF precision = -1 \/ Len(v) < precision THEN Len(v) ELSE precision
      pad == Times(" ", AtLeast0(width - strln))
      left == "MINUS" \in flags
  IN  When(~left, pad) \o SubSeq(v, 1, strln) \o When(left, pad)

\* Mutant: a precision does not rule out the flag 0.
ZeroFilledAnyway(flags, precision) == "MINUS" \notin flags /\ "ZERO" \in flags

\* An integer is filled up with zeros, not with blanks.
ZeroFilled(flags, precision) ==
  "MINUS" \notin flags /\ "ZERO" \in flags /\ precision = -1

FmtInt(value, base, width, precision, flags) ==
  LET unsigned == "UNSIGNED" \in flags
      uvalue == (IF unsigned \/ value >= 0 THEN value ELSE -value) % 2 ^ MaxBits
      sign == When(~unsigned, Sign(value < 0, flags))
      up == "UP" \in flags
      digits == Convert(uvalue, MaxConvert, base, up)
      pos == Len(digits)
      alt == "NUM" \in flags /\ uvalue # 0
      prec == IF alt /\ base = 8 /\ precision <= pos THEN pos + 1 ELSE precision
      hexprefix == When(alt /\ base = 16, <<"0", IF up THEN "X" ELSE "x">>)
      separators == IF "QUOTE" \in flags THEN GetNumSep(pos) ELSE 0
      zpadlen == AtLeast0(prec - pos - separators)
      spadlen == AtLeast0(width - separators - Larger(prec, pos) - Len(sign) - Len(hexprefix))
      left == "MINUS" \in flags
      zeros == ZeroFilled(flags, precision)
  IN  When(~left /\ ~zeros, Times(" ", spadlen))
      \o sign \o hexprefix
      \o Times("0", zpadlen + IF zeros THEN spadlen ELSE 0)
      \o Grouped(digits, separators)
      \o When(left, Times(" ", spadlen))

----------------------------------------------------------------------------
\* fmtflt

\* The decimal exponent of n / 10^d, 0 for zero: below 10^(e+1), not below 10^e.
Magnitude(n) == CHOOSE k \in 0 .. MaxExp : /\ 10 ^ (k + 1) > n \/ k = MaxExp
                                           /\ \A j \in 0 .. k - 1 : ~(10 ^ (j + 1) > n)
GetExponent(n, d) == IF n = 0 THEN 0 ELSE Magnitude(n) - d

\* n / 10^d divided by 10^exponent
Scaled(n, d, exponent) ==
  IF d + exponent >= 0 THEN <<n, d + exponent>> ELSE <<n * 10 ^ (-(d + exponent)), 0>>

\* cast drops the fraction, myround rounds half up.
Parts(n, d, precision) ==
  LET whole == n \div 10 ^ d
      mask == 10 ^ precision
      frac == (2 * mask * (n % 10 ^ d) + 10 ^ d) \div (2 * 10 ^ d)
  IN  IF frac >= mask THEN [int |-> whole + 1, frac |-> 0] ELSE [int |-> whole, frac |-> frac]

\* From the label again to the rounded parts; the exponent grows if the mantissa
\* was rounded up to ten.
Rounded(n, d, estyle, exponent, precision) ==
  LET v == Scaled(n, d, IF estyle THEN exponent ELSE 0)
      prec == IF precision > FracDigits THEN FracDigits ELSE precision
      p == Parts(v[1], v[2], prec)
      ten == estyle /\ p.int = 10
  IN  [estyle |-> estyle, int |-> IF ten THEN 1 ELSE p.int, frac |-> p.frac,
       exponent |-> IF ten THEN exponent + 1 ELSE exponent, precision |-> prec,
       overflow |-> v[1] \div 10 ^ v[2] >= UIntMax]

\* %g decides for one of the styles when it knows the exponent, and starts again
\* from the value if it is not the e-style.
Styled(n, d, precision, flags) ==
  LET g == "TYPE_G" \in flags
      e == g \/ "TYPE_E" \in flags
      prec == (IF precision = -1 THEN 6 ELSE IF g /\ precision = 0 THEN 1 ELSE precision)
              - (IF g THEN 1 ELSE 0)
      first == Rounded(n, d, e, IF e THEN GetExponent(n, d) ELSE 0, prec)
      again == /\ g /\ ~first.overflow
               /\ first.precision + 1 > first.exponent /\ first.exponent >= -4
  IN  IF again THEN Rounded(n, d, FALSE, 0, first.precision - first.exponent) ELSE first

Exponent(exponent, flags) ==
  LET digits == Convert(IF exponent < 0 THEN -exponent ELSE exponent, 3, 10, FALSE) IN
  <<IF "UP" \in flags THEN "E" ELSE "e", IF exponent < 0 THEN "-" ELSE "+">>
  \o When(Len(digits) = 1, <<"0">>) \o digits

\* How many of the last characters of s are zeros.
TrailingZeros(s) ==
  CHOOSE k \in 0 .. Len(s) : /\ \A i \in Len(s) - k + 1 .. Len(s) : s[i] = "0"
                             /\ k = Len(s) \/ s[Len(s) - k] # "0"

Fraction(n, d) == [kind |-> "fraction", n |-> n, d |-> d]
Infinite(sign) == [kind |-> "inf", n |-> sign, d |-> 0]
NotANumber == [kind |-> "nan", n |-> 0, d |-> 0]
Floating == [kind : {"fraction", "inf", "nan"}, n : Int, d : Nat]

InfNan(fvalue, flags) ==
  LET up == "UP" \in flags IN
  IF fvalue.kind = "nan" THEN IF up THEN <<"N", "A", "N">> ELSE <<"n", "a", "n">>
  ELSE IF up THEN <<"I", "N", "F">> ELSE <<"i", "n", "f">>

\* From the digits of the parts to what is printed.
FloatText(sign, ipart, fpart, epart, precision, width, flags) ==
  LET omitzeros == "TYPE_G" \in flags /\ "NUM" \notin flags
      omitcount == IF ~omitzeros THEN 0
                   ELSE IF fpart # <<>> THEN TrailingZeros(fpart) ELSE precision
      leadfraczeros == IF omitzeros /\ fpart = <<>> THEN 0 ELSE precision - Len(fpart)
      prec == precision - omitcount
      point == When(prec > 0 \/ "NUM" \in flags, <<".">>)
      separators == IF "QUOTE" \in flags THEN GetNumSep(Len(ipart)) ELSE 0
      padlen == AtLeast0(width - Len(ipart) - Len(epart) - prec - separators
                         - Len(point) - Len(sign))
      left == "MINUS" \in flags
      zeros == ~left /\ "ZERO" \in flags
  IN  When(~left /\ ~zeros, Times(" ", padlen)) \o sign
      \o When(zeros, Times("0", padlen))
      \o Grouped(ipart, separators) \o point
      \o Times("0", leadfraczeros)
      \o SubSeq(fpart, 1, Len(fpart) - omitcount)
      \o epart \o When(left, Times(" ", padlen))

FloatOf(v, sign, width, flags) ==
  [overflow |-> v.overflow,
   text |-> FloatText(sign, Convert(v.int, MaxConvert, 10, FALSE),
                      When(v.frac # 0, Convert(v.frac, MaxConvert, 10, FALSE)),
                      When(v.estyle, Exponent(v.exponent, flags)), v.precision, width, flags)]

FmtFlt(fvalue, width, precision, flags) ==
  LET n == fvalue.n
      sign == Sign(n < 0, flags)
  IN  IF fvalue.kind = "fraction"
      THEN FloatOf(Styled(IF n < 0 THEN -n ELSE n, fvalue.d, precision, flags), sign, width, flags)
      ELSE [overflow |-> FALSE,
            text |-> FmtStr(sign \o InfNan(fvalue, flags), width, -1, flags)]
============================================================================
