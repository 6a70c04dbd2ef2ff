------------------------------ MODULE MCPrintf ------------------------------
(* Integer types of 4 to 8 bits, so that INT_MAX is 31; formats of one       *)
(* conversion with all its parts, pairs of conversions, and all short        *)
(* sequences of the characters the reader treats apart, well-formed or not.  *)
EXTENDS Vsnprintf

MCSep == <<",">>
MCBits == [char |-> 4, short |-> 5, int |-> 6, long |-> 8]

Fmt(f, a) == [format |-> f, args |-> a]

IntFlags == {<<>>, <<"-", "0">>, <<"0">>, <<"+">>, <<" ", "#">>, <<"0", "'">>, <<"#", "-">>}
IntWidths == {<<>>, <<"7">>, <<"*">>}
IntPrecisions == {<<>>, <<".", "3">>, <<".", "*">>, <<".">>}
Mods == {<<>>, <<"h", "h">>, <<"l", "l">>}

Stars(w, p, n) == (IF w = <<"*">> THEN <<n>> ELSE <<>>) \o (IF p = <<".", "*">> THEN <<n>> ELSE <<>>)

Ints ==
  {Fmt(<<"%">> \o fl \o w \o p \o m \o <<c>>, Stars(w, p, n) \o <<v>>) :
     fl \in IntFlags, w \in IntWidths, p \in IntPrecisions, m \in Mods,
     c \in {"d", "o", "x"}, n \in {-5, 6}, v \in {0, -12, 29}}

Floats ==
  {Fmt(<<"%">> \o fl \o w \o p \o <<c>>, <<v>>) :
     fl \in {<<>>, <<"0">>, <<"#", "-">>, <<"+">>, <<" ", "0">>, <<"0", "-">>},
     w \in {<<>>, <<"9">>}, c \in {"f", "e", "g", "E"},
     p \in {<<>>, <<".", "0">>, <<".", "1">>, <<".", "2">>},
     v \in {Fraction(0, 0), Fraction(9996, 3), Fraction(-95, 1), Fraction(12, 4),
            Fraction(500, 0), Fraction(999, 1), Infinite(-1), NotANumber, Fraction(2000, 0)}}

Strings ==
  {Fmt(<<"%">> \o fl \o w \o p \o <<"s">>, <<v>>) :
     fl \in {<<>>, <<"-">>}, w \in {<<>>, <<"4">>}, p \in {<<>>, <<".", "2">>, <<".", "0">>},
     v \in {<<>>, <<"x", "y", "z">>, NullPtr}}

Pairs ==
  {Fmt(<<"x", "%", "-", "#", "4">> \o a \o <<"%">> \o b \o <<"%", "n">>, <<13, 9, 0>>) :
     a \in {<<"x">>, <<"o">>, <<"u">>, <<"l", "d">>, <<"p">>},
     b \in {<<"X">>, <<"o">>, <<"u">>, <<"d">>, <<"3", "5", "d">>, <<"3", "0", "i">>, <<"p">>, <<"%">>}}
  \cup {Fmt(<<"%", "p", "%", "h", "n">>, <<0, 0>>), Fmt(<<"%", "-", "c", "%", "c">>, <<"x", "y">>)}

Raw == UNION {[1 .. n -> {"%", "h", "3", ".", "-", "d", "*"}] : n \in 0 .. 4}
Malformed == {Fmt(f, <<2, 3, 4, 5>>) : f \in Raw}

Quoted ==
  {Fmt(<<"%", "'", "9", ".", "7", "l", "l", "d">>, <<v>>) : v \in {500, -1000}}
  \cup {Fmt(<<"%", "'", "9", "l", "l", "u">>, <<1000>>),
        Fmt(<<"%", "'", "#", "9", "l", "l", "o">>, <<1000>>),
        Fmt(<<"%", "'", "#", "0", "9", "l", "l", "o">>, <<1000>>),
        Fmt(<<"%", "'", "9", ".", "1", "f">>, <<Fraction(9996, 1)>>),
        Fmt(<<"%", "f", "x">>, <<Fraction(2047, 0)>>)}

\* Numbers from * at the ends of the range of int.
Extreme ==
  {Fmt(<<"%">> \o fl \o <<"*", c>>, <<n, v[c]>>) :
     fl \in {<<>>, <<"0">>}, n \in {31, 30, -31, -32},
     c \in {"d", "s", "f"}, v \in {[d |-> -7, s |-> <<"x">>, f |-> Fraction(5, 1)]}}
  \cup {Fmt(<<"%", ".", "*", c>>, <<n, v[c]>>) :
     n \in {31, 30, -32}, c \in {"d", "s"}, v \in {[d |-> 7, s |-> <<"x", "y">>]}}
  \cup {Fmt(<<"%", "*", ".", "*", "d", "%", "n">>, <<n, p, 7, 0>>) :
     n \in {31, -32}, p \in {31, -32}}

MCNegatedMin == 32

MCCalls ==
  Ints \cup Floats \cup Strings \cup Pairs \cup Malformed \cup Quoted \cup Extreme
============================================================================
