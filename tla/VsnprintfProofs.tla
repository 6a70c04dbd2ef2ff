-------------------------- MODULE VsnprintfProofs --------------------------
(* Proofs about Vsnprintf, for every format, whatever the arguments: the     *)
(* reader comes to its end, the buffer is never overrun, the second pass of  *)
(* asprintf goes the way of the first, conversions fill their width, and     *)
(* integers read back as the arguments.                                      *)
EXTENDS Vsnprintf, NatLemmas, SequenceTheorems

----------------------------------------------------------------------------
\* The reader's place

\* The format is a sequence and pos is in it or right behind its end.
PlaceOK ==
  /\ call.format \in Seq(STRING)
  /\ pos \in 1 .. Len(call.format) + 1
  /\ state \in DOMAIN Rank
  /\ pass \in {"measure", "write"}

\* A step consumes n characters of the same format in the same pass.
Moves(n, next) ==
  /\ call' = call /\ pass' = pass
  /\ pos' = pos + n /\ state' = next

Advance == Remaining' < Remaining /\ pos' <= Len(call.format) + 1

LEMMA Ranks ==
  /\ DOMAIN Rank = {"default", "flags", "width", "dot", "precision", "mod", "conv", "out", "done"}
  /\ Rank["default"] = 2 /\ Rank["flags"] = 7 /\ Rank["width"] = 6 /\ Rank["dot"] = 5
  /\ Rank["precision"] = 4 /\ Rank["mod"] = 3 /\ Rank["conv"] = 2 /\ Rank["out"] = 1
  /\ Rank["done"] = 0
  BY DEF Rank

\* A character that is not NUL is one of the format.
LEMMA InFormat ==
  ASSUME PlaceOK, NEW p \in Nat, p >= 1, ChAt(p) # NUL
  PROVE  p <= Len(call.format)
  <1>1. Len(call.format) \in Nat
    BY DEF PlaceOK
  <1> QED
    BY <1>1 DEF ChAt

\* A step that moves on, or stays and takes the reader to a later state.
LEMMA MoveAdvances ==
  ASSUME PlaceOK, NEW n \in {0, 1, 2}, NEW next \in DOMAIN Rank, Moves(n, next),
         pos + n <= Len(call.format) + 1,
         n > 0 \/ Rank[next] < Rank[state],
         n > 0 => Rank[next] - Rank[state] <= 7
  PROVE  Advance /\ PlaceOK'
  <1> DEFINE L == Len(call.format)
             M == IF pass = "measure" THEN 8 * L + 8 ELSE 0
  <1>1. L \in Nat /\ pos \in Nat /\ pos >= 1 /\ M \in Nat
    BY DEF PlaceOK
  <1>2. Rank[next] \in Int /\ Rank[state] \in Int
    BY Ranks DEF PlaceOK
  <1>3. Remaining = M + 8 * (L + 1 - pos) + Rank[state]
    BY DEF Remaining
  <1>4. Remaining' = M + 8 * (L + 1 - (pos + n)) + Rank[next]
    BY DEF Remaining, Moves
  <1>5. Remaining' < Remaining
    <2> HIDE DEF L, M
    <2>1. CASE n = 0
      BY <1>1, <1>2, <1>3, <1>4, <2>1
    <2>2. CASE n = 1
      BY <1>1, <1>2, <1>3, <1>4, <2>2
    <2>3. CASE n = 2
      BY <1>1, <1>2, <1>3, <1>4, <2>3
    <2> QED
      BY <2>1, <2>2, <2>3
  <1>6. pos' = pos + n /\ pos + n \in 1 .. L + 1
    BY <1>1 DEF Moves
  <1> QED
    BY <1>5, <1>6 DEF Advance, PlaceOK, Moves

----------------------------------------------------------------------------
\* The states of the reader

LEMMA ReaderMoves ==
  ASSUME PlaceOK, Default \/ Flags \/ Width \/ Dot \/ Precision
  PROVE  Advance /\ PlaceOK'
  <1>0. Ch # NUL
    BY DEF Default, Flags, Width, Dot, Precision
  <1>1. pos + 1 <= Len(call.format) + 1 /\ pos + 0 <= Len(call.format) + 1 /\ pos + 0 = pos
    BY <1>0, InFormat DEF PlaceOK, Ch
  <1>2. CASE Default
    <2>1. Moves(1, "flags") \/ Moves(1, "default")
      BY <1>2 DEF Default, Moves, Calling
    <2> QED
      BY <1>1, <1>2, <2>1, MoveAdvances, Ranks DEF Default
  <1>3. CASE Flags
    <2>1. Moves(1, "flags") \/ Moves(0, "width")
      BY <1>1, <1>3 DEF Flags, Read, Moves, Calling
    <2> QED
      BY <1>1, <1>3, <2>1, MoveAdvances, Ranks DEF Flags
  <1>4. CASE Width
    <2>1. Moves(1, "width") \/ Moves(0, "out") \/ Moves(1, "dot") \/ Moves(0, "dot")
      BY <1>1, <1>4 DEF Width, Read, Overflow, Moves, Calling
    <2> QED
      BY <1>1, <1>4, <2>1, MoveAdvances, Ranks DEF Width
  <1>5. CASE Dot
    <2>1. Moves(1, "precision") \/ Moves(0, "mod")
      BY <1>1, <1>5 DEF Dot, Read, Moves, Calling
    <2> QED
      BY <1>1, <1>5, <2>1, MoveAdvances, Ranks DEF Dot
  <1>6. CASE Precision
    <2>1. Moves(1, "precision") \/ Moves(0, "out") \/ Moves(1, "mod") \/ Moves(0, "mod")
      BY <1>1, <1>6 DEF Precision, Read, Overflow, Moves, Calling
    <2> QED
      BY <1>1, <1>6, <2>1, MoveAdvances, Ranks DEF Precision
  <1> QED
    BY <1>2, <1>3, <1>4, <1>5, <1>6

\* A modifier is two characters only if the second is there.
LEMMA ModMoves ==
  ASSUME PlaceOK, Mod
  PROVE  Advance /\ PlaceOK'
  <1> DEFINE n == Modifier(Ch, ChAt(pos + 1), conv.cflags)[2]
  <1>1. pos \in Nat /\ pos >= 1 /\ Ch # NUL /\ state = "mod"
    BY DEF PlaceOK, Mod
  <1>2. pos <= Len(call.format) /\ Len(call.format) \in Nat
    BY <1>1, InFormat DEF Ch, PlaceOK
  <1>3. \/ n \in {0, 1}
        \/ n = 2 /\ ChAt(pos + 1) = Ch
    BY DEF Modifier
  <1>4. pos + n <= Len(call.format) + 1 /\ n \in {0, 1, 2}
    <2>1. CASE n \in {0, 1}
      BY <1>1, <1>2, <2>1
    <2>2. CASE n = 2 /\ ChAt(pos + 1) = Ch
      <3>1. pos + 1 <= Len(call.format)
        BY <1>1, <2>2, InFormat
      <3> QED
        BY <1>1, <1>2, <2>2, <3>1
    <2> QED
      BY <1>3, <2>1, <2>2
  <1>5. Moves(n, "conv")
    BY DEF Mod, Read, Moves, Calling
  <1> QED
    BY <1>1, <1>4, <1>5, MoveAdvances, Ranks

\* A conversion consumes its character and goes back to the start, or is out.
LEMMA ConversionMoves ==
  ASSUME PlaceOK,
         \/ ConvSigned \/ ConvUnsigned \/ ConvFloat \/ ConvChar \/ ConvString \/ ConvPointer
         \/ ConvCount \/ ConvOther
  PROVE  Advance /\ PlaceOK'
  <1>0. Ch # NUL /\ state = "conv"
    BY DEF NUL, ConvSigned, ConvUnsigned, ConvFloat, ConvChar, ConvString, ConvPointer, ConvCount,
           ConvOther
  <1>1. pos + 1 <= Len(call.format) + 1 /\ pos + 0 <= Len(call.format) + 1 /\ pos + 0 = pos
    BY <1>0, InFormat DEF PlaceOK, Ch
  <1>2. ASSUME NEW c, Converted(c)
        PROVE  Moves(1, "default")
    BY <1>2 DEF Converted, Moves, Calling
  <1>3. ASSUME NEW text, NEW c, Convert1(text, c)
        PROVE  Moves(1, "default")
    BY <1>2, <1>3 DEF Convert1
  <1>4. ConvSigned => Moves(1, "default")
    BY <1>3 DEF ConvSigned
  <1>5. ConvUnsigned => Moves(1, "default")
    BY <1>3 DEF ConvUnsigned
  <1>6. ConvFloat => Moves(1, "default") \/ Moves(0, "out")
    <2> SUFFICES ASSUME ConvFloat PROVE Moves(1, "default") \/ Moves(0, "out")
      OBVIOUS
    <2>1. PICK c, r : \/ Convert1(r, c)
                      \/ Read(c, "out") /\ UNCHANGED pos
      BY DEF ConvFloat
    <2>2. CASE Read(c, "out") /\ UNCHANGED pos
      BY <1>1, <2>2 DEF Read, Moves, Calling
    <2> QED
      BY <1>3, <2>1, <2>2
  <1>7. ConvChar => Moves(1, "default")
    BY <1>3 DEF ConvChar
  <1>8. ConvString => Moves(1, "default")
    BY <1>3 DEF ConvString
  <1>9. ConvPointer => Moves(1, "default")
    BY <1>3 DEF ConvPointer
  <1>10. ConvCount \/ ConvOther => Moves(1, "default")
    BY <1>2 DEF ConvCount, ConvOther
  <1>11. Moves(1, "default") \/ Moves(0, "out")
    BY <1>4, <1>5, <1>6, <1>7, <1>8, <1>9, <1>10
  <1> QED
    BY <1>0, <1>1, <1>11, MoveAdvances, Ranks

\* The end of the format and of a pass.  The second pass of asprintf starts over,
\* but there is no third.
LEMMA EndMoves ==
  ASSUME PlaceOK, EndOfFormat \/ Return \/ Allocate \/ GiveUp
  PROVE  Advance /\ PlaceOK'
  <1>1. pos + 0 <= Len(call.format) + 1 /\ pos + 0 = pos /\ Len(call.format) \in Nat /\ pos \in Nat
    BY DEF PlaceOK
  <1>2. CASE EndOfFormat
    <2>1. Moves(0, "out") /\ Rank["out"] < Rank[state]
      BY <1>1, <1>2, Ranks DEF EndOfFormat, Moves, Calling, PlaceOK
    <2> QED
      BY <1>1, <2>1, MoveAdvances, Ranks
  <1>3. CASE Return \/ GiveUp
    <2>1. Moves(0, "done") /\ Rank["done"] < Rank[state]
      BY <1>1, <1>3, Ranks DEF Return, GiveUp, Moves, Calling
    <2> QED
      BY <1>1, <2>1, MoveAdvances, Ranks
  <1>4. CASE Allocate
    <2> DEFINE L == Len(call.format)
    <2>1. /\ pass = "measure" /\ state = "out" /\ pass' = "write" /\ pos' = 1 /\ state' = "default"
          /\ call' = call
      BY <1>4 DEF Allocate
    <2>2. Remaining = (8 * L + 8) + 8 * (L + 1 - pos) + 1
      BY <2>1, Ranks DEF Remaining
    <2>3. Remaining' = 0 + 8 * (L + 1 - 1) + 2
      BY <2>1, Ranks DEF Remaining
    <2>4. Remaining' < Remaining
      <3> HIDE DEF L
      <3>1. L \in Nat /\ pos <= L + 1
        BY <1>1 DEF L
      <3> QED
        BY <1>1, <2>2, <2>3, <3>1
    <2> QED
      BY <1>1, <2>1, <2>4, Ranks DEF Advance, PlaceOK
  <1> QED
    BY <1>2, <1>3, <1>4

----------------------------------------------------------------------------
\* What the conversions print is a sequence of characters, whatever they print

IsSeq(s) == \E S : s \in Seq(S)

LEMMA SeqSize ==
  ASSUME NEW s, IsSeq(s)
  PROVE  Len(s) \in Nat /\ DOMAIN s = 1 .. Len(s)
  <1>1. PICK S : s \in Seq(S)
    BY DEF IsSeq
  <1> QED
    BY <1>1, LenProperties

LEMMA SeqEmpty == IsSeq(<<>>) /\ Len(<<>>) = 0
  <1>1. <<>> \in Seq({}) /\ Len(<<>>) = 0
    OBVIOUS
  <1> QED
    BY <1>1 DEF IsSeq

LEMMA SeqOne ==
  ASSUME NEW x
  PROVE  IsSeq(<<x>>) /\ Len(<<x>>) = 1
  <1>1. <<x>> \in Seq({x}) /\ Len(<<x>>) = 1
    OBVIOUS
  <1> QED
    BY <1>1 DEF IsSeq

LEMMA SeqTwo ==
  ASSUME NEW x, NEW y
  PROVE  IsSeq(<<x, y>>) /\ Len(<<x, y>>) = 2
  <1>1. <<x, y>> \in Seq({x, y}) /\ Len(<<x, y>>) = 2
    OBVIOUS
  <1> QED
    BY <1>1, Zenon DEF IsSeq

LEMMA SeqThree ==
  ASSUME NEW x, NEW y, NEW z
  PROVE  IsSeq(<<x, y, z>>)
  <1>1. <<x, y, z>> \in Seq({x, y, z})
    OBVIOUS
  <1> QED
    BY <1>1, Zenon DEF IsSeq

LEMMA SeqFive ==
  ASSUME NEW x, NEW y, NEW z, NEW u, NEW v
  PROVE  IsSeq(<<x, y, z, u, v>>)
  <1>1. <<x, y, z, u, v>> \in Seq({x, y, z, u, v})
    OBVIOUS
  <1> QED
    BY <1>1, Zenon DEF IsSeq

LEMMA SeqSix ==
  ASSUME NEW x, NEW y, NEW z, NEW u, NEW v, NEW w
  PROVE  IsSeq(<<x, y, z, u, v, w>>)
  <1>1. <<x, y, z, u, v, w>> \in Seq({x, y, z, u, v, w})
    OBVIOUS
  <1> QED
    BY <1>1, Zenon DEF IsSeq

\* A sequence may be taken for one of more characters.
LEMMA SeqMore ==
  ASSUME NEW S, NEW T, S \subseteq T, NEW s \in Seq(S)
  PROVE  s \in Seq(T)
  <1>1. Len(s) \in Nat /\ s \in [1 .. Len(s) -> S]
    BY LenProperties
  <1>2. s \in [1 .. Len(s) -> T]
    BY <1>1
  <1> QED
    BY <1>1, <1>2

LEMMA SeqConcat ==
  ASSUME NEW s, NEW t, IsSeq(s), IsSeq(t)
  PROVE  /\ IsSeq(s \o t) /\ Len(s \o t) = Len(s) + Len(t)
         /\ \A i \in 1 .. Len(s) + Len(t) :
              (s \o t)[i] = IF i <= Len(s) THEN s[i] ELSE t[i - Len(s)]
  <1>1. PICK S : s \in Seq(S)
    BY DEF IsSeq
  <1>2. PICK T : t \in Seq(T)
    BY DEF IsSeq
  <1> DEFINE U == S \cup T
  <1>3. S \subseteq U /\ T \subseteq U
    OBVIOUS
  <1> HIDE DEF U
  <1>4. s \in Seq(U) /\ t \in Seq(U)
    BY <1>1, <1>2, <1>3, SeqMore
  <1>5. s \o t \in Seq(U)
    BY <1>4, ConcatProperties
  <1>6. IsSeq(s \o t)
    BY <1>5, Zenon DEF IsSeq
  <1> QED
    BY <1>4, <1>6, ConcatProperties

LEMMA SeqWhen ==
  ASSUME NEW c, NEW s, IsSeq(s)
  PROVE  IsSeq(When(c, s)) /\ Len(When(c, s)) = IF c THEN Len(s) ELSE 0
  BY SeqEmpty DEF When

LEMMA SeqTimes ==
  ASSUME NEW c, NEW n \in Int
  PROVE  IsSeq(Times(c, n)) /\ Len(Times(c, n)) = AtLeast0(n)
  <1> DEFINE m == IF n < 0 THEN 0 ELSE n
             t == [i \in 1 .. m |-> c]
  <1>1. m \in Nat /\ 1 .. n = 1 .. m /\ m = AtLeast0(n)
    BY DEF AtLeast0
  <1>2. Times(c, n) = t
    BY <1>1 DEF Times
  <1> HIDE DEF m
  <1>3. t \in Seq({c}) /\ Len(t) = m
    BY <1>1
  <1>4. IsSeq(t)
    BY <1>3, Zenon DEF IsSeq
  <1> QED
    BY <1>1, <1>2, <1>3, <1>4

LEMMA SeqSub ==
  ASSUME NEW s, NEW n \in Int
  PROVE  IsSeq(SubSeq(s, 1, n)) /\ Len(SubSeq(s, 1, n)) = AtLeast0(n)
  <1> DEFINE S == {s[i] : i \in 1 .. n}
  <1>1. \A i \in 1 .. n : s[i] \in S
    OBVIOUS
  <1> HIDE DEF S
  <1>2. SubSeq(s, 1, n) \in Seq(S) /\ Len(SubSeq(s, 1, n)) = AtLeast0(n)
    BY <1>1, SubSeqProperties DEF AtLeast0
  <1>3. IsSeq(SubSeq(s, 1, n))
    BY <1>2, Zenon DEF IsSeq
  <1> QED
    BY <1>2, <1>3

LEMMA SeqSign ==
  ASSUME NEW negative \in BOOLEAN, NEW flags
  PROVE  IsSeq(Sign(negative, flags))
  BY SeqEmpty, SeqOne DEF Sign

\* convert fills at least one place of its buffer and at most all.
LEMMA SeqConvert ==
  ASSUME NEW value, NEW size_ \in Nat, size_ > 0, NEW base, NEW caps
  PROVE  IsSeq(Convert(value, size_, base, caps)) /\ Len(Convert(value, size_, base, caps)) > 0
  <1> DEFINE Full(k) == base ^ k > value \/ k = size_
             Fits(k) == /\ base ^ k > value \/ k = size_
                        /\ \A j \in 1 .. k - 1 : ~(base ^ j > value)
             S == {k \in 1 .. size_ : Full(k)}
             n == CHOOSE k \in 1 .. size_ : Fits(k)
             d(i) == (IF caps THEN Upper ELSE Lower)[((value \div base ^ (n - i)) % base) + 1]
             t == [i \in 1 .. n |-> d(i)]
  <1>1. \E k \in 1 .. size_ : Fits(k)
    <2>1. S \subseteq Nat /\ S # {}
      <3>1. size_ \in S
        OBVIOUS
      <3> QED
        BY <3>1
    <2>2. PICK k \in S : \A j \in S : k <= j
      <3> HIDE DEF S
      <3> QED
        BY <2>1, LeastElement
    <2>3. k \in 1 .. size_ /\ Full(k)
      OBVIOUS
    <2>4. ASSUME NEW j \in 1 .. k - 1 PROVE ~(base ^ j > value)
      <3>1. j \in 1 .. size_ /\ j < k
        BY <2>3
      <3>2. j \notin S
        <4> HIDE DEF S
        <4> QED
          BY <2>2, <2>3, <3>1
      <3> QED
        BY <3>1, <3>2
    <2> QED
      BY <2>3, <2>4
  <1> HIDE DEF Fits
  <1>2. n \in 1 .. size_
    BY <1>1
  <1>3. Convert(value, size_, base, caps) = t
    BY DEF Convert, Fits
  <1> HIDE DEF n, d
  <1> DEFINE D == {d(i) : i \in 1 .. n}
  <1>4. t \in Seq(D) /\ Len(t) > 0
    BY <1>2
  <1>5. IsSeq(t)
    BY <1>4, Zenon DEF IsSeq
  <1> QED
    BY <1>3, <1>4, <1>5

\* Sequences put one behind the other: the recursion of FlattenSeq has a solution.
FlatOf(flat, ss, n) ==
  /\ FlattenSeq(ss) = flat[n] /\ flat[1] = ss[1]
  /\ \A i \in 2 .. n : flat[i] = flat[i - 1] \o ss[i]

LEMMA FlattenIs ==
  ASSUME NEW n \in Nat, NEW ss, Len(ss) = n, n > 0
  PROVE  \E flat : FlatOf(flat, ss, n)
  <1> DEFINE Is(f, m) == f = [i \in 1 .. m |-> IF i = 1 THEN ss[i] ELSE f[i - 1] \o ss[i]]
             S == {m \in Nat : \E f : Is(f, m)}
             flat == CHOOSE f : Is(f, n)
  <1>1. 0 \in S
    <2>1. Is([i \in 1 .. 0 |-> 0], 0)
      BY 1 .. 0 = {}
    <2> QED
      BY <2>1
  <1>2. ASSUME NEW m \in Nat, m \in S
        PROVE  m + 1 \in S
    <2>1. PICK f : Is(f, m)
      BY <1>2
    <2> DEFINE last == IF m = 0 THEN ss[1] ELSE f[m] \o ss[m + 1]
               g == [i \in 1 .. m + 1 |-> IF i <= m THEN f[i] ELSE last]
               h == [i \in 1 .. m + 1 |-> IF i = 1 THEN ss[i] ELSE g[i - 1] \o ss[i]]
    <2>2. ASSUME NEW i \in 1 .. m + 1 PROVE g[i] = h[i]
      <3>1. CASE i = 1 /\ i <= m
        BY <2>1, <3>1
      <3>2. CASE i = 1 /\ ~(i <= m)
        <4>1. m = 0 /\ g[i] = last
          BY <3>2
        <4> QED
          BY <3>2, <4>1
      <3>3. CASE i # 1 /\ i <= m
        <4>1. i \in 1 .. m /\ i - 1 \in 1 .. m + 1 /\ i - 1 <= m
          BY <3>3
        <4>2. f[i] = f[i - 1] \o ss[i] /\ g[i - 1] = f[i - 1] /\ g[i] = f[i]
          BY <2>1, <3>3, <4>1
        <4> QED
          BY <3>3, <4>2
      <3>4. CASE i # 1 /\ ~(i <= m)
        <4>1. i = m + 1 /\ i - 1 = m /\ m # 0 /\ m \in 1 .. m + 1 /\ m <= m
          BY <3>4
        <4>2. g[m] = f[m] /\ g[i] = last
          BY <3>4, <4>1
        <4> QED
          BY <3>4, <4>1, <4>2
      <3> QED
        BY <3>1, <3>2, <3>3, <3>4
    <2>3. g = h
      BY <2>2
    <2>4. Is(g, m + 1)
      BY <2>3
    <2> HIDE DEF g, Is
    <2>5. \E f2 : Is(f2, m + 1)
      BY <2>4
    <2> QED
      BY <2>5
  <1>3. Nat \subseteq S
    <2> HIDE DEF S
    <2> QED
      BY <1>1, <1>2, SetInduction
  <1>4. Is(flat, n)
    <2>1. \E f : Is(f, n)
      BY <1>3
    <2> HIDE DEF Is
    <2> QED
      BY <2>1
  <1>5. FlattenSeq(ss) = flat[n]
    BY DEF FlattenSeq
  <1> HIDE DEF flat
  <1>6. flat[1] = ss[1]
    <2>1. 1 \in 1 .. n
      OBVIOUS
    <2> QED
      BY <1>4, <2>1
  <1>7. ASSUME NEW i \in 2 .. n PROVE flat[i] = flat[i - 1] \o ss[i]
    <2>1. i \in 1 .. n /\ i # 1
      OBVIOUS
    <2> QED
      BY <1>4, <2>1
  <1>8. FlatOf(flat, ss, n)
    BY <1>5, <1>6, <1>7 DEF FlatOf
  <1> QED
    BY <1>8

\* Each part of it is a sequence, and their lengths add up.
LEMMA SeqFlatten ==
  ASSUME NEW n \in Nat, NEW ss, Len(ss) = n, n = 0 => ss = <<>>,
         \A i \in 1 .. n : IsSeq(ss[i]),
         NEW total, total[0] = 0, \A i \in 1 .. n : total[i] = total[i - 1] + Len(ss[i])
  PROVE  IsSeq(FlattenSeq(ss)) /\ Len(FlattenSeq(ss)) = total[n]
  <1> SUFFICES ASSUME n # 0 PROVE IsSeq(FlattenSeq(ss)) /\ Len(FlattenSeq(ss)) = total[n]
    <2>1. CASE n = 0
      <3>1. FlattenSeq(ss) = ss
        BY <2>1 DEF FlattenSeq
      <3> QED
        BY <2>1, <3>1, SeqEmpty
    <2> QED
      BY <2>1
  <1>1. n > 0
    OBVIOUS
  <1>2. PICK flat : FlatOf(flat, ss, n)
    BY <1>1, FlattenIs
  <1> DEFINE OK(i) == IsSeq(flat[i]) /\ Len(flat[i]) = total[i]
             T == {i \in Nat : i + 1 <= n => OK(i + 1)}
  <1>6. 0 \in T
    <2>1. ASSUME 1 <= n PROVE OK(1)
      <3>1. 1 \in 1 .. n /\ 1 - 1 = 0
        BY <2>1
      <3>2. flat[1] = ss[1]
        BY <1>2 DEF FlatOf
      <3>3. IsSeq(ss[1])
        BY <3>1
      <3>4. total[1] = 0 + Len(ss[1]) /\ Len(ss[1]) \in Nat
        BY <3>1, <3>3, SeqSize
      <3> QED
        BY <3>2, <3>3, <3>4
    <2> HIDE DEF OK
    <2> QED
      BY <2>1
  <1>7. ASSUME NEW i \in Nat, i \in T
        PROVE  i + 1 \in T
    <2>1. ASSUME (i + 1) + 1 <= n PROVE OK((i + 1) + 1)
      <3> DEFINE k == (i + 1) + 1
                 j == i + 1
      <3>1. k \in 1 .. n /\ k \in 2 .. n /\ k - 1 = j /\ j <= n
        BY <2>1
      <3>2. flat[k] = flat[j] \o ss[k]
        BY <1>2, <3>1 DEF FlatOf
      <3>3. OK(j) /\ IsSeq(ss[k])
        BY <1>7, <3>1
      <3>4. total[k] = total[j] + Len(ss[k])
        BY <3>1
      <3> DEFINE x == flat[j]
                 y == ss[k]
      <3> HIDE DEF k, j
      <3>5. IsSeq(x) /\ IsSeq(y) /\ Len(x) = total[j]
        BY <3>3
      <3> HIDE DEF x, y
      <3>6. IsSeq(x \o y) /\ Len(x \o y) = Len(x) + Len(y)
        BY <3>5, SeqConcat
      <3>7. IsSeq(flat[k]) /\ Len(flat[k]) = total[k]
        BY <3>2, <3>4, <3>5, <3>6 DEF x, y
      <3> QED
        BY <3>7 DEF k
    <2> HIDE DEF OK
    <2> QED
      BY <2>1
  <1>8. OK(n)
    <2>1. Nat \subseteq T
      <3> HIDE DEF T
      <3> QED
        BY <1>6, <1>7, SetInduction
    <2>2. n - 1 \in Nat /\ (n - 1) + 1 = n
      BY <1>1
    <2>3. n - 1 \in T
      BY <2>1, <2>2
    <2> HIDE DEF OK
    <2> QED
      BY <2>2, <2>3
  <1> QED
    BY <1>2, <1>8 DEF FlatOf

LEMMA SeparatorsInt ==
  ASSUME NEW digits \in Nat
  PROVE  /\ GetNumSep(digits) \in Int
         /\ digits > 0 => /\ GetNumSep(digits) = ((digits - 1) \div 3) * Len(ThousandsSep)
                          /\ GetNumSep(digits) >= 0
  <1> DEFINE k == (digits - IF digits % 3 = 0 THEN 1 ELSE 0) \div 3
             m == (digits - 1) \div 3
             l == Len(ThousandsSep)
  <1>1. k \in Int /\ (digits > 0 => k = m /\ m \in Nat)
    OBVIOUS
  <1>2. l \in Nat
    BY FmtAssumption, LenProperties
  <1> HIDE DEF k, m, l
  <1>3. k * l \in Int /\ (k \in Nat => k * l >= 0)
    BY <1>1, <1>2
  <1>4. GetNumSep(digits) = k * l
    BY DEF GetNumSep, k, l
  <1>5. digits > 0 => k * l = m * l /\ k \in Nat
    BY <1>1
  <1> QED
    BY <1>3, <1>4, <1>5 DEF l, m

\* The separators there are places for are those that were counted.
LEMMA SeqGrouped ==
  ASSUME NEW digits, IsSeq(digits), NEW separators \in Int
  PROVE  /\ IsSeq(Grouped(digits, separators))
         /\ (Len(digits) > 0 /\ separators \in {0, GetNumSep(Len(digits))}) =>
              Len(Grouped(digits, separators)) = Len(digits) + separators
  <1> DEFINE n == Len(digits)
             l == Len(ThousandsSep)
             c(i) == separators > 0 /\ n - i > 0 /\ (n - i) % 3 = 0
             group(i) == <<digits[i]>> \o When(c(i), ThousandsSep)
             ss == [i \in 1 .. n |-> group(i)]
             before(i) == AtLeast0(n - 1) \div 3 - AtLeast0((n - i) - 1) \div 3
             places(i) == IF separators > 0 THEN before(i) ELSE 0
             total == [i \in 0 .. n |-> i + places(i) * l]
  <1>1. n \in Nat
    BY SeqSize
  <1>2. IsSeq(ThousandsSep) /\ l \in Nat
    <2>1. IsSeq(ThousandsSep)
      BY FmtAssumption, Zenon DEF IsSeq
    <2> QED
      BY <2>1, SeqSize
  <1>3. ASSUME NEW i \in 1 .. n
        PROVE  IsSeq(group(i)) /\ Len(group(i)) = 1 + IF c(i) THEN l ELSE 0
    <2> HIDE DEF c
    <2>1. IsSeq(When(c(i), ThousandsSep)) /\ IsSeq(<<digits[i]>>) /\ Len(<<digits[i]>>) = 1
          /\ Len(When(c(i), ThousandsSep)) = IF c(i) THEN l ELSE 0
      BY <1>2, SeqWhen, SeqOne
    <2> QED
      BY <2>1, SeqConcat
  <1>4. Grouped(digits, separators) = FlattenSeq(ss)
    BY DEF Grouped
  <1> HIDE DEF group, n, l
  <1>5. /\ Len(ss) = n
        /\ \A i \in 1 .. n : ss[i] = group(i)
    BY <1>1
  <1>6. n = 0 => ss = <<>>
    BY 1 .. 0 = {}
  <1> HIDE DEF ss
  <1>7. \A i \in 1 .. n : IsSeq(ss[i])
    BY <1>3, <1>5
  <1>8. total[0] = 0
    <2>1. places(0) = 0
      BY <1>1 DEF AtLeast0
    <2> HIDE DEF places
    <2>2. total[0] = 0 + 0 * l
      BY <1>1, <2>1
    <2> QED
      BY <1>2, <2>2
  <1>9. ASSUME NEW i \in 1 .. n
        PROVE  total[i] = total[i - 1] + Len(ss[i])
    <2>1. /\ i \in Int /\ i - 1 \in 0 .. n /\ i \in 0 .. n
          /\ places(i - 1) \in Nat
          /\ places(i) = IF c(i) THEN places(i - 1) + 1 ELSE places(i - 1)
      BY <1>1 DEF AtLeast0
    <2>2. Len(ss[i]) = 1 + IF c(i) THEN l ELSE 0
      BY <1>3, <1>5
    <2> DEFINE p == places(i)
               q == places(i - 1)
    <2>3. total[i] = i + p * l /\ total[i - 1] = (i - 1) + q * l
      BY <2>1
    <2> HIDE DEF total, c
    <2>4. q \in Nat /\ p = IF c(i) THEN q + 1 ELSE q
      BY <2>1
    <2> HIDE DEF p, q, places
    <2>5. (q + 1) * l = q * l + l /\ q * l \in Nat
      BY <1>2, <2>4, SuccTimes
    <2>6. CASE c(i)
      BY <1>2, <2>1, <2>2, <2>3, <2>4, <2>5, <2>6
    <2>7. CASE ~c(i)
      BY <1>2, <2>1, <2>2, <2>3, <2>4, <2>5, <2>7
    <2> QED
      BY <2>6, <2>7
  <1>10. n > 0 => total[n] = n + IF separators > 0 THEN GetNumSep(n) ELSE 0
    <2>1. places(n) = IF separators > 0 THEN AtLeast0(n - 1) \div 3 ELSE 0
      BY <1>1 DEF AtLeast0
    <2>2. total[n] = n + places(n) * l
      BY <1>1
    <2> HIDE DEF total, places
    <2>3. ASSUME n > 0 PROVE AtLeast0(n - 1) = n - 1 /\ GetNumSep(n) = ((n - 1) \div 3) * l
      BY <1>1, <2>3, SeparatorsInt DEF AtLeast0, l
    <2>4. 0 * l = 0
      BY <1>2
    <2>5. CASE separators > 0
      BY <2>1, <2>2, <2>3, <2>5
    <2>6. CASE ~(separators > 0)
      <3>1. places(n) = 0
        BY <2>1, <2>6
      <3>2. total[n] = n + 0
        BY <2>2, <2>4, <3>1
      <3> QED
        BY <2>6, <3>2
    <2> QED
      BY <2>5, <2>6
  <1> HIDE DEF total, places
  <1>11. IsSeq(FlattenSeq(ss)) /\ Len(FlattenSeq(ss)) = total[n]
    BY <1>1, <1>5, <1>6, <1>7, <1>8, <1>9, SeqFlatten
  <1>12. n > 0 => GetNumSep(n) \in Int /\ GetNumSep(n) >= 0
    BY <1>1, SeparatorsInt
  <1>13. (n > 0 /\ separators \in {0, GetNumSep(n)}) => total[n] = n + separators
    BY <1>1, <1>10, <1>12
  <1> QED
    BY <1>4, <1>11, <1>13 DEF n

\* Padding takes what is printed to the width.
LEMMA SeqFmtStr ==
  ASSUME NEW value, IsSeq(value), NEW width \in Int, NEW precision \in Int, NEW flags
  PROVE  /\ IsSeq(FmtStr(value, width, precision, flags))
         /\ precision >= -1 => Len(FmtStr(value, width, precision, flags)) >= width
  <1> DEFINE v == IF value = NullPtr THEN <<"(", "n", "u", "l", "l", ")">> ELSE value
             strln == IF precision = -1 \/ Len(v) < precision THEN Len(v) ELSE precision
             pad == Times(" ", AtLeast0(width - strln))
             left == "MINUS" \in flags
             a == When(~left, pad)
             m == SubSeq(v, 1, strln)
             b == When(left, pad)
  <1>1. FmtStr(value, width, precision, flags) = a \o m \o b
    BY DEF FmtStr
  <1>2. IsSeq(v)
    <2>1. IsSeq(<<"(", "n", "u", "l", "l", ")">>)
      BY SeqSix, Zenon
    <2> QED
      BY <2>1
  <1> HIDE DEF v
  <1>3. strln \in Int /\ (precision >= -1 => strln >= 0)
    BY <1>2, SeqSize
  <1> HIDE DEF strln
  <1>4. IsSeq(pad) /\ Len(pad) = AtLeast0(width - strln)
    <2> DEFINE n == AtLeast0(width - strln)
    <2>1. n \in Int /\ AtLeast0(n) = n
      BY <1>3 DEF AtLeast0
    <2> HIDE DEF n
    <2>2. IsSeq(Times(" ", n)) /\ Len(Times(" ", n)) = n
      BY <2>1, SeqTimes
    <2> QED
      BY <2>2 DEF n
  <1> HIDE DEF pad, left
  <1>5. IsSeq(a) /\ IsSeq(m) /\ IsSeq(b)
        /\ Len(a) + Len(b) = AtLeast0(width - strln) /\ Len(m) = AtLeast0(strln)
    <2>1. IsSeq(a) /\ Len(a) = IF ~left THEN Len(pad) ELSE 0
      BY <1>4, SeqWhen
    <2>2. IsSeq(b) /\ Len(b) = IF left THEN Len(pad) ELSE 0
      BY <1>4, SeqWhen
    <2>3. IsSeq(m) /\ Len(m) = AtLeast0(strln)
      BY <1>3, SeqSub
    <2> HIDE DEF a, m, b
    <2>4. AtLeast0(width - strln) \in Int
      BY <1>3 DEF AtLeast0
    <2> QED
      BY <1>4, <2>1, <2>2, <2>3, <2>4
  <1> HIDE DEF a, m, b
  <1>6. IsSeq(a \o m) /\ Len(a \o m) = Len(a) + Len(m)
    BY <1>5, SeqConcat
  <1>7. IsSeq(a \o m \o b) /\ Len(a \o m \o b) = Len(a) + Len(m) + Len(b)
    BY <1>5, <1>6, SeqConcat
  <1>8. Len(a) \in Nat /\ Len(m) \in Nat /\ Len(b) \in Nat
    BY <1>5, SeqSize
  <1>9. precision >= -1 => Len(a) + Len(m) + Len(b) >= width
    BY <1>3, <1>5, <1>8 DEF AtLeast0
  <1> QED
    BY <1>1, <1>7, <1>9

\* The zeros, and what the separators leave of the width, make up for each other,
\* unless zeros of a precision have taken the places of the separators.
LEMMA Room ==
  ASSUME NEW w \in Int, NEW p \in Int, NEW n \in Nat, NEW sep \in Nat, NEW s \in Nat, NEW x \in Nat
  PROVE  /\ AtLeast0(p - n - sep) \in Nat
         /\ AtLeast0(w - sep - Larger(p, n) - s - x) \in Nat
         /\ (sep = 0 \/ p <= n) =>
              AtLeast0(w - sep - Larger(p, n) - s - x) + s + x + AtLeast0(p - n - sep) + n + sep >= w
  BY DEF AtLeast0, Larger

\* The padding of a number, q characters c or zeros, goes to one of three places:
\* in front, behind, or to the p zeros d of the precision.
Padding(a, z, b, c, d, p, q, n) ==
  \/ a = <<>> /\ b = Times(c, q) /\ z = Times(d, p)
  \/ a = <<>> /\ b = <<>> /\ z = Times(d, n)
  \/ a = Times(c, q) /\ b = <<>> /\ z = Times(d, p)

LEMMA PaddingSum ==
  ASSUME NEW p \in Nat, NEW q \in Nat, NEW n \in Nat, n = p + q,
         NEW c, NEW d, NEW a, NEW b, NEW z, Padding(a, z, b, c, d, p, q, n)
  PROVE  /\ IsSeq(a) /\ IsSeq(b) /\ IsSeq(z)
         /\ Len(a) + Len(b) + Len(z) = n
  <1>1. ASSUME NEW m \in Nat
        PROVE  m \in Int /\ AtLeast0(m) = m
    BY <1>1 DEF AtLeast0
  <1>2. IsSeq(Times(c, q)) /\ Len(Times(c, q)) = q
    BY <1>1, SeqTimes
  <1>3. IsSeq(Times(d, p)) /\ Len(Times(d, p)) = p
    BY <1>1, SeqTimes
  <1>4. IsSeq(Times(d, n)) /\ Len(Times(d, n)) = n
    BY <1>1, SeqTimes
  <1> QED
    BY <1>2, <1>3, <1>4, SeqEmpty DEF Padding

LEMMA SeqFmtInt ==
  ASSUME NEW value, NEW base, NEW width \in Int, NEW precision \in Int, NEW flags
  PROVE  /\ IsSeq(FmtInt(value, base, width, precision, flags))
         /\ ~("QUOTE" \in flags /\ (precision > 0 \/ (base = 8 /\ "NUM" \in flags))) =>
              Len(FmtInt(value, base, width, precision, flags)) >= width
  <1> DEFINE unsigned == "UNSIGNED" \in flags
             uvalue == (IF unsigned \/ value >= 0 THEN value ELSE -value) % 2 ^ MaxBits
             sign == When(~unsigned, Sign(value < 0, flags))
             up == "UP" \in flags
             digits == Convert(uvalue, MaxConvert, base, up)
             n == Len(digits)
             alt == "NUM" \in flags /\ uvalue # 0
             prec == IF alt /\ base = 8 /\ precision <= n THEN n + 1 ELSE precision
             hexprefix == When(alt /\ base = 16, <<"0", IF up THEN "X" ELSE "x">>)
             separators == IF "QUOTE" \in flags THEN GetNumSep(n) ELSE 0
             zpadlen == AtLeast0(prec - n - separators)
             spadlen == AtLeast0(width - separators - Larger(prec, n) - Len(sign) - Len(hexprefix))
             left == "MINUS" \in flags
             zeros == ~left /\ "ZERO" \in flags /\ precision = -1
             c == " "
             d == "0"
             a == When(~left /\ ~zeros, Times(c, spadlen))
             z == Times(d, zpadlen + IF zeros THEN spadlen ELSE 0)
             g == Grouped(digits, separators)
             b == When(left, Times(c, spadlen))
             m == zpadlen + spadlen
             twice == "QUOTE" \in flags /\ (precision > 0 \/ (base = 8 /\ "NUM" \in flags))
  <1>1. FmtInt(value, base, width, precision, flags) = a \o sign \o hexprefix \o z \o g \o b
    BY DEF FmtInt, ZeroFilled
  <1> HIDE DEF c, d
  <1>2. IsSeq(digits) /\ Len(digits) > 0
    BY SeqConvert DEF MaxConvert
  <1> HIDE DEF digits, uvalue
  <1>3. IsSeq(sign) /\ Len(sign) \in Nat
    <2> DEFINE negative == value < 0
    <2>1. negative \in BOOLEAN
      OBVIOUS
    <2> HIDE DEF negative
    <2>2. IsSeq(Sign(negative, flags))
      BY <2>1, SeqSign
    <2> HIDE DEF unsigned
    <2>3. IsSeq(sign)
      BY <2>2, SeqWhen DEF negative
    <2> HIDE DEF sign
    <2> QED
      BY <2>3, SeqSize
  <1>4. IsSeq(hexprefix) /\ Len(hexprefix) \in Nat
    <2> DEFINE x == IF up THEN "X" ELSE "x"
    <2> HIDE DEF x, alt
    <2>2. IsSeq(<<"0", x>>)
      BY SeqTwo, Zenon
    <2>3. IsSeq(When(alt /\ base = 16, <<"0", x>>))
      BY <2>2, SeqWhen
    <2> HIDE DEF hexprefix
    <2>4. IsSeq(hexprefix)
      BY <2>3 DEF hexprefix, x
    <2> QED
      BY <2>4, SeqSize
  <1> HIDE DEF sign, hexprefix
  <1>5. n \in Nat /\ n > 0
    BY <1>2, SeqSize
  <1> HIDE DEF n
  <1>6. /\ separators \in Nat /\ separators \in {0, GetNumSep(n)} /\ prec \in Int
        /\ ~twice => separators = 0 \/ prec <= n
    <2>1. GetNumSep(n) \in Nat
      BY <1>5, SeparatorsInt
    <2> HIDE DEF alt
    <2>2. separators \in Nat /\ separators \in {0, GetNumSep(n)} /\ prec \in Int
      BY <1>5, <2>1
    <2>3. ASSUME ~twice, "QUOTE" \in flags PROVE prec <= n
      BY <1>5, <2>3 DEF alt
    <2> QED
      BY <2>2, <2>3
  <1> HIDE DEF separators, prec
  <1>7. /\ zpadlen \in Nat /\ spadlen \in Nat
        /\ ~twice => spadlen + Len(sign) + Len(hexprefix) + zpadlen + n + separators >= width
    BY <1>3, <1>4, <1>5, <1>6, Room
  <1> HIDE DEF alt, twice, zpadlen, spadlen
  <1>8. Padding(a, z, b, c, d, zpadlen, spadlen, m)
    <2>1. zpadlen + 0 = zpadlen
      BY <1>7
    <2> QED
      BY <2>1 DEF When, Padding
  <1> HIDE DEF a, b, z, left, zeros
  <1>9. /\ IsSeq(a) /\ IsSeq(b) /\ IsSeq(z)
        /\ Len(a) + Len(b) + Len(z) = zpadlen + spadlen
    <2>1. m \in Nat
      BY <1>7
    <2> HIDE DEF m
    <2>2. m = zpadlen + spadlen
      BY DEF m
    <2>3. zpadlen \in Nat /\ spadlen \in Nat
      BY <1>7
    <2>4. /\ IsSeq(a) /\ IsSeq(b) /\ IsSeq(z)
          /\ Len(a) + Len(b) + Len(z) = m
      BY <1>8, <2>1, <2>2, <2>3, PaddingSum
    <2> QED
      BY <2>2, <2>4
  <1>10. IsSeq(g) /\ Len(g) = n + separators
    BY <1>2, <1>5, <1>6, SeqGrouped DEF n
  <1> HIDE DEF a, z, g, b
  <1>11. IsSeq(a \o sign) /\ Len(a \o sign) = Len(a) + Len(sign)
    BY <1>3, <1>9, SeqConcat
  <1>12. IsSeq(a \o sign \o hexprefix) /\ Len(a \o sign \o hexprefix) = Len(a \o sign) + Len(hexprefix)
    BY <1>4, <1>11, SeqConcat
  <1>13. IsSeq(a \o sign \o hexprefix \o z)
         /\ Len(a \o sign \o hexprefix \o z) = Len(a \o sign \o hexprefix) + Len(z)
    BY <1>9, <1>12, SeqConcat
  <1>14. IsSeq(a \o sign \o hexprefix \o z \o g)
         /\ Len(a \o sign \o hexprefix \o z \o g) = Len(a \o sign \o hexprefix \o z) + Len(g)
    BY <1>10, <1>13, SeqConcat
  <1>15. IsSeq(a \o sign \o hexprefix \o z \o g \o b)
         /\ Len(a \o sign \o hexprefix \o z \o g \o b)
            = Len(a \o sign \o hexprefix \o z \o g) + Len(b)
    BY <1>9, <1>14, SeqConcat
  <1>16. ~twice => Len(a \o sign \o hexprefix \o z \o g \o b) >= width
    <2>1. Len(a) \in Nat /\ Len(b) \in Nat /\ Len(z) \in Nat
      BY <1>9, SeqSize
    <2> QED
      BY <1>3, <1>4, <1>5, <1>6, <1>7, <1>9, <1>10, <1>11, <1>12, <1>13, <1>14, <1>15, <2>1
  <1> QED
    BY <1>1, <1>15, <1>16 DEF twice

----------------------------------------------------------------------------
\* Fractions

LEMMA MagnitudeIs ==
  ASSUME NEW n
  PROVE  Magnitude(n) \in 0 .. MaxExp
  <1> DEFINE Above(k) == 10 ^ (k + 1) > n
             Fits(k) == /\ Above(k) \/ k = MaxExp
                        /\ \A j \in 0 .. k - 1 : ~Above(j)
             S == {k \in 0 .. MaxExp : Above(k) \/ k = MaxExp}
  <1>0. MaxExp \in Nat
    BY DEF MaxExp
  <1> HIDE DEF Above
  <1>1. \E k \in 0 .. MaxExp : Fits(k)
    <2>1. S \subseteq Nat /\ S # {}
      <3>1. MaxExp \in S
        BY <1>0
      <3> QED
        BY <3>1
    <2>2. PICK k \in S : \A j \in S : k <= j
      <3> HIDE DEF S
      <3> QED
        BY <2>1, LeastElement
    <2>3. k \in 0 .. MaxExp /\ (Above(k) \/ k = MaxExp)
      OBVIOUS
    <2>4. ASSUME NEW j \in 0 .. k - 1 PROVE ~Above(j)
      <3>1. j \in 0 .. MaxExp /\ j < k
        BY <1>0, <2>3
      <3>2. j \notin S
        <4> HIDE DEF S
        <4> QED
          BY <1>0, <2>2, <2>3, <3>1
      <3> QED
        BY <3>1, <3>2
    <2> QED
      BY <2>3, <2>4
  <1>2. Magnitude(n) = CHOOSE k \in 0 .. MaxExp : Fits(k)
    BY DEF Magnitude, Above
  <1> HIDE DEF Fits
  <1> QED
    BY <1>1, <1>2

LEMMA ExponentInt ==
  ASSUME NEW n, NEW d \in Nat
  PROVE  GetExponent(n, d) \in Int
  <1>1. Magnitude(n) \in 0 .. MaxExp
    BY MagnitudeIs
  <1>2. Magnitude(n) \in Int
    BY <1>1
  <1> QED
    BY <1>2 DEF GetExponent

LEMMA RoundedIs ==
  ASSUME NEW n, NEW d, NEW estyle, NEW exponent \in Int, NEW precision \in Int
  PROVE  /\ Rounded(n, d, estyle, exponent, precision).precision \in Int
         /\ Rounded(n, d, estyle, exponent, precision).exponent \in Int
  <1> DEFINE v == Scaled(n, d, IF estyle THEN exponent ELSE 0)
             prec == IF precision > FracDigits THEN FracDigits ELSE precision
             p == Parts(v[1], v[2], prec)
             ten == estyle /\ p.int = 10
             over == v[1] \div 10 ^ v[2] >= UIntMax
             whole == IF ten THEN 1 ELSE p.int
             e == IF ten THEN exponent + 1 ELSE exponent
  <1>1. Rounded(n, d, estyle, exponent, precision)
        = [estyle |-> estyle, int |-> whole, frac |-> p.frac, exponent |-> e,
           precision |-> prec, overflow |-> over]
    BY DEF Rounded
  <1>2. prec \in Int /\ e \in Int
    BY FmtAssumption
  <1> HIDE DEF v, prec, p, ten, over, whole, e
  <1> QED
    BY <1>1, <1>2

LEMMA StyledIs ==
  ASSUME NEW n, NEW d \in Nat, NEW precision \in Int, NEW flags
  PROVE  Styled(n, d, precision, flags).precision \in Int
  <1> DEFINE g == "TYPE_G" \in flags
             e == g \/ "TYPE_E" \in flags
             prec == (IF precision = -1 THEN 6 ELSE IF g /\ precision = 0 THEN 1 ELSE precision)
                     - (IF g THEN 1 ELSE 0)
             exp0 == IF e THEN GetExponent(n, d) ELSE 0
             first == Rounded(n, d, e, exp0, prec)
             again == /\ g /\ ~first.overflow
                      /\ first.precision + 1 > first.exponent /\ first.exponent >= -4
             more == first.precision - first.exponent
             no == FALSE
             second == Rounded(n, d, no, 0, more)
  <1>1. Styled(n, d, precision, flags) = IF again THEN second ELSE first
    BY DEF Styled
  <1>2. prec \in Int /\ exp0 \in Int
    BY ExponentInt
  <1> HIDE DEF prec, exp0, e
  <1>3. first.precision \in Int /\ first.exponent \in Int
    BY <1>2, RoundedIs
  <1> HIDE DEF first
  <1>4. more \in Int
    BY <1>3
  <1> HIDE DEF more, no
  <1>5. second.precision \in Int
    BY <1>4, RoundedIs
  <1> HIDE DEF second, again
  <1> QED
    BY <1>1, <1>3, <1>5

LEMMA SeqExponent ==
  ASSUME NEW exponent, NEW flags
  PROVE  IsSeq(Exponent(exponent, flags))
  <1> DEFINE x == IF exponent < 0 THEN -exponent ELSE exponent
             no == FALSE
             digits == Convert(x, 3, 10, no)
             c1 == IF "UP" \in flags THEN "E" ELSE "e"
             c2 == IF exponent < 0 THEN "-" ELSE "+"
             zero == When(Len(digits) = 1, <<"0">>)
  <1>1. Exponent(exponent, flags) = <<c1, c2>> \o zero \o digits
    BY DEF Exponent
  <1> HIDE DEF x, c1, c2, no
  <1>2. IsSeq(digits)
    BY SeqConvert
  <1> HIDE DEF digits
  <1>3. IsSeq(zero)
    BY SeqOne, SeqEmpty DEF When
  <1> HIDE DEF zero
  <1>4. IsSeq(<<c1, c2>>)
    BY SeqTwo, Zenon
  <1>5. IsSeq(<<c1, c2>> \o zero)
    BY <1>3, <1>4, SeqConcat
  <1>6. IsSeq(<<c1, c2>> \o zero \o digits)
    BY <1>2, <1>5, SeqConcat
  <1> QED
    BY <1>1, <1>6

LEMMA TrailingZerosIs ==
  ASSUME NEW s, IsSeq(s)
  PROVE  TrailingZeros(s) \in 0 .. Len(s)
  <1> DEFINE n == Len(s)
             Zeros(k) == \A i \in n - k + 1 .. n : s[i] = "0"
             Ends(k) == k = n \/ s[n - k] # "0"
             S == {k \in 0 .. n : Ends(k)}
  <1>0. n \in Nat
    BY SeqSize
  <1>1. \E k \in 0 .. n : Zeros(k) /\ Ends(k)
    <2>1. S \subseteq Nat /\ S # {}
      <3>1. n \in S
        BY <1>0
      <3> QED
        BY <3>1
    <2>2. PICK k \in S : \A j \in S : k <= j
      <3> HIDE DEF S
      <3> QED
        BY <2>1, LeastElement
    <2>3. k \in 0 .. n /\ Ends(k)
      OBVIOUS
    <2>4. Zeros(k)
      <3> SUFFICES ASSUME NEW i \in n - k + 1 .. n PROVE s[i] = "0"
        OBVIOUS
      <3> DEFINE j == n - i
      <3>1. j \in 0 .. n /\ j < k /\ n - j = i /\ j # n
        BY <1>0, <2>3
      <3>2. j \notin S
        <4> HIDE DEF S, j
        <4> QED
          BY <1>0, <2>2, <2>3, <3>1
      <3> HIDE DEF j
      <3> QED
        BY <3>1, <3>2
    <2> QED
      BY <2>3, <2>4
  <1>2. TrailingZeros(s) = CHOOSE k \in 0 .. n : Zeros(k) /\ Ends(k)
    BY DEF TrailingZeros
  <1> HIDE DEF Zeros, Ends, n
  <1>3. TrailingZeros(s) \in 0 .. n
    BY <1>1, <1>2
  <1> QED
    BY <1>3 DEF n

LEMMA FractionRoom ==
  ASSUME NEW precision \in Int, NEW n \in Int, NEW omitcount \in Int
  PROVE  AtLeast0(precision - n) + AtLeast0(n - omitcount) >= precision - omitcount
  BY DEF AtLeast0

LEMMA SeqFloatText ==
  ASSUME NEW sign, IsSeq(sign), NEW ipart, IsSeq(ipart), NEW fpart, IsSeq(fpart),
         NEW epart, IsSeq(epart), NEW precision \in Int, NEW width \in Int, NEW flags
  PROVE  /\ IsSeq(FloatText(sign, ipart, fpart, epart, precision, width, flags))
         /\ Len(ipart) > 0 =>
              Len(FloatText(sign, ipart, fpart, epart, precision, width, flags)) >= width
  <1> DEFINE omitzeros == "TYPE_G" \in flags /\ "NUM" \notin flags
             omitcount == IF ~omitzeros THEN 0
                          ELSE IF fpart # <<>> THEN TrailingZeros(fpart) ELSE precision
             leadfraczeros == IF omitzeros /\ fpart = <<>> THEN 0 ELSE precision - Len(fpart)
             prec == precision - omitcount
             point == When(prec > 0 \/ "NUM" \in flags, <<".">>)
             separators == IF "QUOTE" \in flags THEN GetNumSep(Len(ipart)) ELSE 0
             padlen == AtLeast0(width - Len(ipart) - Len(epart) - prec - separators
                                - Len(point) - Len(sign))
             left == "MINUS" \in flags
             zeros == ~left /\ "ZERO" \in flags
             cut == Len(fpart) - omitcount
             c == " "
             d == "0"
             a == When(~left /\ ~zeros, Times(c, padlen))
             z == When(zeros, Times(d, padlen))
             g == Grouped(ipart, separators)
             l == Times(d, leadfraczeros)
             f == SubSeq(fpart, 1, cut)
             b == When(left, Times(c, padlen))
  <1>1. FloatText(sign, ipart, fpart, epart, precision, width, flags)
        = a \o sign \o z \o g \o point \o l \o f \o epart \o b
    BY DEF FloatText
  <1> HIDE DEF c, d
  <1>2. /\ Len(sign) \in Nat /\ Len(ipart) \in Nat /\ Len(fpart) \in Nat /\ Len(epart) \in Nat
    BY SeqSize
  <1>3. omitcount \in Int
    <2>1. TrailingZeros(fpart) \in 0 .. Len(fpart)
      BY TrailingZerosIs
    <2>2. TrailingZeros(fpart) \in Int
      BY <2>1
    <2> QED
      BY <2>2
  <1>4. /\ leadfraczeros \in Int /\ prec \in Int /\ cut \in Int
        /\ AtLeast0(leadfraczeros) + AtLeast0(cut) >= prec
    <2>1. CASE omitzeros /\ fpart = <<>>
      <3>1. leadfraczeros = 0 /\ omitcount = precision
        BY <2>1
      <3> HIDE DEF leadfraczeros, omitcount, omitzeros
      <3> QED
        BY <1>2, <1>3, <3>1 DEF AtLeast0
    <2>2. CASE ~(omitzeros /\ fpart = <<>>)
      <3> DEFINE k == Len(fpart)
      <3>1. leadfraczeros = precision - k /\ k \in Int
        BY <1>2, <2>2
      <3> HIDE DEF leadfraczeros, omitcount, omitzeros, k
      <3>2. AtLeast0(precision - k) + AtLeast0(k - omitcount) >= precision - omitcount
        BY <1>3, <3>1, FractionRoom
      <3>3. leadfraczeros \in Int /\ precision - omitcount \in Int /\ k - omitcount \in Int
        BY <1>3, <3>1
      <3> QED
        BY <3>1, <3>2, <3>3 DEF k
    <2> QED
      BY <2>1, <2>2
  <1> HIDE DEF omitcount
  <1> HIDE DEF leadfraczeros, prec, cut, omitzeros
  <1>5. IsSeq(point) /\ Len(point) \in Nat
    <2>1. IsSeq(point)
      BY SeqOne, SeqEmpty DEF When
    <2> HIDE DEF point
    <2> QED
      BY <2>1, SeqSize
  <1> DEFINE n == Len(ipart)
             m == padlen
  <1>6. separators \in Int /\ separators \in {0, GetNumSep(n)}
    <2>1. n \in Nat
      BY <1>2
    <2>2. GetNumSep(n) \in Int
      BY <2>1, SeparatorsInt
    <2> QED
      BY <2>2
  <1> HIDE DEF separators, point
  <1>7. /\ padlen \in Nat
        /\ padlen + n + Len(epart) + prec + separators + Len(point) + Len(sign) >= width
    BY <1>2, <1>4, <1>5, <1>6 DEF AtLeast0
  <1> HIDE DEF padlen
  <1>8. Padding(a, z, b, c, d, 0, padlen, padlen)
    <2>1. Times(d, 0) = <<>>
      BY 1 .. 0 = {} DEF Times
    <2> QED
      BY <2>1 DEF When, Padding
  <1> HIDE DEF a, z, b, left, zeros
  <1>9. IsSeq(a) /\ IsSeq(z) /\ IsSeq(b) /\ Len(a) + Len(b) + Len(z) = padlen
    <2>1. padlen \in Nat /\ padlen = 0 + padlen
      BY <1>7
    <2> QED
      BY <1>8, <2>1, PaddingSum
  <1>11. IsSeq(g) /\ (n > 0 => Len(g) = n + separators)
    BY <1>6, SeqGrouped
  <1>12. IsSeq(l) /\ Len(l) = AtLeast0(leadfraczeros)
    BY <1>4, SeqTimes
  <1>13. IsSeq(f) /\ Len(f) = AtLeast0(cut)
    BY <1>4, SeqSub
  <1> HIDE DEF g, l, f
  <1>14. IsSeq(a \o sign)
        /\ Len(a \o sign) = Len(a) + Len(sign)
    BY <1>9, SeqConcat
  <1>15. IsSeq(a \o sign \o z)
        /\ Len(a \o sign \o z) = Len(a \o sign) + Len(z)
    BY <1>9, <1>14, SeqConcat
  <1>16. IsSeq(a \o sign \o z \o g)
        /\ Len(a \o sign \o z \o g) = Len(a \o sign \o z) + Len(g)
    BY <1>11, <1>15, SeqConcat
  <1>17. IsSeq(a \o sign \o z \o g \o point)
        /\ Len(a \o sign \o z \o g \o point) = Len(a \o sign \o z \o g) + Len(point)
    BY <1>5, <1>16, SeqConcat
  <1>18. IsSeq(a \o sign \o z \o g \o point \o l)
        /\ Len(a \o sign \o z \o g \o point \o l) = Len(a \o sign \o z \o g \o point) + Len(l)
    BY <1>12, <1>17, SeqConcat
  <1>19. IsSeq(a \o sign \o z \o g \o point \o l \o f)
        /\ Len(a \o sign \o z \o g \o point \o l \o f) = Len(a \o sign \o z \o g \o point \o l) + Len(f)
    BY <1>13, <1>18, SeqConcat
  <1>20. IsSeq(a \o sign \o z \o g \o point \o l \o f \o epart)
        /\ Len(a \o sign \o z \o g \o point \o l \o f \o epart) = Len(a \o sign \o z \o g \o point \o l \o f) + Len(epart)
    BY <1>19, SeqConcat
  <1>21. IsSeq(a \o sign \o z \o g \o point \o l \o f \o epart \o b)
        /\ Len(a \o sign \o z \o g \o point \o l \o f \o epart \o b) = Len(a \o sign \o z \o g \o point \o l \o f \o epart) + Len(b)
    BY <1>9, <1>20, SeqConcat
  <1>22. Len(a \o sign \o z \o g \o point \o l \o f \o epart \o b)
         = Len(a) + Len(sign) + Len(z) + Len(g) + Len(point) + Len(l) + Len(f) + Len(epart) + Len(b)
    BY <1>14, <1>15, <1>16, <1>17, <1>18, <1>19, <1>20, <1>21, Zenon
  <1>23. ASSUME n > 0
         PROVE  Len(a) + Len(sign) + Len(z) + Len(g) + Len(point) + Len(l) + Len(f) + Len(epart) + Len(b)
                >= width
    <2>1. Len(a) \in Nat /\ Len(b) \in Nat /\ Len(z) \in Nat /\ Len(l) \in Nat /\ Len(f) \in Nat
      BY <1>9, <1>12, <1>13, SeqSize
    <2>2. Len(l) + Len(f) >= prec
      BY <1>4, <1>12, <1>13
    <2>3. Len(a) + Len(b) + Len(z) = padlen
      BY <1>9
    <2>4. Len(g) = n + separators /\ n \in Nat
      BY <1>2, <1>11, <1>23
    <2>5. prec \in Int
      BY <1>4
    <2> HIDE DEF n
    <2> QED
      BY <1>2, <1>5, <1>6, <1>7, <2>1, <2>2, <2>3, <2>4, <2>5
  <1> QED
    BY <1>1, <1>21, <1>22, <1>23 DEF n

LEMMA SeqFmtFlt ==
  ASSUME NEW fvalue \in Floating, NEW width \in Int, NEW precision \in Int, NEW flags
  PROVE  /\ IsSeq(FmtFlt(fvalue, width, precision, flags).text)
         /\ Len(FmtFlt(fvalue, width, precision, flags).text) >= width
  <1> DEFINE n == fvalue.n
             m == IF n < 0 THEN -n ELSE n
             negative == n < 0
             sign == Sign(negative, flags)
             v == Styled(m, fvalue.d, precision, flags)
             no == FALSE
             ipart == Convert(v.int, MaxConvert, 10, no)
             fdigits == Convert(v.frac, MaxConvert, 10, no)
             fpart == When(v.frac # 0, fdigits)
             epart == When(v.estyle, Exponent(v.exponent, flags))
             text == FloatText(sign, ipart, fpart, epart, v.precision, width, flags)
             name == InfNan(fvalue, flags)
             other == FmtStr(sign \o name, width, -1, flags)
  <1>1. FmtFlt(fvalue, width, precision, flags)
        = IF fvalue.kind = "fraction" THEN [overflow |-> v.overflow, text |-> text]
          ELSE [overflow |-> no, text |-> other]
    BY DEF FmtFlt, FloatOf
  <1>2. n \in Int /\ fvalue.d \in Nat /\ negative \in BOOLEAN
    BY DEF Floating
  <1> HIDE DEF negative, no
  <1>3. IsSeq(sign)
    BY <1>2, SeqSign
  <1> HIDE DEF sign, m
  <1>4. v.precision \in Int
    BY <1>2, StyledIs
  <1> HIDE DEF v
  <1>5. IsSeq(ipart) /\ IsSeq(fdigits) /\ Len(ipart) > 0
    <2> DEFINE mc == MaxConvert
    <2>1. mc \in Nat /\ mc > 0
      BY DEF MaxConvert
    <2> HIDE DEF mc
    <2>2. IsSeq(Convert(v.int, mc, 10, no)) /\ IsSeq(Convert(v.frac, mc, 10, no))
          /\ Len(Convert(v.int, mc, 10, no)) > 0
      BY <2>1, SeqConvert
    <2> QED
      BY <2>2 DEF mc
  <1> HIDE DEF ipart, fdigits
  <1>6. IsSeq(fpart)
    BY <1>5, SeqWhen
  <1>7. IsSeq(epart)
    BY SeqExponent, SeqWhen
  <1> HIDE DEF fpart, epart
  <1>8. IsSeq(text) /\ Len(text) >= width
    BY <1>3, <1>4, <1>5, <1>6, <1>7, SeqFloatText
  <1>9. IsSeq(name)
    BY SeqThree, Zenon DEF InfNan
  <1> HIDE DEF name
  <1>10. IsSeq(sign \o name)
    BY <1>3, <1>9, SeqConcat
  <1>11. IsSeq(other) /\ Len(other) >= width
    <2> DEFINE s == sign \o name
               p == -1
    <2>1. IsSeq(s) /\ p \in Int /\ p >= -1
      BY <1>10
    <2> HIDE DEF s, p
    <2>2. IsSeq(FmtStr(s, width, p, flags)) /\ Len(FmtStr(s, width, p, flags)) >= width
      BY <2>1, SeqFmtStr
    <2> QED
      BY <2>2 DEF s, p
  <1> HIDE DEF text, other
  <1> QED
    BY <1>1, <1>8, <1>11

----------------------------------------------------------------------------
\* What is stored

\* A conversion that is being read: its base is still open, and its width and
\* precision are numbers.
ConvOK(c) ==
  /\ c = [flags |-> c.flags, width |-> c.width, precision |-> c.precision,
          cflags |-> c.cflags, base |-> 0]
  /\ c.width \in Int /\ c.precision \in Int /\ c.precision >= -1

\* The buffer and what has been printed.
Stored ==
  /\ size \in Nat /\ DOMAIN str = 0 .. size
  /\ out = [text |-> out.text, fields |-> out.fields] /\ IsSeq(out.text)
  /\ StoresPrefix

StoreInv == Stored /\ ConvOK(conv)

\* Characters printed before the terminator go behind the others, or are only counted.
LEMMA PutStores ==
  ASSUME Stored, state # "done", state' # "done", size' = size, NEW t, IsSeq(t), Put(t),
         out' = [text |-> out'.text, fields |-> out'.fields], out'.text = out.text \o t
  PROVE  Stored'
  <1> DEFINE n == IF len + 1 < size THEN len ELSE AtLeast0(size - 1)
             n2 == IF len' + 1 < size THEN len' ELSE AtLeast0(size - 1)
             k == Len(t)
  <1>1. /\ IsSeq(out.text \o t) /\ Len(out.text \o t) = len + k /\ len \in Nat /\ k \in Nat
        /\ len = Len(out.text)
        /\ \A i \in 1 .. len + k : (out.text \o t)[i] = IF i <= len THEN out.text[i] ELSE t[i - len]
    <2>1. len = Len(out.text) /\ IsSeq(out.text)
      BY DEF Stored, StoresPrefix
    <2> QED
      BY <2>1, SeqSize, SeqConcat
  <1>2. /\ len' = len + k /\ DOMAIN str' = 0 .. size /\ DOMAIN str = 0 .. size
        /\ \A i \in 0 .. size : str'[i] = IF i \in len .. len + k - 1 /\ i + 1 < size
                                          THEN t[i - len + 1] ELSE str[i]
    BY DEF Stored, Put
  <1>3. \A i \in 0 .. size : str[i] = IF i < n THEN out.text[i + 1] ELSE Unset
    BY DEF Stored, StoresPrefix
  <1>4. size \in Nat
    BY DEF Stored
  <1> HIDE DEF k
  <1>5. /\ n \in Nat /\ n2 \in Nat /\ n <= n2
        /\ \A i \in Nat : i < n <=> i < len /\ i + 1 < size
        /\ \A i \in Nat : i < n2 <=> i < len + k /\ i + 1 < size
    BY <1>1, <1>2, <1>4 DEF AtLeast0
  <1>6. ASSUME NEW i \in 0 .. size
        PROVE  str'[i] = IF i < n2 THEN (out.text \o t)[i + 1] ELSE Unset
    <2>0. i \in Nat /\ str'[i] = (IF i \in len .. len + k - 1 /\ i + 1 < size THEN t[i - len + 1] ELSE str[i])
          /\ str[i] = (IF i < n THEN out.text[i + 1] ELSE Unset)
          /\ (i < n <=> i < len /\ i + 1 < size) /\ (i < n2 <=> i < len + k /\ i + 1 < size)
      BY <1>2, <1>3, <1>5
    <2> HIDE DEF n, n2
    <2>1. CASE ~(i < n2)
      <3>1. ~(i \in len .. len + k - 1 /\ i + 1 < size) /\ ~(i < n)
        BY <1>1, <1>5, <2>0, <2>1
      <3> QED
        BY <2>0, <2>1, <3>1
    <2>2. CASE i < n2 /\ i < len
      <3>1. i < n /\ ~(i \in len .. len + k - 1) /\ i + 1 \in 1 .. len + k /\ i + 1 <= len
        BY <1>1, <2>0, <2>2
      <3>2. (out.text \o t)[i + 1] = out.text[i + 1]
        BY <1>1, <3>1
      <3> QED
        BY <2>0, <2>2, <3>1, <3>2
    <2>3. CASE i < n2 /\ ~(i < len)
      <3>1. /\ i \in len .. len + k - 1 /\ i + 1 < size /\ i + 1 \in 1 .. len + k /\ ~(i + 1 <= len)
            /\ (i + 1) - len = (i - len) + 1
        <4>1. i < len + k /\ i + 1 < size /\ len <= i /\ i \in Nat /\ len \in Nat /\ k \in Nat
          BY <1>1, <2>0, <2>3
        <4> QED
          BY ONLY <4>1
      <3>2. (out.text \o t)[i + 1] = t[(i - len) + 1]
        BY <1>1, <3>1
      <3>3. str'[i] = t[(i - len) + 1]
        BY <2>0, <3>1
      <3> QED
        BY <2>3, <3>2, <3>3
    <2> QED
      BY <2>1, <2>2, <2>3
  <1>7. StoresPrefix'
    BY <1>1, <1>2, <1>6 DEF StoresPrefix
  <1> QED
    BY <1>1, <1>2, <1>4, <1>7 DEF Stored

\* What is stored stays as long as nothing is printed.
LEMMA KeptStores ==
  ASSUME Stored, state # "done", state' # "done", UNCHANGED <<size, str, len, out>>
  PROVE  Stored'
  BY DEF Stored, StoresPrefix

\* The terminator.
LEMMA ReturnStores ==
  ASSUME Stored, Return
  PROVE  Stored'
  <1> DEFINE n == IF len + 1 < size THEN len ELSE AtLeast0(size - 1)
  <1>1. /\ size \in Nat /\ len \in Nat /\ DOMAIN str = 0 .. size /\ len = Len(out.text)
        /\ state = "out" /\ state' = "done" /\ pass' = "write" /\ size' = size /\ len' = len /\ out' = out
        /\ str' = Terminated
    <2>1. IsSeq(out.text) /\ len = Len(out.text)
      BY DEF Stored, StoresPrefix
    <2> QED
      BY <2>1, SeqSize DEF Stored, Return, Calling
  <1>2. \A i \in 0 .. size : str[i] = IF i < n THEN out.text[i + 1] ELSE Unset
    BY <1>1 DEF Stored, StoresPrefix
  <1>3. DOMAIN str' = 0 .. size /\ \A i \in 0 .. size : str'[i] = IF i = n /\ size > 0 THEN NUL ELSE str[i]
    BY <1>1 DEF Terminated, AtLeast0
  <1>4. \A i \in 0 .. size :
          str'[i] = IF i < n THEN out.text[i + 1] ELSE IF i = n /\ size > 0 THEN NUL ELSE Unset
    <2>1. n \in Nat
      BY <1>1 DEF AtLeast0
    <2> HIDE DEF n
    <2> QED
      BY <1>2, <1>3, <2>1
  <1>5. StoresPrefix'
    BY <1>1, <1>3, <1>4 DEF StoresPrefix
  <1> QED
    BY <1>1, <1>3, <1>5 DEF Stored

\* A new buffer, and nothing printed.
LEMMA FreshStores ==
  ASSUME size \in Nat, str = Buffer(size), len = 0, state # "done",
         out = [text |-> <<>>, fields |-> <<>>]
  PROVE  Stored
  <1>1. out = [text |-> out.text, fields |-> out.fields] /\ out.text = <<>>
    OBVIOUS
  <1>2. DOMAIN str = 0 .. size /\ \A i \in 0 .. size : str[i] = Unset
    BY DEF Buffer
  <1>3. ~\E i \in 0 .. size : i < IF len + 1 < size THEN len ELSE AtLeast0(size - 1)
    BY DEF AtLeast0
  <1>4. StoresPrefix
    BY <1>1, <1>2, <1>3, SeqEmpty DEF StoresPrefix
  <1> QED
    BY <1>1, <1>2, <1>4, SeqEmpty DEF Stored

LEMMA FreshAfter ==
  ASSUME NEW sz \in Nat, size' = sz, str' = Buffer(sz), len' = 0, state' # "done",
         out' = [text |-> <<>>, fields |-> <<>>]
  PROVE  Stored'
  <1> DEFINE none == <<>>
  <1>0. out' = [text |-> none, fields |-> none]
    OBVIOUS
  <1>1. out'.text = <<>> /\ out' = [text |-> out'.text, fields |-> out'.fields]
    <2> HIDE DEF none
    <2>1. out'.text = none /\ out'.fields = none
      BY <1>0
    <2> QED
      BY <1>0, <2>1 DEF none
  <1>2. DOMAIN str' = 0 .. size' /\ \A i \in 0 .. size' : str'[i] = Unset
    BY DEF Buffer
  <1>3. ~\E i \in 0 .. size' : i < IF len' + 1 < size' THEN len' ELSE AtLeast0(size' - 1)
    BY DEF AtLeast0
  <1>4. StoresPrefix'
    BY <1>1, <1>2, <1>3, SeqEmpty DEF StoresPrefix
  <1> QED
    BY <1>1, <1>2, <1>4, SeqEmpty DEF Stored

----------------------------------------------------------------------------
\* Each step keeps it

LEMMA DigitInt ==
  ASSUME NEW ch \in Digit
  PROVE  CharToInt(ch) \in 0 .. 9
  <1>1. \E i \in 0 .. 9 : Lower[i + 1] = ch
    <2>1. /\ Lower[0 + 1] = "0" /\ Lower[1 + 1] = "1" /\ Lower[2 + 1] = "2" /\ Lower[3 + 1] = "3"
          /\ Lower[4 + 1] = "4" /\ Lower[5 + 1] = "5" /\ Lower[6 + 1] = "6" /\ Lower[7 + 1] = "7"
          /\ Lower[8 + 1] = "8" /\ Lower[9 + 1] = "9"
      BY DEF Lower
    <2> QED
      BY <2>1 DEF Digit
  <1> QED
    BY <1>1 DEF CharToInt

\* What the reader makes of a conversion before it converts.
LEMMA ReadStores ==
  ASSUME StoreInv, NEW c, ConvOK(c), NEW next, next # "done", state # "done", Read(c, next)
  PROVE  StoreInv'
  <1>1. Stored'
    BY KeptStores DEF StoreInv, Read, Printed, Calling
  <1> QED
    BY <1>1 DEF StoreInv, Read

LEMMA ConvFlags ==
  ASSUME NEW c, ConvOK(c), NEW x
  PROVE  ConvOK([c EXCEPT !.flags = x]) /\ ConvOK([c EXCEPT !.cflags = x])
  <1> DEFINE r == [flags |-> c.flags, width |-> c.width, precision |-> c.precision,
                   cflags |-> c.cflags, base |-> 0]
  <1>0. c = r /\ c.width \in Int /\ c.precision \in Int /\ c.precision >= -1
    BY DEF ConvOK
  <1>1. [r EXCEPT !.flags = x] = [flags |-> x, width |-> c.width, precision |-> c.precision,
                                  cflags |-> c.cflags, base |-> 0]
    OBVIOUS
  <1>2. [r EXCEPT !.cflags = x] = [flags |-> c.flags, width |-> c.width, precision |-> c.precision,
                                   cflags |-> x, base |-> 0]
    OBVIOUS
  <1> HIDE DEF r
  <1> QED
    BY <1>0, <1>1, <1>2 DEF ConvOK

LEMMA ConvNumbers ==
  ASSUME NEW c, ConvOK(c), NEW n \in Int
  PROVE  ConvOK([c EXCEPT !.width = n]) /\ (n >= -1 => ConvOK([c EXCEPT !.precision = n]))
  <1> DEFINE r == [flags |-> c.flags, width |-> c.width, precision |-> c.precision,
                   cflags |-> c.cflags, base |-> 0]
  <1>0. c = r /\ c.width \in Int /\ c.precision \in Int /\ c.precision >= -1
    BY DEF ConvOK
  <1>1. [r EXCEPT !.width = n] = [flags |-> c.flags, width |-> n, precision |-> c.precision,
                                  cflags |-> c.cflags, base |-> 0]
    OBVIOUS
  <1>2. [r EXCEPT !.precision = n] = [flags |-> c.flags, width |-> c.width, precision |-> n,
                                      cflags |-> c.cflags, base |-> 0]
    OBVIOUS
  <1> HIDE DEF r
  <1> QED
    BY <1>0, <1>1, <1>2 DEF ConvOK

\* The base is set when a conversion is printed.
LEMMA ConvBase ==
  ASSUME NEW c, ConvOK(c), NEW x, NEW d, d = [c EXCEPT !.base = x]
  PROVE  /\ d.flags = c.flags /\ d.width = c.width /\ d.precision = c.precision /\ d.base = x
         /\ c.width \in Int /\ c.precision \in Int /\ c.precision >= -1 /\ c.base = 0
  <1> DEFINE r == [flags |-> c.flags, width |-> c.width, precision |-> c.precision,
                   cflags |-> c.cflags, base |-> 0]
  <1>0. c = r /\ c.width \in Int /\ c.precision \in Int /\ c.precision >= -1
    BY DEF ConvOK
  <1>1. [r EXCEPT !.base = x] = [flags |-> c.flags, width |-> c.width, precision |-> c.precision,
                                 cflags |-> c.cflags, base |-> x]
    OBVIOUS
  <1>2. r.base = 0
    OBVIOUS
  <1> HIDE DEF r
  <1> QED
    BY <1>0, <1>1, <1>2

\* A character of the format itself.
LEMMA CharStores ==
  ASSUME Stored, state # "done", state' # "done", size' = size, NEW x, Put(<<x>>),
         out' = [out EXCEPT !.text = Append(@, x)]
  PROVE  Stored'
  <1>1. out = [text |-> out.text, fields |-> out.fields] /\ IsSeq(out.text)
    BY DEF Stored
  <1>2. Append(out.text, x) = out.text \o <<x>>
    <2>1. PICK S : out.text \in Seq(S)
      BY <1>1 DEF IsSeq
    <2> DEFINE T == S \cup {x}
    <2>2. S \subseteq T /\ x \in T
      OBVIOUS
    <2> HIDE DEF T
    <2>3. out.text \in Seq(T)
      BY <2>1, <2>2, SeqMore
    <2> QED
      BY <2>2, <2>3, AppendIsConcat
  <1> DEFINE s == Append(out.text, x)
             f == out.fields
  <1>3. out' = [out EXCEPT !.text = s]
    OBVIOUS
  <1> HIDE DEF s
  <1>4. out' = [text |-> s, fields |-> f]
    BY <1>1, <1>3
  <1> HIDE DEF f
  <1>5. out'.text = s /\ out' = [text |-> out'.text, fields |-> out'.fields]
    <2>1. out'.text = s /\ out'.fields = f
      BY <1>4
    <2> QED
      BY <1>4, <2>1
  <1>6. out'.text = out.text \o <<x>>
    BY <1>2, <1>5 DEF s
  <1> DEFINE t == <<x>>
  <1>7. IsSeq(t) /\ Put(t) /\ out'.text = out.text \o t
    BY <1>6, SeqOne
  <1> HIDE DEF t
  <1> QED
    BY <1>5, <1>7, PutStores

LEMMA DefaultStores ==
  ASSUME StoreInv, Default
  PROVE  StoreInv'
  <1>1. state # "done" /\ state' # "done" /\ size' = size /\ conv' = conv
    BY DEF Default, Calling
  <1>2. CASE Ch = "%"
    <2>1. UNCHANGED <<size, str, len, out>>
      BY <1>2 DEF Default, Calling
    <2> QED
      BY <1>1, <2>1, KeptStores DEF StoreInv
  <1>3. CASE Ch # "%"
    <2> DEFINE x == Ch
    <2>1. Put(<<x>>) /\ out' = [out EXCEPT !.text = Append(@, x)]
      BY <1>3 DEF Default
    <2> HIDE DEF x
    <2>2. Stored'
      BY <1>1, <2>1, CharStores DEF StoreInv
    <2> QED
      BY <1>1, <2>2 DEF StoreInv
  <1> QED
    BY <1>2, <1>3

\* Flags, width, precision and modifier go into conv.
\* The number that * takes, and what becomes of it if it is negative.
LEMMA StarInt == \A w \in Star : w \in Int /\ Negated(w) \in Int
  <1>1. IntMax \in Int
    <2>1. Bits.int - 1 \in Int
      BY VsnprintfAssumption, FmtAssumption
    <2> DEFINE n == Bits.int - 1
    <2>2. 2 ^ n \in Int
      BY <2>1
    <2> QED
      BY <2>2 DEF IntMax
  <1>2. NegatedMin \in Int
    BY <1>1, VsnprintfAssumption
  <1> QED
    BY <1>1, <1>2 DEF Star, Negated

LEMMA PartsStore ==
  ASSUME StoreInv, Flags \/ Width \/ Dot \/ Precision \/ Mod
  PROVE  StoreInv'
  <1>1. ConvOK(conv) /\ state # "done"
    BY DEF StoreInv, Flags, Width, Dot, Precision, Mod
  <1>2. ASSUME NEW c, ConvOK(c), NEW next, next # "done", Read(c, next)
        PROVE  StoreInv'
    BY <1>1, <1>2, ReadStores
  <1>3. CASE Flags
    <2> DEFINE fl == conv.flags \cup {FlagOf[Ch]}
               c == [conv EXCEPT !.flags = fl]
    <2>1. Read(c, "flags") \/ Read(conv, "width")
      BY <1>3 DEF Flags
    <2> HIDE DEF fl
    <2>2. ConvOK(c)
      BY <1>1, ConvFlags
    <2> HIDE DEF c
    <2> QED
      BY <1>1, <1>2, <2>1, <2>2
  <1>4. CASE Width
    <2>1. CASE Ch \in Digit
      <3> DEFINE w == 10 * conv.width + CharToInt(Ch)
                 c == [conv EXCEPT !.width = w]
      <3>1. Read(conv, "out") \/ Read(c, "width")
        <4>1. Ch # "*"
          BY <2>1 DEF Digit
        <4> QED
          BY <1>4, <2>1, <4>1 DEF Width, Overflow
      <3>2. w \in Int
        <4> DEFINE d == CharToInt(Ch)
        <4>1. d \in 0 .. 9
          BY <2>1, DigitInt
        <4> HIDE DEF d
        <4>2. conv.width \in Int
          BY <1>1 DEF ConvOK
        <4>3. 10 * conv.width + d \in Int
          BY <4>1, <4>2
        <4> QED
          BY <4>3 DEF d
      <3> HIDE DEF w
      <3>3. ConvOK(c)
        BY <1>1, <3>2, ConvNumbers
      <3> HIDE DEF c
      <3> QED
        BY <1>1, <1>2, <3>1, <3>3
    <2>2. CASE Ch = "*"
      <3> DEFINE w == call.args[arg]
                 fl == conv.flags \cup {"MINUS"}
                 c1 == [conv EXCEPT !.flags = fl]
                 v == Negated(w)
                 c2 == [c1 EXCEPT !.width = v]
                 c3 == [conv EXCEPT !.width = w]
      <3>1. Read(IF w < 0 THEN c2 ELSE c3, "dot") /\ w \in Int
        <4>1. Ch \notin Digit
          BY <2>2 DEF Digit
        <4>2. Read(IF w < 0 THEN [conv EXCEPT !.flags = @ \cup {"MINUS"}, !.width = Negated(w)]
                   ELSE [conv EXCEPT !.width = w], "dot") /\ w \in Star
          BY <1>4, <2>2, <4>1 DEF Width, Given
        <4>3. [conv EXCEPT !.flags = @ \cup {"MINUS"}, !.width = Negated(w)] = c2
          OBVIOUS
        <4>4. [conv EXCEPT !.width = w] = c3
          OBVIOUS
        <4>5. w \in Int
          <5> HIDE DEF w
          <5> QED
            BY <4>2, StarInt
        <4> HIDE DEF w, c2, c3
        <4> QED
          BY <4>2, <4>3, <4>4, <4>5, Zenon
      <3>2. v \in Int
        <4>1. w \in Star
          BY <1>4, <2>2 DEF Width, Given, Digit
        <4> HIDE DEF w
        <4> QED
          BY <4>1, StarInt
      <3> HIDE DEF w, fl, v
      <3>3. ConvOK(c1)
        BY <1>1, ConvFlags
      <3> HIDE DEF c1
      <3>4. ConvOK(c2) /\ ConvOK(c3)
        BY <1>1, <3>1, <3>2, <3>3, ConvNumbers
      <3> HIDE DEF c2, c3
      <3> QED
        BY <1>2, <3>1, <3>4
    <2>3. CASE Ch \notin Digit \cup {"*"}
      <3>1. Read(conv, "dot")
        BY <1>4, <2>3 DEF Width
      <3> QED
        BY <1>1, <1>2, <3>1
    <2> QED
      BY <2>1, <2>2, <2>3
  <1>5. CASE Dot
    <2>1. Read(conv, "precision") \/ Read(conv, "mod")
      BY <1>5 DEF Dot
    <2> QED
      BY <1>1, <1>2, <2>1
  <1>6. CASE Precision
    <2> DEFINE p == IF conv.precision = -1 THEN 0 ELSE conv.precision
    <2>0. p \in Nat
      BY <1>1 DEF ConvOK
    <2>1. CASE Ch \in Digit
      <3> DEFINE d == CharToInt(Ch)
                 w == 10 * p + d
                 c == [conv EXCEPT !.precision = w]
      <3>1. Read(conv, "out") \/ Read(c, "precision")
        <4>1. Ch # "*"
          BY <2>1 DEF Digit
        <4> QED
          BY <1>6, <2>1, <4>1 DEF Precision, Overflow
      <3>2. d \in 0 .. 9
        BY <2>1, DigitInt
      <3> HIDE DEF p, d
      <3>3. w \in Int /\ w >= -1
        BY <2>0, <3>2
      <3> HIDE DEF w
      <3>4. ConvOK(c)
        BY <1>1, <3>3, ConvNumbers
      <3> HIDE DEF c
      <3> QED
        BY <1>1, <1>2, <3>1, <3>4
    <2>2. CASE Ch = "*"
      <3> DEFINE a == call.args[arg]
                 w == IF a < 0 THEN -1 ELSE a
                 c == [conv EXCEPT !.precision = w]
      <3>1. Read(c, "mod") /\ a \in Int
        <4>1. Ch \notin Digit
          BY <2>2 DEF Digit
        <4>2. Read(c, "mod") /\ a \in Star
          BY <1>6, <2>2, <4>1 DEF Precision, Given
        <4> HIDE DEF a, c
        <4> QED
          BY <4>2, StarInt
      <3> HIDE DEF a
      <3>2. w \in Int /\ w >= -1
        BY <3>1
      <3> HIDE DEF w
      <3>3. ConvOK(c)
        BY <1>1, <3>2, ConvNumbers
      <3> HIDE DEF c
      <3> QED
        BY <1>2, <3>1, <3>3
    <2>3. CASE Ch \notin Digit \cup {"*"}
      <3> DEFINE c == [conv EXCEPT !.precision = p]
      <3>1. Read(c, "mod")
        BY <1>6, <2>3 DEF Precision
      <3> HIDE DEF p
      <3>2. ConvOK(c)
        <4>1. p \in Int /\ p >= -1
          BY <2>0
        <4> QED
          BY <1>1, <4>1, ConvNumbers
      <3> HIDE DEF c
      <3> QED
        BY <1>2, <3>1, <3>2
    <2> QED
      BY <2>1, <2>2, <2>3
  <1>7. CASE Mod
    <2> DEFINE m == Modifier(Ch, ChAt(pos + 1), conv.cflags)[1]
               c == [conv EXCEPT !.cflags = m]
    <2>1. Read(c, "conv")
      BY <1>7 DEF Mod
    <2> HIDE DEF m
    <2>2. ConvOK(c)
      BY <1>1, ConvFlags
    <2> HIDE DEF c
    <2> QED
      BY <1>2, <2>1, <2>2
  <1> QED
    BY <1>3, <1>4, <1>5, <1>6, <1>7

\* A conversion prints its text and leaves a blank one behind.
LEMMA ConvertedStores ==
  ASSUME StoreInv, state = "conv", NEW c, Converted(c), Stored'
  PROVE  StoreInv'
  BY DEF Converted, NextConv, Blank, ConvOK, StoreInv

LEMMA ConvertStores ==
  ASSUME StoreInv, state = "conv", NEW text, IsSeq(text), NEW c, Convert1(text, c)
  PROVE  StoreInv'
  <1>1. Put(text) /\ Converted(c) /\ size' = size /\ state' # "done" /\ Stored
    BY DEF Convert1, Converted, Calling, StoreInv
  <1>2. out' = [text |-> out'.text, fields |-> out'.fields] /\ out'.text = out.text \o text
    <2> DEFINE s == out.text \o text
               f == Append(out.fields,
                      [as |-> Ch, flags |-> c.flags, width |-> c.width, precision |-> c.precision,
                       cflags |-> c.cflags, value |-> call.args[arg], text |-> text])
    <2>1. out' = [text |-> s, fields |-> f]
      BY DEF Convert1
    <2> HIDE DEF s, f
    <2>2. out'.text = s /\ out'.fields = f
      BY <2>1
    <2> QED
      BY <2>1, <2>2 DEF s
  <1>3. Stored'
    BY <1>1, <1>2, PutStores
  <1> QED
    BY <1>1, <1>3, ConvertedStores

LEMMA NumbersStore ==
  ASSUME StoreInv, ConvSigned \/ ConvUnsigned \/ ConvPointer
  PROVE  StoreInv'
  <1>1. ConvOK(conv) /\ state = "conv"
    BY DEF StoreInv, ConvSigned, ConvUnsigned, ConvPointer
  <1>2. ASSUME NEW c, c.width \in Int, c.precision \in Int, NEW value, NEW base,
               Convert1(FmtInt(value, base, c.width, c.precision, c.flags), c)
        PROVE  StoreInv'
    <2> DEFINE text == FmtInt(value, base, c.width, c.precision, c.flags)
    <2>1. IsSeq(text)
      BY <1>2, SeqFmtInt
    <2> HIDE DEF text
    <2>2. Convert1(text, c)
      BY <1>2 DEF text
    <2> QED
      BY <1>1, <2>1, <2>2, ConvertStores
  <1>3. CASE ConvSigned
    <2> DEFINE v == Signed(call.args[arg], conv.cflags)
    <2>1. Convert1(FmtInt(v, 10, conv.width, conv.precision, conv.flags), conv)
      BY <1>3 DEF ConvSigned
    <2> HIDE DEF v
    <2>2. conv.width \in Int /\ conv.precision \in Int
      BY <1>1 DEF ConvOK
    <2> QED
      BY <1>2, <2>1, <2>2
  <1>4. CASE ConvUnsigned
    <2> DEFINE fl == conv.flags \cup {"UNSIGNED"} \cup (IF Ch = "X" THEN {"UP"} ELSE {})
               b == BaseOf(Ch, conv.base)
               c1 == [conv EXCEPT !.flags = fl]
               c == [c1 EXCEPT !.base = b]
               v == Unsigned(call.args[arg], c.cflags)
    <2>1. Convert1(FmtInt(v, c.base, c.width, c.precision, c.flags), c)
      BY <1>4 DEF ConvUnsigned
    <2> HIDE DEF fl, b, v
    <2>2. ConvOK(c1)
      BY <1>1, ConvFlags
    <2> HIDE DEF c1
    <2>3. c = [c1 EXCEPT !.base = b]
      OBVIOUS
    <2> HIDE DEF c
    <2>4. c.width \in Int /\ c.precision \in Int
      BY <2>2, <2>3, ConvBase
    <2> QED
      BY <1>2, <2>1, <2>4
  <1>5. CASE ConvPointer
    <2> DEFINE fl == conv.flags \cup {"NUM", "UNSIGNED"}
               c == [conv EXCEPT !.flags = fl]
               v == call.args[arg]
               nil == <<"(", "n", "i", "l", ")">>
               text == FmtStr(nil, conv.width, -1, conv.flags)
    <2>1. Convert1(text, conv) \/ Convert1(FmtInt(v, 16, c.width, c.precision, c.flags), c)
      BY <1>5 DEF ConvPointer
    <2>2. IsSeq(nil)
      BY SeqFive, Zenon
    <2> HIDE DEF nil, fl, v
    <2>3. IsSeq(text)
      <3> DEFINE p == -1
                 w == conv.width
      <3>1. p \in Int /\ w \in Int
        BY <1>1 DEF ConvOK
      <3> HIDE DEF p, w
      <3>2. IsSeq(FmtStr(nil, w, p, conv.flags))
        BY <2>2, <3>1, SeqFmtStr
      <3> QED
        BY <3>2 DEF p, w
    <2>4. c.width \in Int /\ c.precision \in Int
      BY <1>1, ConvFlags DEF ConvOK
    <2> HIDE DEF c, text
    <2>5. CASE Convert1(text, conv)
      BY <1>1, <2>3, <2>5, ConvertStores
    <2>6. CASE Convert1(FmtInt(v, 16, c.width, c.precision, c.flags), c)
      BY <1>2, <2>4, <2>6
    <2> QED
      BY <2>1, <2>5, <2>6
  <1> QED
    BY <1>3, <1>4, <1>5

LEMMA TextsStore ==
  ASSUME StoreInv, ConvFloat \/ ConvChar \/ ConvString \/ ConvCount \/ ConvOther
  PROVE  StoreInv'
  <1>1. ConvOK(conv) /\ state = "conv" /\ conv.width \in Int /\ conv.precision \in Int /\ Stored
    BY DEF StoreInv, ConvFloat, ConvChar, ConvString, ConvCount, ConvOther, ConvOK
  <1>2. CASE ConvFloat
    <2> DEFINE fl == conv.flags \cup FloatFlags(Ch)
               c == [conv EXCEPT !.flags = fl]
               v == call.args[arg]
               r == FmtFlt(v, c.width, c.precision, c.flags)
               text == r.text
    <2>1. Read(c, "out") \/ Convert1(text, c)
      BY <1>2 DEF ConvFloat
    <2>2. v \in Floating
      BY <1>2 DEF ConvFloat, Given
    <2> HIDE DEF fl, v
    <2>3. ConvOK(c)
      BY <1>1, ConvFlags
    <2> HIDE DEF c
    <2>4. IsSeq(text)
      <3>1. c.width \in Int /\ c.precision \in Int
        BY <2>3 DEF ConvOK
      <3> QED
        BY <2>2, <3>1, SeqFmtFlt
    <2> HIDE DEF text
    <2> QED
      BY <1>1, <2>1, <2>3, <2>4, ReadStores, ConvertStores
  <1>3. CASE ConvChar
    <2> DEFINE text == <<call.args[arg]>>
    <2>1. Convert1(text, conv)
      BY <1>3 DEF ConvChar
    <2>2. IsSeq(text)
      BY SeqOne
    <2> HIDE DEF text
    <2> QED
      BY <1>1, <2>1, <2>2, ConvertStores
  <1>4. CASE ConvString
    <2> DEFINE v == call.args[arg]
               text == FmtStr(v, conv.width, conv.precision, conv.flags)
    <2>1. Convert1(text, conv) /\ v \in Seq(STRING)
      BY <1>4 DEF ConvString, Given
    <2>2. IsSeq(v)
      BY <2>1, Zenon DEF IsSeq
    <2> HIDE DEF v
    <2>3. IsSeq(text)
      BY <1>1, <2>2, SeqFmtStr
    <2> HIDE DEF text
    <2> QED
      BY <1>1, <2>1, <2>3, ConvertStores
  <1>5. CASE ConvCount
    <2>1. UNCHANGED <<size, str, len, out>> /\ state' # "done" /\ Converted(conv)
      BY <1>5 DEF ConvCount, Converted, Calling
    <2>2. Stored'
      BY <1>1, <2>1, KeptStores
    <2> QED
      BY <1>1, <2>1, <2>2, ConvertedStores
  <1>6. CASE ConvOther
    <2>1. size' = size /\ state' # "done" /\ Converted(conv)
      BY <1>6 DEF ConvOther, Converted, Calling
    <2>2. CASE Ch = "%"
      <3> DEFINE x == Ch
      <3>1. Put(<<x>>) /\ out' = [out EXCEPT !.text = Append(@, x)]
        BY <1>6, <2>2 DEF ConvOther
      <3> HIDE DEF x
      <3>2. Stored'
        BY <1>1, <2>1, <3>1, CharStores
      <3> QED
        BY <1>1, <2>1, <3>2, ConvertedStores
    <2>3. CASE Ch # "%"
      <3>1. UNCHANGED <<size, str, len, out>>
        BY <1>6, <2>1, <2>3 DEF ConvOther
      <3>2. Stored'
        BY <1>1, <2>1, <3>1, KeptStores
      <3> QED
        BY <1>1, <2>1, <3>2, ConvertedStores
    <2> QED
      BY <2>2, <2>3
  <1> QED
    BY <1>2, <1>3, <1>4, <1>5, <1>6

\* The end of the format and of a pass.
LEMMA EndStores ==
  ASSUME StoreInv, EndOfFormat \/ Return \/ Allocate \/ GiveUp
  PROVE  StoreInv'
  <1>1. Stored /\ ConvOK(conv)
    BY DEF StoreInv
  <1>2. CASE EndOfFormat
    <2>1. state # "done" /\ state' # "done" /\ UNCHANGED <<size, str, len, out, conv>>
      BY <1>2 DEF EndOfFormat, Calling, Printed
    <2>2. Stored'
      BY <1>1, <2>1, KeptStores
    <2> QED
      BY <1>1, <2>1, <2>2 DEF StoreInv
  <1>3. CASE Return
    <2>1. Stored' /\ conv' = conv
      BY <1>1, <1>3, ReturnStores DEF Return
    <2> QED
      BY <1>1, <2>1 DEF StoreInv
  <1>4. CASE Allocate
    <2>1. len \in Nat
      BY <1>1, SeqSize DEF Stored, StoresPrefix
    <2>2. Returned + 1 \in Nat
      BY <1>4, <2>1 DEF Allocate, Returned
    <2>3. str' = Buffer(Returned + 1) /\ size' = Returned + 1 /\ len' = 0 /\ state' # "done"
          /\ out' = [text |-> <<>>, fields |-> <<>>] /\ conv' = Blank
      BY <1>4 DEF Allocate
    <2> DEFINE sz == Returned + 1
    <2> HIDE DEF sz
    <2>4. sz \in Nat /\ str' = Buffer(sz) /\ size' = sz
      BY <2>2, <2>3 DEF sz
    <2>5. Stored'
      BY <2>3, <2>4, FreshAfter
    <2> QED
      BY <2>3, <2>5 DEF StoreInv, Blank, ConvOK
  <1>5. CASE GiveUp
    <2>1. pass' # "write" /\ state # "done" /\ UNCHANGED <<size, str, len, out, conv>>
      BY <1>5 DEF GiveUp, Calling, Printed
    <2>2. Stored'
      BY <1>1, <2>1 DEF Stored, StoresPrefix
    <2> QED
      BY <1>1, <2>1, <2>2 DEF StoreInv
  <1> QED
    BY <1>2, <1>3, <1>4, <1>5

----------------------------------------------------------------------------
\* Where the reader goes next

\* All that the way through a format depends on.
Here(p, a, s, k, n) == [pos |-> p, arg |-> a, state |-> s, conv |-> k, len |-> n]
Place == Here(pos, arg, state, conv, len)
Start == Here(1, 1, "default", Blank, 0)

Char(c, p) == IF p <= Len(c.format) THEN c.format[p] ELSE NUL

\* What each state makes of the character ch and the argument x, if nothing
\* overflows: the actions of Vsnprintf as functions of the place.
TurnDefault(ch, p, a, k, n) ==
  IF ch = "%" THEN Here(p + 1, a, "flags", k, n) ELSE Here(p + 1, a, "default", k, n + Len(<<ch>>))

TurnFlags(ch, p, a, k, n) ==
  IF ch \in DOMAIN FlagOf THEN Here(p + 1, a, "flags", [k EXCEPT !.flags = @ \cup {FlagOf[ch]}], n)
  ELSE Here(p, a, "width", k, n)

TurnWidth(ch, x, p, a, k, n) ==
  IF ch \in Digit THEN Here(p + 1, a, "width", [k EXCEPT !.width = 10 * @ + CharToInt(ch)], n)
  ELSE IF ch = "*"
  THEN Here(p + 1, a + 1, "dot", IF x < 0 THEN [k EXCEPT !.flags = @ \cup {"MINUS"}, !.width = Negated(x)]
                                 ELSE [k EXCEPT !.width = x], n)
  ELSE Here(p, a, "dot", k, n)

TurnDot(ch, p, a, k, n) ==
  IF ch = "." THEN Here(p + 1, a, "precision", k, n) ELSE Here(p, a, "mod", k, n)

TurnPrecision(ch, x, p, a, k, n) ==
  LET given == IF k.precision = -1 THEN 0 ELSE k.precision IN
  IF ch \in Digit
  THEN Here(p + 1, a, "precision", [k EXCEPT !.precision = 10 * given + CharToInt(ch)], n)
  ELSE IF ch = "*" THEN Here(p + 1, a + 1, "mod", [k EXCEPT !.precision = IF x < 0 THEN -1 ELSE x], n)
  ELSE Here(p, a, "mod", [k EXCEPT !.precision = given], n)

TurnMod(ch, following, p, a, k, n) ==
  LET m == Modifier(ch, following, k.cflags) IN
  Here(p + m[2], a, "conv", [k EXCEPT !.cflags = m[1]], n)

\* The length of what a conversion of x prints.
UnsignedLen(ch, x, k) ==
  LET c == [k EXCEPT !.flags = @ \cup {"UNSIGNED"} \cup (IF ch = "X" THEN {"UP"} ELSE {}),
                     !.base = BaseOf(ch, @)]
  IN  Len(FmtInt(Unsigned(x, c.cflags), c.base, c.width, c.precision, c.flags))

FloatLen(ch, x, k) ==
  LET c == [k EXCEPT !.flags = @ \cup FloatFlags(ch)] IN
  Len(FmtFlt(x, c.width, c.precision, c.flags).text)

PointerLen(x, k) ==
  LET c == [k EXCEPT !.flags = @ \cup {"NUM", "UNSIGNED"}] IN
  IF x = 0 THEN Len(FmtStr(<<"(", "n", "i", "l", ")">>, k.width, -1, k.flags))
  ELSE Len(FmtInt(x, 16, c.width, c.precision, c.flags))

TurnConv(ch, x, p, a, k, n) ==
  IF ch \in {"d", "i"}
  THEN Here(p + 1, a + 1, "default", Blank,
            n + Len(FmtInt(Signed(x, k.cflags), 10, k.width, k.precision, k.flags)))
  ELSE IF ch \in {"X", "x", "o", "u"}
  THEN Here(p + 1, a + 1, "default", Blank, n + UnsignedLen(ch, x, k))
  ELSE IF ch \in {"A", "E", "G", "F", "a", "e", "g", "f"}
  THEN Here(p + 1, a + 1, "default", Blank, n + FloatLen(ch, x, k))
  ELSE IF ch = "c" THEN Here(p + 1, a + 1, "default", Blank, n + Len(<<x>>))
  ELSE IF ch = "s"
  THEN Here(p + 1, a + 1, "default", Blank, n + Len(FmtStr(x, k.width, k.precision, k.flags)))
  ELSE IF ch = "p" THEN Here(p + 1, a + 1, "default", Blank, n + PointerLen(x, k))
  ELSE IF ch = "n" THEN Here(p + 1, a + 1, "default", Blank, n)
  ELSE Here(p + 1, a, "default", Blank, IF ch = "%" THEN n + Len(<<ch>>) ELSE n)

Turn(c, p, a, s, k, n) ==
  LET ch == Char(c, p)
      x == c.args[a]
  IN  IF ch = NUL THEN Here(p, a, "out", k, n)
      ELSE IF s = "default" THEN TurnDefault(ch, p, a, k, n)
      ELSE IF s = "flags" THEN TurnFlags(ch, p, a, k, n)
      ELSE IF s = "width" THEN TurnWidth(ch, x, p, a, k, n)
      ELSE IF s = "dot" THEN TurnDot(ch, p, a, k, n)
      ELSE IF s = "precision" THEN TurnPrecision(ch, x, p, a, k, n)
      ELSE IF s = "mod" THEN TurnMod(ch, Char(c, p + 1), p, a, k, n)
      ELSE TurnConv(ch, x, p, a, k, n)
Follow(c, l) == Turn(c, l.pos, l.arg, l.state, l.conv, l.len)


LEMMA PlaceAfter == Place' = Here(pos', arg', state', conv', len')
  BY DEF Place

LEMMA FollowPlace == Follow(call, Place) = Turn(call, pos, arg, state, conv, len)
  <1>1. Place.pos = pos /\ Place.arg = arg /\ Place.state = state /\ Place.conv = conv /\ Place.len = len
    BY DEF Place, Here
  <1> QED
    BY <1>1 DEF Follow

LEMMA TurnIs ==
  ASSUME Ch # NUL
  PROVE  LET x == call.args[arg]
             t == Turn(call, pos, arg, state, conv, len)
         IN  /\ state = "default" => t = TurnDefault(Ch, pos, arg, conv, len)
             /\ state = "flags" => t = TurnFlags(Ch, pos, arg, conv, len)
             /\ state = "width" => t = TurnWidth(Ch, x, pos, arg, conv, len)
             /\ state = "dot" => t = TurnDot(Ch, pos, arg, conv, len)
             /\ state = "precision" => t = TurnPrecision(Ch, x, pos, arg, conv, len)
             /\ state = "mod" => t = TurnMod(Ch, ChAt(pos + 1), pos, arg, conv, len)
             /\ state = "conv" => t = TurnConv(Ch, x, pos, arg, conv, len)
  BY DEF Turn, Ch, ChAt, Char

\* A step that reads or converts, and does not overflow, goes where Turn says.
Follows == Place' = Turn(call, pos, arg, state, conv, len)

LEMMA StartsFollow ==
  ASSUME Default \/ Flags \/ Dot \/ Mod \/ EndOfFormat
  PROVE  Follows
  <1>1. CASE Default
    <2>1. Ch # NUL /\ Turn(call, pos, arg, state, conv, len) = TurnDefault(Ch, pos, arg, conv, len)
      BY <1>1, TurnIs DEF Default
    <2>2. pos' = pos + 1 /\ arg' = arg /\ conv' = conv
      BY <1>1 DEF Default, Keep
    <2>3. CASE Ch = "%"
      <3>1. state' = "flags" /\ len' = len
        BY <1>1, <2>3 DEF Default
      <3> QED
        BY <2>1, <2>2, <2>3, <3>1, PlaceAfter DEF TurnDefault, Follows
    <2>4. CASE Ch # "%"
      <3>1. state' = "default" /\ len' = len + Len(<<Ch>>)
        BY <1>1, <2>4 DEF Default, Put
      <3> QED
        BY <2>1, <2>2, <2>4, <3>1, PlaceAfter DEF TurnDefault, Follows
    <2> QED
      BY <2>3, <2>4
  <1>2. CASE Flags
    <2>1. Ch # NUL /\ Turn(call, pos, arg, state, conv, len) = TurnFlags(Ch, pos, arg, conv, len)
      BY <1>2, TurnIs DEF Flags
    <2> DEFINE k == [conv EXCEPT !.flags = @ \cup {FlagOf[Ch]}]
    <2>2. arg' = arg /\ len' = len
      BY <1>2 DEF Flags, Keep, Read, Printed
    <2>3. CASE Ch \in DOMAIN FlagOf
      <3>1. state' = "flags" /\ pos' = pos + 1 /\ conv' = k
        BY <1>2, <2>3 DEF Flags, Read
      <3>2. TurnFlags(Ch, pos, arg, conv, len) = Here(pos + 1, arg, "flags", k, len)
        BY <2>3 DEF TurnFlags
      <3> HIDE DEF k
      <3> QED
        BY <2>1, <2>2, <3>1, <3>2, PlaceAfter DEF Follows
    <2>4. CASE Ch \notin DOMAIN FlagOf
      <3>1. state' = "width" /\ pos' = pos /\ conv' = conv
        BY <1>2, <2>4 DEF Flags, Read
      <3> QED
        BY <2>1, <2>2, <2>4, <3>1, PlaceAfter DEF TurnFlags, Follows
    <2> QED
      BY <2>3, <2>4
  <1>3. CASE Dot
    <2>1. Ch # NUL /\ Turn(call, pos, arg, state, conv, len) = TurnDot(Ch, pos, arg, conv, len)
      BY <1>3, TurnIs DEF Dot
    <2>2. arg' = arg /\ len' = len /\ conv' = conv
      BY <1>3 DEF Dot, Keep, Read, Printed
    <2>3. \/ Ch = "." /\ state' = "precision" /\ pos' = pos + 1
          \/ Ch # "." /\ state' = "mod" /\ pos' = pos
      BY <1>3 DEF Dot, Read
    <2> QED
      BY <2>1, <2>2, <2>3, PlaceAfter DEF TurnDot, Follows
  <1>4. CASE Mod
    <2> DEFINE m == Modifier(Ch, ChAt(pos + 1), conv.cflags)
               k == [conv EXCEPT !.cflags = m[1]]
    <2>1. Turn(call, pos, arg, state, conv, len)
            = TurnMod(Ch, ChAt(pos + 1), pos, arg, conv, len)
      BY <1>4, TurnIs DEF Mod
    <2>2. arg' = arg /\ len' = len /\ state' = "conv" /\ conv' = k /\ pos' = pos + m[2]
      BY <1>4 DEF Mod, Keep, Read, Printed
    <2>3. TurnMod(Ch, ChAt(pos + 1), pos, arg, conv, len) = Here(pos + m[2], arg, "conv", k, len)
      BY DEF TurnMod
    <2> HIDE DEF m, k
    <2> QED
      BY <2>1, <2>2, <2>3, PlaceAfter DEF Follows
  <1>5. CASE EndOfFormat
    <2>1. Turn(call, pos, arg, state, conv, len) = Here(pos, arg, "out", conv, len)
      BY <1>5 DEF EndOfFormat, Turn, Ch, ChAt, Char
    <2>2. pos' = pos /\ arg' = arg /\ state' = "out" /\ conv' = conv /\ len' = len
      BY <1>5 DEF EndOfFormat, Printed
    <2> QED
      BY <2>1, <2>2, PlaceAfter DEF Follows
  <1> QED
    BY <1>1, <1>2, <1>3, <1>4, <1>5

LEMMA WidthFollows ==
  ASSUME Width, ~overflow'
  PROVE  Follows
  <1> DEFINE x == call.args[arg]
             d == CharToInt(Ch)
             k1 == [conv EXCEPT !.width = 10 * @ + d]
             k2 == IF x < 0 THEN [conv EXCEPT !.flags = @ \cup {"MINUS"}, !.width = Negated(x)]
                   ELSE [conv EXCEPT !.width = x]
  <1>1. Turn(call, pos, arg, state, conv, len) = TurnWidth(Ch, x, pos, arg, conv, len)
    BY TurnIs DEF Width
  <1>2. CASE Ch \in Digit
    <2>1. ~Exceeds(conv.width, d)
      BY <1>2 DEF Width, Overflow, Digit
    <2>2. pos' = pos + 1 /\ arg' = arg /\ state' = "width" /\ len' = len
      BY <1>2, <2>1 DEF Width, Read, Keep, Printed, Digit
    <2>3. conv' = k1
      BY <1>2, <2>1 DEF Width, Read, Digit
    <2>4. TurnWidth(Ch, x, pos, arg, conv, len) = Here(pos + 1, arg, "width", k1, len)
      BY <1>2 DEF TurnWidth
    <2> HIDE DEF k1
    <2> QED
      BY <1>1, <2>2, <2>3, <2>4, PlaceAfter DEF Follows
  <1>3. CASE Ch = "*"
    <2>0. Ch \notin Digit
      BY <1>3 DEF Digit
    <2>2. pos' = pos + 1 /\ arg' = arg + 1 /\ state' = "dot" /\ len' = len
      BY <1>3, <2>0 DEF Width, Read, Keep, Printed
    <2>3. conv' = k2
      BY <1>3, <2>0 DEF Width, Read
    <2>4. TurnWidth(Ch, x, pos, arg, conv, len) = Here(pos + 1, arg + 1, "dot", k2, len)
      BY <1>3, <2>0 DEF TurnWidth
    <2> HIDE DEF k2
    <2> QED
      BY <1>1, <2>2, <2>3, <2>4, PlaceAfter DEF Follows
  <1>4. CASE Ch \notin Digit \cup {"*"}
    <2>2. pos' = pos /\ arg' = arg /\ state' = "dot" /\ len' = len /\ conv' = conv
      BY <1>4 DEF Width, Read, Keep, Printed
    <2>4. TurnWidth(Ch, x, pos, arg, conv, len) = Here(pos, arg, "dot", conv, len)
      BY <1>4 DEF TurnWidth
    <2> QED
      BY <1>1, <2>2, <2>4, PlaceAfter DEF Follows
  <1> QED
    BY <1>2, <1>3, <1>4

LEMMA PrecisionFollows ==
  ASSUME Precision, ~overflow'
  PROVE  Follows
  <1> DEFINE x == call.args[arg]
             d == CharToInt(Ch)
             g == IF conv.precision = -1 THEN 0 ELSE conv.precision
             k1 == [conv EXCEPT !.precision = 10 * g + d]
             k2 == [conv EXCEPT !.precision = IF x < 0 THEN -1 ELSE x]
             k3 == [conv EXCEPT !.precision = g]
  <1>1. Turn(call, pos, arg, state, conv, len) = TurnPrecision(Ch, x, pos, arg, conv, len)
    BY TurnIs DEF Precision
  <1>2. CASE Ch \in Digit
    <2>1. ~Exceeds(g, d)
      BY <1>2 DEF Precision, Overflow, Digit
    <2>2. pos' = pos + 1 /\ arg' = arg /\ state' = "precision" /\ len' = len
      BY <1>2, <2>1 DEF Precision, Read, Keep, Printed, Digit
    <2>3. conv' = k1
      BY <1>2, <2>1 DEF Precision, Read, Digit
    <2>4. TurnPrecision(Ch, x, pos, arg, conv, len) = Here(pos + 1, arg, "precision", k1, len)
      BY <1>2 DEF TurnPrecision
    <2> HIDE DEF k1
    <2> QED
      BY <1>1, <2>2, <2>3, <2>4, PlaceAfter DEF Follows
  <1>3. CASE Ch = "*"
    <2>0. Ch \notin Digit
      BY <1>3 DEF Digit
    <2>2. pos' = pos + 1 /\ arg' = arg + 1 /\ state' = "mod" /\ len' = len
      BY <1>3, <2>0 DEF Precision, Read, Keep, Printed
    <2>3. conv' = k2
      BY <1>3, <2>0 DEF Precision, Read
    <2>4. TurnPrecision(Ch, x, pos, arg, conv, len) = Here(pos + 1, arg + 1, "mod", k2, len)
      BY <1>3, <2>0 DEF TurnPrecision
    <2> HIDE DEF k2
    <2> QED
      BY <1>1, <2>2, <2>3, <2>4, PlaceAfter DEF Follows
  <1>4. CASE Ch \notin Digit \cup {"*"}
    <2>2. pos' = pos /\ arg' = arg /\ state' = "mod" /\ len' = len
      BY <1>4 DEF Precision, Read, Keep, Printed
    <2>3. conv' = k3
      BY <1>4 DEF Precision, Read
    <2>4. TurnPrecision(Ch, x, pos, arg, conv, len) = Here(pos, arg, "mod", k3, len)
      BY <1>4 DEF TurnPrecision
    <2> HIDE DEF k3
    <2> QED
      BY <1>1, <2>2, <2>3, <2>4, PlaceAfter DEF Follows
  <1> QED
    BY <1>2, <1>3, <1>4


\* A conversion goes on behind its character, as long as its text is.
LEMMA ConvertGoes ==
  ASSUME NEW text, NEW c, Convert1(text, c)
  PROVE  Place' = Here(pos + 1, arg + 1, "default", Blank, len + Len(text))
  <1>1. pos' = pos + 1 /\ arg' = arg + 1 /\ state' = "default" /\ conv' = Blank
        /\ len' = len + Len(text)
    BY DEF Convert1, Put, Converted, NextConv
  <1> QED
    BY <1>1, PlaceAfter

LEMMA NumbersFollow ==
  ASSUME ConvSigned \/ ConvUnsigned \/ ConvPointer
  PROVE  Follows
  <1> DEFINE x == call.args[arg]
             t == TurnConv(Ch, x, pos, arg, conv, len)
  <1>1. Ch # NUL /\ state = "conv"
    BY DEF ConvSigned, ConvUnsigned, ConvPointer, NUL
  <1>2. Turn(call, pos, arg, state, conv, len) = t
    BY <1>1, TurnIs
  <1>3. CASE ConvSigned
    <2> DEFINE text == FmtInt(Signed(x, conv.cflags), 10, conv.width, conv.precision, conv.flags)
    <2>1. Convert1(text, conv) /\ Ch \in {"d", "i"}
      BY <1>3 DEF ConvSigned
    <2>2. t = Here(pos + 1, arg + 1, "default", Blank, len + Len(text))
      BY <2>1 DEF TurnConv
    <2> HIDE DEF text, t
    <2> QED
      BY <1>2, <2>1, <2>2, ConvertGoes DEF Follows
  <1>4. CASE ConvUnsigned
    <2> DEFINE c == [conv EXCEPT !.flags = @ \cup {"UNSIGNED"} \cup (IF Ch = "X" THEN {"UP"} ELSE {}),
                                 !.base = BaseOf(Ch, @)]
               text == FmtInt(Unsigned(x, c.cflags), c.base, c.width, c.precision, c.flags)
    <2>1. Convert1(text, c) /\ Ch \in {"X", "x", "o", "u"}
      BY <1>4 DEF ConvUnsigned
    <2>2. UnsignedLen(Ch, x, conv) = Len(text)
      BY DEF UnsignedLen
    <2> HIDE DEF text, c
    <2>3. t = Here(pos + 1, arg + 1, "default", Blank, len + Len(text))
      <3>1. Ch \notin {"d", "i"}
        BY <2>1
      <3> QED
        BY <2>1, <2>2, <3>1 DEF TurnConv
    <2> HIDE DEF t
    <2> QED
      BY <1>2, <2>1, <2>3, ConvertGoes DEF Follows
  <1>5. CASE ConvPointer
    <2> DEFINE c == [conv EXCEPT !.flags = @ \cup {"NUM", "UNSIGNED"}]
               nil == FmtStr(<<"(", "n", "i", "l", ")">>, conv.width, -1, conv.flags)
               text == FmtInt(x, 16, c.width, c.precision, c.flags)
    <2>1. Ch = "p" /\ IF x = 0 THEN Convert1(nil, conv) ELSE Convert1(text, c)
      BY <1>5 DEF ConvPointer
    <2>2. PointerLen(x, conv) = IF x = 0 THEN Len(nil) ELSE Len(text)
      BY DEF PointerLen
    <2> HIDE DEF text, c, nil
    <2>3. t = Here(pos + 1, arg + 1, "default", Blank, len + PointerLen(x, conv))
      BY <2>1 DEF TurnConv
    <2> HIDE DEF t
    <2>4. CASE x = 0
      BY <1>2, <2>1, <2>2, <2>3, <2>4, ConvertGoes DEF Follows
    <2>5. CASE x # 0
      BY <1>2, <2>1, <2>2, <2>3, <2>5, ConvertGoes DEF Follows
    <2> QED
      BY <2>4, <2>5
  <1> QED
    BY <1>3, <1>4, <1>5

LEMMA TextsFollow ==
  ASSUME ConvFloat \/ ConvChar \/ ConvString \/ ConvCount \/ ConvOther, ~overflow'
  PROVE  Follows
  <1> DEFINE x == call.args[arg]
             t == TurnConv(Ch, x, pos, arg, conv, len)
  <1>1. Ch # NUL /\ state = "conv"
    BY DEF ConvFloat, ConvChar, ConvString, ConvCount, ConvOther, NUL
  <1>2. Turn(call, pos, arg, state, conv, len) = t
    BY <1>1, TurnIs
  <1>3. CASE ConvFloat
    <2> DEFINE c == [conv EXCEPT !.flags = @ \cup FloatFlags(Ch)]
               r == FmtFlt(x, c.width, c.precision, c.flags)
               text == r.text
    <2>1. Convert1(text, c) /\ Ch \in {"A", "E", "G", "F", "a", "e", "g", "f"}
      BY <1>3 DEF ConvFloat
    <2>2. FloatLen(Ch, x, conv) = Len(text)
      BY DEF FloatLen
    <2> HIDE DEF text, c
    <2>3. t = Here(pos + 1, arg + 1, "default", Blank, len + Len(text))
      <3>1. Ch \notin {"d", "i"} /\ Ch \notin {"X", "x", "o", "u"}
        BY <2>1
      <3> QED
        BY <2>1, <2>2, <3>1 DEF TurnConv
    <2> HIDE DEF t
    <2> QED
      BY <1>2, <2>1, <2>3, ConvertGoes DEF Follows
  <1>4. CASE ConvChar
    <2> DEFINE text == <<x>>
    <2>1. Convert1(text, conv) /\ Ch = "c"
      BY <1>4 DEF ConvChar
    <2>2. t = Here(pos + 1, arg + 1, "default", Blank, len + Len(text))
      BY <2>1 DEF TurnConv
    <2> HIDE DEF text, t
    <2> QED
      BY <1>2, <2>1, <2>2, ConvertGoes DEF Follows
  <1>5. CASE ConvString
    <2> DEFINE text == FmtStr(x, conv.width, conv.precision, conv.flags)
    <2>1. Convert1(text, conv) /\ Ch = "s"
      BY <1>5 DEF ConvString
    <2>2. t = Here(pos + 1, arg + 1, "default", Blank, len + Len(text))
      BY <2>1 DEF TurnConv
    <2> HIDE DEF text, t
    <2> QED
      BY <1>2, <2>1, <2>2, ConvertGoes DEF Follows
  <1>6. CASE ConvCount
    <2>1. Ch = "n" /\ pos' = pos + 1 /\ arg' = arg + 1 /\ state' = "default" /\ conv' = Blank
          /\ len' = len
      BY <1>6 DEF ConvCount, Converted, NextConv
    <2>2. t = Here(pos + 1, arg + 1, "default", Blank, len)
      BY <2>1 DEF TurnConv
    <2> QED
      BY <1>2, <2>1, <2>2, PlaceAfter DEF Follows
  <1>7. CASE ConvOther
    <2>1. pos' = pos + 1 /\ arg' = arg /\ state' = "default" /\ conv' = Blank
      BY <1>7 DEF ConvOther, Converted, NextConv
    <2>2. t = Here(pos + 1, arg, "default", Blank, IF Ch = "%" THEN len + Len(<<Ch>>) ELSE len)
      BY <1>7 DEF ConvOther, TurnConv
    <2>3. len' = IF Ch = "%" THEN len + Len(<<Ch>>) ELSE len
      BY <1>7 DEF ConvOther, Put
    <2> QED
      BY <1>2, <2>1, <2>2, <2>3, PlaceAfter DEF Follows
  <1> QED
    BY <1>3, <1>4, <1>5, <1>6, <1>7

\* The steps of the reader, of either pass.
Reading ==
  \/ Default \/ Flags \/ Width \/ Dot \/ Precision \/ Mod
  \/ ConvSigned \/ ConvUnsigned \/ ConvFloat \/ ConvChar \/ ConvString \/ ConvPointer
  \/ ConvCount \/ ConvOther \/ EndOfFormat

LEMMA ReadingFollows ==
  ASSUME Reading, ~overflow'
  PROVE  Place' = Follow(call, Place)
  BY StartsFollow, WidthFollows, PrecisionFollows, NumbersFollow, TextsFollow, FollowPlace
     DEF Reading, Follows

\* What the reader leaves alone.
LEMMA ReadingKeeps ==
  ASSUME Reading, PlaceOK
  PROVE  /\ call' = call /\ api' = api /\ pass' = pass /\ size' = size /\ result' = result
         /\ state # "out" /\ state # "done" /\ state' # "done"
         /\ overflow' = overflow \/ overflow' = TRUE
  <1>1. CASE Default \/ Flags \/ Dot \/ Mod \/ EndOfFormat
    BY <1>1 DEF Default, Flags, Dot, Mod, EndOfFormat, Read, Keep, Calling
  <1>2. CASE Width \/ Precision
    BY <1>2 DEF Width, Precision, Overflow, Read, Keep, Calling
  <1>3. CASE ConvSigned \/ ConvUnsigned \/ ConvPointer \/ ConvChar \/ ConvString
    <2>1. PICK text, c : Convert1(text, c)
      BY <1>3 DEF ConvSigned, ConvUnsigned, ConvPointer, ConvChar, ConvString
    <2>2. state = "conv"
      BY <1>3 DEF ConvSigned, ConvUnsigned, ConvPointer, ConvChar, ConvString
    <2> QED
      BY <2>1, <2>2 DEF Convert1, Converted, Calling
  <1>4. CASE ConvFloat
    <2>1. (\E text, c : Convert1(text, c)) \/ (overflow' = TRUE /\ \E c : Read(c, "out"))
      BY <1>4 DEF ConvFloat
    <2>2. state = "conv"
      BY <1>4 DEF ConvFloat
    <2> QED
      BY <2>1, <2>2 DEF Convert1, Converted, Read, Calling
  <1>5. CASE ConvCount \/ ConvOther
    BY <1>5 DEF ConvCount, ConvOther, Converted, Calling
  <1> QED
    BY <1>1, <1>2, <1>3, <1>4, <1>5 DEF Reading


----------------------------------------------------------------------------
\* The two passes of asprintf go the same way

\* r goes n steps from the start of c's format, and is not at its end before.
Traced(c, n, r) ==
  /\ n \in Nat /\ r[0] = Start
  /\ \A i \in 0 .. n - 1 : r[i].state # "out" /\ r[i + 1] = Follow(c, r[i])

\* A way to the end of a format whose text fills a block of sz but for the terminator.
Through(c, n, r, sz) == Traced(c, n, r) /\ r[n].state = "out" /\ r[n].len = sz - 1

LEMMA TraceStart == \E r : Traced(call, 0, r) /\ r[0] = Start
  <1> DEFINE r == [i \in {0} |-> Start]
  <1>1. r[0] = Start
    OBVIOUS
  <1>2. Traced(call, 0, r)
    BY <1>1 DEF Traced
  <1> QED
    BY <1>1, <1>2

LEMMA TraceOn ==
  ASSUME NEW c, NEW n, NEW r, Traced(c, n, r), r[n].state # "out"
  PROVE  \E q : Traced(c, n + 1, q) /\ q[n + 1] = Follow(c, r[n])
  <1> DEFINE q == [i \in 0 .. n + 1 |-> IF i <= n THEN r[i] ELSE Follow(c, r[n])]
  <1>0. n \in Nat
    BY DEF Traced
  <1>1. q[n + 1] = Follow(c, r[n]) /\ \A i \in 0 .. n : q[i] = r[i]
    BY <1>0
  <1> HIDE DEF q
  <1>2. ASSUME NEW i \in 0 .. (n + 1) - 1
        PROVE  q[i].state # "out" /\ q[i + 1] = Follow(c, q[i])
    <2>1. CASE i = n
      BY <1>0, <1>1, <2>1
    <2>2. CASE i # n
      <3>1. i \in 0 .. n - 1 /\ i + 1 \in 0 .. n /\ i \in 0 .. n
        BY <1>0, <2>2
      <3> QED
        BY <1>1, <3>1 DEF Traced
    <2> QED
      BY <2>1, <2>2
  <1>3. n + 1 \in Nat /\ 0 \in 0 .. n
    BY <1>0
  <1>4. q[0] = Start
    BY <1>1, <1>3 DEF Traced
  <1>5. Traced(c, n + 1, q)
    BY <1>2, <1>3, <1>4 DEF Traced
  <1> QED
    BY <1>1, <1>5

\* The measuring pass is on its way, and the writing pass on the way measured.
Measuring ==
  (pass = "measure" /\ state # "done" /\ ~overflow) =>
    \E n, r : Traced(call, n, r) /\ r[n] = Place

Writing ==
  (pass = "write" /\ api = "asprintf") =>
    \E n, r : /\ Through(call, n, r, size)
              /\ (state # "done" /\ ~overflow) => \E k \in 0 .. n : Place = r[k]

Filled ==
  (api = "asprintf" /\ state = "done" /\ result >= 0) =>
    pass = "write" /\ result = len /\ size = len + 1

PassInv == (api = "snprintf" => pass = "write") /\ Measuring /\ Writing /\ Filled

LEMMA PassStart == Init => PassInv
  <1> SUFFICES ASSUME Init PROVE PassInv
    OBVIOUS
  <1>1. Place = Start
    BY DEF Init, Place, Start
  <1>2. Measuring
    BY <1>1, TraceStart DEF Measuring
  <1> QED
    BY <1>2 DEF Init, PassInv, Writing, Filled

LEMMA ReadingPasses ==
  ASSUME PassInv, PlaceOK, Reading
  PROVE  PassInv'
  <1>1. /\ call' = call /\ api' = api /\ pass' = pass /\ size' = size /\ result' = result
        /\ state # "out" /\ state # "done" /\ state' # "done"
        /\ overflow' = overflow \/ overflow' = TRUE
    BY ReadingKeeps
  <1>2. Place.state = state
    BY DEF Place, Here
  <1>3. ASSUME ~overflow'
        PROVE  ~overflow /\ Place' = Follow(call, Place)
    BY <1>1, <1>3, ReadingFollows
  <1>4. Measuring'
    <2> SUFFICES ASSUME pass = "measure", ~overflow'
                 PROVE  \E n, r : Traced(call, n, r) /\ r[n] = Place'
      BY <1>1 DEF Measuring
    <2>1. PICK n, r : Traced(call, n, r) /\ r[n] = Place
      BY <1>1, <1>3 DEF PassInv, Measuring
    <2>2. r[n].state # "out"
      BY <1>1, <1>2, <2>1
    <2>3. PICK q : Traced(call, n + 1, q) /\ q[n + 1] = Follow(call, r[n])
      BY <2>1, <2>2, TraceOn
    <2> QED
      BY <1>3, <2>1, <2>3
  <1>5. Writing'
    <2> SUFFICES ASSUME pass = "write", api = "asprintf"
                 PROVE  \E n, r : /\ Through(call, n, r, size)
                                  /\ ~overflow' => \E k \in 0 .. n : Place' = r[k]
      BY <1>1 DEF Writing
    <2>1. PICK n, r : /\ Through(call, n, r, size)
                      /\ (state # "done" /\ ~overflow) => \E k \in 0 .. n : Place = r[k]
      BY DEF PassInv, Writing
    <2>2. ASSUME ~overflow'
          PROVE  \E k \in 0 .. n : Place' = r[k]
      <3>1. PICK k \in 0 .. n : Place = r[k]
        BY <1>1, <1>3, <2>1, <2>2
      <3>2. n \in Nat /\ r[n].state = "out" /\ r[k].state # "out"
        BY <1>1, <1>2, <2>1, <3>1 DEF Through, Traced
      <3>3. k \in 0 .. n - 1 /\ k + 1 \in 0 .. n
        BY <3>1, <3>2
      <3>4. r[k + 1] = Follow(call, r[k])
        BY <2>1, <3>3 DEF Through, Traced
      <3> QED
        BY <1>3, <2>2, <3>1, <3>3, <3>4
    <2> QED
      BY <2>1, <2>2
  <1> QED
    BY <1>1, <1>4, <1>5 DEF PassInv, Filled

LEMMA EndPasses ==
  ASSUME PassInv, StoreInv, Return \/ Allocate \/ GiveUp
  PROVE  PassInv'
  <1>1. len \in Nat /\ size \in Nat
    BY SeqSize DEF StoreInv, Stored, StoresPrefix
  <1>2. Place.state = state /\ Place.len = len
    BY DEF Place, Here
  <1>3. CASE Return
    <2>1. /\ state = "out" /\ pass = "write" /\ state' = "done" /\ result' = Returned
          /\ call' = call /\ api' = api /\ pass' = pass /\ size' = size /\ len' = len
      BY <1>3 DEF Return, Calling
    <2>2. ASSUME api = "asprintf"
          PROVE  \E n, r : Through(call, n, r, size)
      BY <2>1, <2>2 DEF PassInv, Writing
    <2>3. ASSUME api = "asprintf", result' >= 0
          PROVE  result' = len /\ size = len + 1
      <3>1. ~overflow /\ result' = len
        BY <2>1, <2>3 DEF Returned
      <3>2. PICK n, r : /\ Through(call, n, r, size)
                        /\ (state # "done" /\ ~overflow) => \E k \in 0 .. n : Place = r[k]
        BY <2>1, <2>3 DEF PassInv, Writing
      <3>3. PICK k \in 0 .. n : Place = r[k]
        BY <2>1, <3>1, <3>2
      <3>4. k = n
        <4>1. n \in Nat /\ \A i \in 0 .. n - 1 : r[i].state # "out"
          BY <3>2 DEF Through, Traced
        <4>2. r[k].state = "out"
          BY <1>2, <2>1, <3>3
        <4> QED
          BY <4>1, <4>2
      <3>5. len = size - 1
        BY <1>2, <3>2, <3>3, <3>4 DEF Through
      <3> QED
        BY <1>1, <3>1, <3>5
    <2> QED
      BY <2>1, <2>2, <2>3 DEF PassInv, Measuring, Writing, Filled
  <1>4. CASE Allocate
    <2>1. /\ state = "out" /\ pass = "measure" /\ Returned >= 0 /\ pass' = "write"
          /\ size' = Returned + 1 /\ state' = "default" /\ call' = call /\ api' = api
      BY <1>4 DEF Allocate
    <2>2. Place' = Start
      BY <1>4, PlaceAfter DEF Allocate, Start
    <2>3. ~overflow /\ Returned = len
      BY <2>1 DEF Returned
    <2>4. PICK n, r : Traced(call, n, r) /\ r[n] = Place
      BY <2>1, <2>3 DEF PassInv, Measuring
    <2>5. Through(call, n, r, size')
      <3>1. size' - 1 = len
        BY <1>1, <2>1, <2>3
      <3> QED
        BY <1>2, <2>1, <2>4, <3>1 DEF Through
    <2>6. 0 \in 0 .. n /\ Place' = r[0]
      BY <2>2, <2>4 DEF Traced
    <2>7. Writing'
      BY <2>1, <2>5, <2>6 DEF Writing
    <2> QED
      BY <2>1, <2>7 DEF PassInv, Measuring, Filled
  <1>5. CASE GiveUp
    <2>1. pass' = "measure" /\ state' = "done" /\ result' = -1 /\ api' = api /\ pass = "measure"
      BY <1>5 DEF GiveUp, Calling
    <2>2. ~(-1 >= 0)
      OBVIOUS
    <2> QED
      BY <2>1, <2>2 DEF PassInv, Measuring, Writing, Filled
  <1> QED
    BY <1>3, <1>4, <1>5

----------------------------------------------------------------------------
\* What %n reported

CountsInv ==
  /\ IsSeq(counts)
  /\ \A k \in DOMAIN counts : counts[k].at \in Nat
                              /\ counts[k].given = Signed(counts[k].at, counts[k].as)

\* A count below the half of its type's range is itself.
LEMMA TypeBitsInt ==
  ASSUME NEW t
  PROVE  TypeBits(t) \in Int
  <1>1. \A u \in {"char", "short", "int", "long"} : Bits[u] \in Int
    BY VsnprintfAssumption, FmtAssumption
  <1>2. MaxBits \in Int
    BY FmtAssumption
  <1> QED
    BY <1>1, <1>2 DEF TypeBits

LEMMA PowerInt ==
  ASSUME NEW n \in Int
  PROVE  2 ^ n \in Int
  OBVIOUS

LEMMA SignedSmall ==
  ASSUME NEW v \in Nat, NEW t, v < 2 ^ (TypeBits(t) - 1)
  PROVE  Signed(v, t) = v
  <1> DEFINE h == 2 ^ (TypeBits(t) - 1)
  <1>1. h \in Int
    <2>1. TypeBits(t) - 1 \in Int
      BY TypeBitsInt
    <2> QED
      BY <2>1, PowerInt
  <1>2. Signed(v, t) = ((v + h) % (2 * h)) - h
    BY DEF Signed
  <1> HIDE DEF h
  <1>3. v < h
    BY DEF h
  <1>4. (v + h) % (2 * h) = v + h
    <2>1. 2 * h \in Nat /\ 2 * h > 0 /\ v + h \in Nat /\ v + h < 2 * h
      BY <1>1, <1>3
    <2> DEFINE a == v + h
               b == 2 * h
    <2>2. a \in Nat /\ b \in Nat /\ b > 0 /\ a < b
      BY <2>1
    <2> HIDE DEF a, b
    <2>3. a % b = a
      BY <2>2
    <2> QED
      BY <2>3 DEF a, b
  <1> QED
    BY <1>1, <1>2, <1>4

LEMMA CountsStep ==
  ASSUME StoreInv, CountsInv, [Next \/ Stopped]_vars
  PROVE  CountsInv'
  <1>1. CASE counts' = counts
    BY <1>1 DEF CountsInv
  <1>2. CASE Allocate
    <2>1. counts' = <<>>
      BY <1>2 DEF Allocate
    <2> QED
      BY <2>1, SeqEmpty DEF CountsInv
  <1>3. CASE ConvCount
    <2> DEFINE e == [at |-> Len(out.text), as |-> conv.cflags, given |-> Signed(len, conv.cflags)]
    <2>1. counts' = Append(counts, e)
      BY <1>3 DEF ConvCount
    <2>2. len \in Nat /\ len = Len(out.text)
      BY SeqSize DEF StoreInv, Stored, StoresPrefix
    <2>3. e.at = len /\ e.as = conv.cflags /\ e.given = Signed(len, conv.cflags)
      BY <2>2
    <2> HIDE DEF e
    <2>4. PICK S : counts \in Seq(S)
      BY DEF CountsInv, IsSeq
    <2>5. counts \in Seq(S \cup {e})
      BY <2>4
    <2>6. /\ counts' \in Seq(S \cup {e}) /\ Len(counts') = Len(counts) + 1
          /\ \A k \in 1 .. Len(counts) : counts'[k] = counts[k]
          /\ counts'[Len(counts) + 1] = e
      BY <2>1, <2>5, AppendProperties
    <2>7. IsSeq(counts')
      BY <2>6 DEF IsSeq
    <2>8. DOMAIN counts' = 1 .. Len(counts) + 1 /\ DOMAIN counts = 1 .. Len(counts)
          /\ Len(counts) \in Nat
      BY <2>4, <2>6
    <2>9. ASSUME NEW k \in DOMAIN counts'
          PROVE  counts'[k].at \in Nat /\ counts'[k].given = Signed(counts'[k].at, counts'[k].as)
      <3>1. CASE k \in DOMAIN counts
        BY <2>6, <2>8, <3>1 DEF CountsInv
      <3>2. CASE k = Len(counts) + 1
        BY <2>2, <2>3, <2>6, <3>2
      <3> QED
        BY <2>8, <3>1, <3>2
    <2> QED
      BY <2>7, <2>9 DEF CountsInv
  <1>4. CASE UNCHANGED vars
    BY <1>1, <1>4 DEF vars
  <1>5. CASE Default \/ Flags \/ Width \/ Dot \/ Precision \/ Mod \/ EndOfFormat
    BY <1>1, <1>5 DEF Default, Flags, Width, Dot, Precision, Mod, EndOfFormat, Overflow, Read, Printed
  <1>6. CASE ConvSigned \/ ConvUnsigned \/ ConvChar \/ ConvString \/ ConvPointer
    BY <1>1, <1>6 DEF ConvSigned, ConvUnsigned, ConvChar, ConvString, ConvPointer, Convert1
  <1>7. CASE ConvFloat
    BY <1>1, <1>7 DEF ConvFloat, Convert1, Read, Printed
  <1>8. CASE ConvOther \/ Return \/ GiveUp
    BY <1>1, <1>8 DEF ConvOther, Return, GiveUp, Printed
  <1> QED
    BY <1>2, <1>3, <1>4, <1>5, <1>6, <1>7, <1>8 DEF Next, Stopped

LEMMA PassStep ==
  ASSUME PlaceOK, StoreInv, PassInv, [Next \/ Stopped]_vars
  PROVE  PassInv'
  <1>1. CASE UNCHANGED vars
    <2>1. Place' = Place
      BY <1>1 DEF Place, vars
    <2> QED
      BY <1>1, <2>1 DEF PassInv, Measuring, Writing, Filled, vars
  <1> QED
    BY <1>1, ReadingPasses, EndPasses DEF Next, Stopped, Reading

\* What has been proved of the buffer, the length and the counts.
LEMMA ExactFrom ==
  ASSUME StoreInv, PassInv, CountsInv
  PROVE  AsprintfExact
  <1> SUFFICES ASSUME api = "asprintf", state = "done", result >= 0
               PROVE  /\ size = result + 1 /\ result = Len(out.text)
                      /\ \A i \in 0 .. result - 1 : str[i] = out.text[i + 1]
                      /\ str[result] = NUL
                      /\ \A k \in DOMAIN counts :
                           counts[k].at < 2 ^ (TypeBits(counts[k].as) - 1) =>
                             counts[k].at = counts[k].given
    BY DEF AsprintfExact
  <1>1. pass = "write" /\ result = len /\ size = len + 1
    BY DEF PassInv, Filled
  <1>2. len \in Nat /\ len = Len(out.text) /\ size \in Nat /\ DOMAIN str = 0 .. size
    BY SeqSize DEF StoreInv, Stored, StoresPrefix
  <1>3. ~(len + 1 < size) /\ AtLeast0(size - 1) = len /\ size > 0 /\ len \in 0 .. size
        /\ \A i \in 0 .. len - 1 : i \in 0 .. size /\ i < len
    BY <1>1, <1>2 DEF AtLeast0
  <1>4. \A i \in 0 .. size : str[i] = IF i < len THEN out.text[i + 1]
                                      ELSE IF i = len THEN NUL ELSE Unset
    BY <1>1, <1>2, <1>3 DEF StoreInv, Stored, StoresPrefix
  <1>5. ASSUME NEW k \in DOMAIN counts, counts[k].at < 2 ^ (TypeBits(counts[k].as) - 1)
        PROVE  counts[k].at = counts[k].given
    BY <1>5, SignedSmall DEF CountsInv
  <1>6. size = result + 1 /\ result = Len(out.text)
    BY <1>1, <1>2
  <1>7. \A i \in 0 .. result - 1 : str[i] = out.text[i + 1]
    BY <1>1, <1>3, <1>4
  <1>8. str[result] = NUL
    <2>1. str[len] = NUL
      BY <1>2, <1>3, <1>4
    <2> QED
      BY <1>1, <2>1
  <1> QED
    BY <1>5, <1>6, <1>7, <1>8, Zenon


----------------------------------------------------------------------------
\* How wide the fields are

LaidOut(f) ==
  /\ f.as = "c" \/ TakenTwice(f) \/ Len(f.text) >= f.width
  /\ (f.as = "s" /\ f.value # NullPtr) => StringAsAsked(f)

FieldsInv == IsSeq(out.fields) /\ \A k \in DOMAIN out.fields : LaidOut(out.fields[k])

\* What Convert1 keeps of a conversion.
FieldOf(c, text) ==
  [as |-> Ch, flags |-> c.flags, width |-> c.width, precision |-> c.precision,
   cflags |-> c.cflags, value |-> call.args[arg], text |-> text]

LEMMA FieldIs ==
  ASSUME NEW c, NEW text, NEW f, f = FieldOf(c, text)
  PROVE  /\ f.as = Ch /\ f.flags = c.flags /\ f.width = c.width /\ f.precision = c.precision
         /\ f.cflags = c.cflags /\ f.value = call.args[arg] /\ f.text = text
  BY DEF FieldOf

LEMMA SeqAppend ==
  ASSUME NEW s, IsSeq(s), NEW x
  PROVE  /\ IsSeq(Append(s, x)) /\ Len(Append(s, x)) = Len(s) + 1
         /\ \A i \in 1 .. Len(s) : Append(s, x)[i] = s[i]
         /\ Append(s, x)[Len(s) + 1] = x
  <1>1. PICK S : s \in Seq(S)
    BY DEF IsSeq
  <1> DEFINE T == S \cup {x}
  <1>2. S \subseteq T /\ x \in T
    OBVIOUS
  <1> HIDE DEF T
  <1>3. s \in Seq(T)
    BY <1>1, <1>2, SeqMore
  <1>4. Append(s, x) \in Seq(T)
    BY <1>2, <1>3, AppendProperties
  <1>5. IsSeq(Append(s, x))
    BY <1>4, Zenon DEF IsSeq
  <1> QED
    BY <1>2, <1>3, <1>5, AppendProperties

\* The sequence of no characters is nothing to put in front or behind.
LEMMA SeqUnit ==
  ASSUME NEW s, IsSeq(s)
  PROVE  s \o <<>> = s /\ <<>> \o s = s /\ SubSeq(s, 1, Len(s)) = s
  <1>1. PICK S : s \in Seq(S)
    BY DEF IsSeq
  <1> QED
    BY <1>1, ConcatEmptySeq, SubSeqFull

\* fmtstr pads what it prints of the string on one side, up to the width.
LEMMA StringLaidOut ==
  ASSUME NEW f, IsSeq(f.value), f.value # NullPtr, f.width \in Int, f.precision \in Int,
         f.precision >= -1, f.text = FmtStr(f.value, f.width, f.precision, f.flags)
  PROVE  StringAsAsked(f)
  <1> DEFINE v == f.value
             whole == f.precision = -1 \/ Len(v) < f.precision
             strln == IF whole THEN Len(v) ELSE f.precision
             n == AtLeast0(f.width - strln)
             blanks == Times(" ", n)
             left == "MINUS" \in f.flags
             cut == SubSeq(v, 1, strln)
             body == IF whole THEN v ELSE SubSeq(v, 1, f.precision)
             pad == Len(f.text) - Len(body)
  <1>1. f.text = When(~left, blanks) \o cut \o When(left, blanks)
    BY DEF FmtStr
  <1>2. Len(v) \in Nat /\ strln \in Nat
    BY SeqSize
  <1>3. cut = body
    BY SeqUnit
  <1>4. IsSeq(body) /\ Len(body) = strln
    <2>1. IsSeq(cut) /\ Len(cut) = AtLeast0(strln)
      <3>1. strln \in Int
        BY <1>2
      <3> HIDE DEF strln
      <3> QED
        BY <3>1, SeqSub
    <2> QED
      BY <1>2, <1>3, <2>1 DEF AtLeast0
  <1> HIDE DEF cut, body, whole, strln
  <1>5. n \in Nat /\ (n > 0 => n + strln = f.width)
    BY <1>2 DEF AtLeast0
  <1>6. IsSeq(blanks) /\ Len(blanks) = n
    <2> HIDE DEF n
    <2>1. n \in Int /\ AtLeast0(n) = n
      BY <1>5 DEF AtLeast0
    <2> QED
      BY <2>1, SeqTimes
  <1>7. f.text = IF left THEN body \o blanks ELSE blanks \o body
    <2> HIDE DEF blanks
    <2>1. IsSeq(body \o blanks) /\ IsSeq(blanks \o body)
      BY <1>4, <1>6, SeqConcat
    <2>2. CASE left
      BY <1>1, <1>3, <1>4, <2>2, SeqUnit DEF When
    <2>3. CASE ~left
      BY <1>1, <1>3, <2>1, <2>3, SeqUnit DEF When
    <2> QED
      BY <2>2, <2>3
  <1>8. pad = n /\ Len(f.text) = n + strln
    <2> HIDE DEF blanks, n
    <2>1. Len(body \o blanks) = strln + n /\ Len(blanks \o body) = n + strln
      BY <1>4, <1>6, SeqConcat
    <2>2. Len(f.text) = n + strln
      BY <1>2, <1>5, <1>7, <2>1
    <2> QED
      BY <1>2, <1>4, <1>5, <2>2
  <1> HIDE DEF n, pad
  <1>9. f.text = IF left THEN body \o Times(" ", pad) ELSE Times(" ", pad) \o body
    BY <1>7, <1>8, Zenon
  <1>10. pad >= 0 /\ (pad > 0 => Len(f.text) <= f.width)
    BY <1>2, <1>5, <1>8
  <1>11. Padded(f, body)
    BY <1>9, <1>10, Zenon DEF Padded, pad
  <1> QED
    BY <1>11 DEF StringAsAsked, body, whole

LEMMA FieldsKept ==
  ASSUME FieldsInv, out'.fields = out.fields
  PROVE  FieldsInv'
  BY DEF FieldsInv, LaidOut, TakenTwice, StringAsAsked, Padded

LEMMA ConvertLays ==
  ASSUME FieldsInv, NEW text, NEW c, Convert1(text, c), LaidOut(FieldOf(c, text))
  PROVE  FieldsInv'
  <1> DEFINE e == FieldOf(c, text)
             s == out.text \o text
             fs == Append(out.fields, e)
             n == Len(out.fields)
  <1>1. out' = [text |-> s, fields |-> fs]
    BY DEF Convert1, FieldOf
  <1>2. LaidOut(e)
    OBVIOUS
  <1> HIDE DEF e, s
  <1>3. /\ IsSeq(fs) /\ Len(fs) = n + 1 /\ n \in Nat /\ DOMAIN fs = 1 .. n + 1
        /\ \A i \in 1 .. n : fs[i] = out.fields[i]
        /\ fs[n + 1] = e
        /\ DOMAIN out.fields = 1 .. n
    <2>1. IsSeq(out.fields)
      BY DEF FieldsInv
    <2> QED
      BY <2>1, SeqAppend, SeqSize
  <1> HIDE DEF fs, n
  <1>4. out'.fields = fs
    BY <1>1
  <1>5. ASSUME NEW k \in 1 .. n + 1 PROVE LaidOut(fs[k])
    <2>1. CASE k = n + 1
      BY <1>2, <1>3, <2>1
    <2>2. CASE k # n + 1
      <3>1. k \in 1 .. n
        BY <1>3, <2>2
      <3> QED
        BY <1>3, <3>1 DEF FieldsInv
    <2> QED
      BY <2>1, <2>2
  <1> QED
    BY <1>3, <1>4, <1>5, Zenon DEF FieldsInv

\* A conversion other than %s, whose text is as wide as asked.
LEMMA WideLays ==
  ASSUME FieldsInv, Ch # "s", NEW text, NEW c, Ch = "c" \/ Len(text) >= c.width, Convert1(text, c)
  PROVE  FieldsInv'
  <1> DEFINE f == FieldOf(c, text)
  <1>1. f = FieldOf(c, text)
    OBVIOUS
  <1> HIDE DEF f
  <1>2. f.as = Ch /\ f.text = text /\ f.width = c.width
    BY <1>1, FieldIs
  <1>3. LaidOut(f)
    BY <1>2 DEF LaidOut
  <1> QED
    BY <1>1, <1>3, ConvertLays

LEMMA NumberLays ==
  ASSUME FieldsInv, Ch \in {"d", "i", "u", "o", "x", "X", "p"},
         NEW c, c.width \in Int, c.precision \in Int, NEW value, NEW base, base = 8 => Ch = "o",
         Convert1(FmtInt(value, base, c.width, c.precision, c.flags), c)
  PROVE  FieldsInv'
  <1> DEFINE text == FmtInt(value, base, c.width, c.precision, c.flags)
             f == FieldOf(c, text)
  <1>1. \/ "QUOTE" \in c.flags /\ (c.precision > 0 \/ (base = 8 /\ "NUM" \in c.flags))
        \/ Len(text) >= c.width
    BY SeqFmtInt
  <1>2. f = FieldOf(c, text) /\ Convert1(text, c)
    OBVIOUS
  <1> HIDE DEF f, text
  <1>3. f.as = Ch /\ f.flags = c.flags /\ f.text = text /\ f.width = c.width /\ f.precision = c.precision
    BY <1>2, FieldIs
  <1>4. TakenTwice(f) \/ Len(f.text) >= f.width
    BY <1>1, <1>3 DEF TakenTwice
  <1>5. f.as # "s"
    BY <1>3
  <1>6. LaidOut(f)
    BY <1>4, <1>5 DEF LaidOut
  <1> QED
    BY <1>2, <1>6, ConvertLays

LEMMA NumbersLay ==
  ASSUME FieldsInv, StoreInv, ConvSigned \/ ConvUnsigned \/ ConvPointer
  PROVE  FieldsInv'
  <1>1. ConvOK(conv) /\ conv.width \in Int /\ conv.precision \in Int
    BY DEF StoreInv, ConvOK
  <1>2. CASE ConvSigned
    <2> DEFINE v == Signed(call.args[arg], conv.cflags)
               b == 10
    <2>1. Ch \in {"d", "i"} /\ Convert1(FmtInt(v, b, conv.width, conv.precision, conv.flags), conv)
      BY <1>2 DEF ConvSigned
    <2>2. b # 8
      OBVIOUS
    <2> HIDE DEF v, b
    <2> QED
      BY <1>1, <2>1, <2>2, NumberLays
  <1>3. CASE ConvUnsigned
    <2> DEFINE fl == conv.flags \cup {"UNSIGNED"} \cup (IF Ch = "X" THEN {"UP"} ELSE {})
               b == BaseOf(Ch, conv.base)
               c1 == [conv EXCEPT !.flags = fl]
               c == [c1 EXCEPT !.base = b]
               v == Unsigned(call.args[arg], c.cflags)
    <2>1. Convert1(FmtInt(v, c.base, c.width, c.precision, c.flags), c) /\ Ch \in {"X", "x", "o", "u"}
      BY <1>3 DEF ConvUnsigned
    <2>2. conv.base = 0
      BY <1>1 DEF ConvOK
    <2>3. b = 8 => Ch = "o"
      BY <2>1, <2>2 DEF BaseOf
    <2> HIDE DEF fl, b, v
    <2>4. ConvOK(c1)
      BY <1>1, ConvFlags
    <2> HIDE DEF c1
    <2>5. c = [c1 EXCEPT !.base = b]
      OBVIOUS
    <2> HIDE DEF c
    <2>6. c.width \in Int /\ c.precision \in Int /\ c.base = b
      BY <2>4, <2>5, ConvBase
    <2> QED
      BY <2>1, <2>3, <2>6, NumberLays
  <1>4. CASE ConvPointer
    <2> DEFINE fl == conv.flags \cup {"NUM", "UNSIGNED"}
               c == [conv EXCEPT !.flags = fl]
               v == call.args[arg]
               nil == <<"(", "n", "i", "l", ")">>
               p == -1
               b == 16
               text == FmtStr(nil, conv.width, p, conv.flags)
    <2>1. Convert1(text, conv) \/ Convert1(FmtInt(v, b, c.width, c.precision, c.flags), c)
      BY <1>4 DEF ConvPointer
    <2>2. IsSeq(nil)
      BY SeqFive, Zenon
    <2>3. p \in Int /\ p >= -1 /\ b # 8
      OBVIOUS
    <2>4. Ch = "p"
      BY <1>4 DEF ConvPointer
    <2> HIDE DEF nil, fl, v, p, b
    <2>5. Len(text) >= conv.width
      BY <1>1, <2>2, <2>3, SeqFmtStr
    <2>6. c.width \in Int /\ c.precision \in Int
      BY <1>1, ConvFlags DEF ConvOK
    <2> HIDE DEF c, text
    <2>7. CASE Convert1(text, conv)
      BY <2>4, <2>5, <2>7, WideLays
    <2>8. CASE Convert1(FmtInt(v, b, c.width, c.precision, c.flags), c)
      BY <2>3, <2>4, <2>6, <2>8, NumberLays
    <2> QED
      BY <2>1, <2>7, <2>8
  <1> QED
    BY <1>2, <1>3, <1>4

LEMMA TextsLay ==
  ASSUME FieldsInv, StoreInv, ConvFloat \/ ConvChar \/ ConvString
  PROVE  FieldsInv'
  <1>1. ConvOK(conv) /\ conv.width \in Int /\ conv.precision \in Int /\ conv.precision >= -1
    BY DEF StoreInv, ConvOK
  <1>2. CASE ConvFloat
    <2> DEFINE fl == conv.flags \cup FloatFlags(Ch)
               c == [conv EXCEPT !.flags = fl]
               v == call.args[arg]
               r == FmtFlt(v, c.width, c.precision, c.flags)
               text == r.text
    <2>1. Read(c, "out") \/ Convert1(text, c)
      BY <1>2 DEF ConvFloat
    <2>2. v \in Floating /\ Ch # "s"
      BY <1>2 DEF ConvFloat, Given
    <2> HIDE DEF fl, v
    <2>3. ConvOK(c)
      BY <1>1, ConvFlags
    <2> HIDE DEF c
    <2>4. Len(text) >= c.width
      <3>1. c.width \in Int /\ c.precision \in Int
        BY <2>3 DEF ConvOK
      <3> QED
        BY <2>2, <3>1, SeqFmtFlt
    <2> HIDE DEF text
    <2>5. CASE Read(c, "out")
      BY <2>5, FieldsKept DEF Read, Printed
    <2>6. CASE Convert1(text, c)
      BY <2>2, <2>4, <2>6, WideLays
    <2> QED
      BY <2>1, <2>5, <2>6
  <1>3. CASE ConvChar
    <2> DEFINE text == <<call.args[arg]>>
    <2>1. Convert1(text, conv) /\ Ch = "c"
      BY <1>3 DEF ConvChar
    <2>2. Ch # "s"
      BY <2>1
    <2> HIDE DEF text
    <2> QED
      BY <2>1, <2>2, WideLays
  <1>4. CASE ConvString
    <2> DEFINE v == call.args[arg]
               text == FmtStr(v, conv.width, conv.precision, conv.flags)
               f == FieldOf(conv, text)
    <2>1. Convert1(text, conv) /\ v \in Seq(STRING) /\ Ch = "s"
      BY <1>4 DEF ConvString, Given
    <2>2. IsSeq(v)
      BY <2>1, Zenon DEF IsSeq
    <2>3. f = FieldOf(conv, text)
      OBVIOUS
    <2> HIDE DEF f
    <2>4. f.as = "s" /\ f.value = v /\ f.text = text /\ f.width = conv.width
          /\ f.precision = conv.precision /\ f.flags = conv.flags
      BY <2>1, <2>3, FieldIs
    <2> HIDE DEF v
    <2>5. Len(text) >= conv.width
      BY <1>1, <2>2, SeqFmtStr
    <2>6. ASSUME v # NullPtr PROVE StringAsAsked(f)
      BY <1>1, <2>2, <2>4, <2>6, StringLaidOut
    <2> HIDE DEF text
    <2>7. LaidOut(f)
      BY <2>4, <2>5, <2>6 DEF LaidOut
    <2> QED
      BY <2>1, <2>3, <2>7, ConvertLays
  <1> QED
    BY <1>2, <1>3, <1>4

LEMMA OthersLay ==
  ASSUME FieldsInv, StoreInv,
         \/ Default \/ Flags \/ Width \/ Dot \/ Precision \/ Mod \/ ConvCount \/ ConvOther
         \/ EndOfFormat \/ Return \/ GiveUp
  PROVE  FieldsInv'
  <1>1. out = [text |-> out.text, fields |-> out.fields]
    BY DEF StoreInv, Stored
  <1>2. ASSUME NEW x, out' = [out EXCEPT !.text = x]
        PROVE  out'.fields = out.fields
    BY <1>1, <1>2
  <1>3. CASE Default
    BY <1>2, <1>3, FieldsKept DEF Default
  <1>4. CASE Flags \/ Width \/ Dot \/ Precision \/ Mod
    BY <1>4, FieldsKept DEF Flags, Width, Dot, Precision, Mod, Read, Printed, Overflow
  <1>5. CASE ConvCount \/ ConvOther
    BY <1>2, <1>5, FieldsKept DEF ConvCount, ConvOther
  <1>6. CASE EndOfFormat \/ Return \/ GiveUp
    BY <1>6, FieldsKept DEF EndOfFormat, Return, GiveUp, Printed
  <1> QED
    BY <1>3, <1>4, <1>5, <1>6

LEMMA NoneLaid ==
  ASSUME NEW o, o = [text |-> <<>>, fields |-> <<>>]
  PROVE  IsSeq(o.fields) /\ DOMAIN o.fields = {}
  <1>1. o.fields = <<>>
    OBVIOUS
  <1> QED
    BY <1>1, SeqEmpty, SeqSize

LEMMA FieldsStep == FieldsInv /\ StoreInv /\ [Next \/ Stopped]_vars => FieldsInv'
  <1> SUFFICES ASSUME FieldsInv, StoreInv, [Next \/ Stopped]_vars PROVE FieldsInv'
    OBVIOUS
  <1>1. CASE Allocate
    <2>1. IsSeq(out'.fields) /\ DOMAIN out'.fields = {}
      BY <1>1, NoneLaid DEF Allocate
    <2> QED
      BY <2>1 DEF FieldsInv
  <1>2. CASE UNCHANGED vars
    BY <1>2, FieldsKept DEF vars
  <1> QED
    BY <1>1, <1>2, NumbersLay, TextsLay, OthersLay DEF Next, Stopped

----------------------------------------------------------------------------
\* Numbers read back: digits

\* A digit stands for its place among the digits.
LEMMA DigitsDiffer ==
  ASSUME NEW i \in 1 .. 16, NEW j \in 1 .. 16
  PROVE  (Lower[i] = Lower[j] \/ Lower[i] = Upper[j] \/ Upper[i] = Upper[j]) => i = j
  BY DEF Lower, Upper

LEMMA DigitWorth ==
  ASSUME NEW x \in 0 .. 15, NEW c, c = Lower[x + 1] \/ c = Upper[x + 1]
  PROVE  c \in Digits /\ DigitValue(c) = x
  <1>1. x + 1 \in 1 .. 16 /\ (x + 1) - 1 = x
    OBVIOUS
  <1>3. \A i \in 1 .. 16 : (Lower[i] = c \/ Upper[i] = c) <=> i = x + 1
    BY <1>1, DigitsDiffer
  <1>4. (CHOOSE i \in 1 .. 16 : Lower[i] = c \/ Upper[i] = c) = x + 1
    BY <1>1, <1>3
  <1>5. c \in Digits
    BY <1>1 DEF Digits
  <1> QED
    BY <1>1, <1>4, <1>5 DEF DigitValue

LEMMA ZeroWorth == "0" \in Digits /\ DigitValue("0") = 0
  <1>1. "0" = Lower[0 + 1] /\ 0 \in 0 .. 15
    BY DEF Lower
  <1> QED
    BY <1>1, DigitWorth

\* The first powers of a base.
LEMMA PowersAre ==
  ASSUME NEW b \in {8, 10, 16}
  PROVE  \E pw : /\ \A k \in 0 .. OctalDigits : pw[k] = b ^ k /\ pw[k] \in Nat \ {0}
                 /\ pw[0] = 1 /\ \A k \in 1 .. OctalDigits : pw[k] = b * pw[k - 1]
  <1> DEFINE pw == [k \in 0 .. OctalDigits |-> b ^ k]
             S == {k \in Nat : k <= OctalDigits => pw[k] \in Nat \ {0}}
  <1>1. OctalDigits \in Nat
    BY FmtAssumption DEF OctalDigits
  <1>2. pw[0] = 1 /\ \A k \in 1 .. OctalDigits : pw[k] = b * pw[k - 1]
    <2>1. pw[0] = b ^ 0
      BY <1>1
    <2>2. ASSUME NEW k \in 1 .. OctalDigits PROVE pw[k] = b ^ k /\ pw[k - 1] = b ^ (k - 1)
      <3>1. k \in 0 .. OctalDigits /\ k - 1 \in 0 .. OctalDigits
        BY <1>1
      <3> QED
        BY <3>1
    <2> HIDE DEF pw
    <2> QED
      BY <2>1, <2>2, PowersAssumption
  <1>3. \A k \in 0 .. OctalDigits : pw[k] = b ^ k
    OBVIOUS
  <1> HIDE DEF pw
  <1>4. 0 \in S
    BY <1>2
  <1>5. ASSUME NEW k \in Nat, k \in S PROVE k + 1 \in S
    <2>1. ASSUME k + 1 <= OctalDigits PROVE pw[k + 1] \in Nat \ {0}
      <3>1. k + 1 \in 1 .. OctalDigits /\ (k + 1) - 1 = k
        BY <1>1, <2>1
      <3>2. pw[k + 1] = b * pw[k]
        BY <1>2, <3>1
      <3>3. pw[k] \in Nat \ {0}
        BY <1>1, <1>5, <2>1
      <3> QED
        BY <3>2, <3>3
    <2> QED
      BY <2>1
  <1>6. Nat \subseteq S
    <2> HIDE DEF S
    <2> QED
      BY <1>4, <1>5, SetInduction
  <1>7. \A k \in 0 .. OctalDigits : pw[k] \in Nat \ {0}
    BY <1>6
  <1> QED
    BY <1>2, <1>3, <1>7

\* The quotients by smaller and smaller powers, each of which has one digit more.
Powers(pw, b, n) ==
  /\ pw[0] = 1 /\ \A k \in 0 .. n : pw[k] \in Nat \ {0}
  /\ \A k \in 1 .. n : pw[k] = b * pw[k - 1]

Quotients(q, value, pw, n) == \A i \in 0 .. n : q[i] = value \div pw[n - i]

Growing(q, value, b, n) ==
  /\ q[0] = 0 /\ q[n] = value
  /\ \A i \in 0 .. n : q[i] \in Nat
  /\ \A i \in 1 .. n : q[i] % b \in 0 .. b - 1 /\ q[i] = b * q[i - 1] + (q[i] % b)

LEMMA QuotientsGrow ==
  ASSUME NEW value \in Nat, NEW b \in Nat \ {0}, NEW n \in Nat, NEW pw, Powers(pw, b, n),
         value < pw[n], NEW q, Quotients(q, value, pw, n)
  PROVE  Growing(q, value, b, n)
  <1>0. /\ pw[0] = 1 /\ \A k \in 0 .. n : pw[k] \in Nat \ {0}
        /\ \A k \in 1 .. n : pw[k] = b * pw[k - 1]
        /\ \A i \in 0 .. n : q[i] = value \div pw[n - i]
    BY DEF Powers, Quotients
  <1>1. q[0] = 0
    <2>1. q[0] = value \div pw[n] /\ pw[n] \in Nat \ {0}
      BY <1>0, n - 0 = n
    <2> DEFINE p == pw[n]
    <2>2. value = p * 0 + value /\ value \in 0 .. p - 1
      BY <2>1
    <2> HIDE DEF p
    <2>3. value \div p = 0
      BY <2>1, <2>2, DivUnique DEF p
    <2> QED
      BY <2>1, <2>3 DEF p
  <1>2. q[n] = value
    <2>1. q[n] = value \div 1
      BY <1>0, n - n = 0
    <2> QED
      BY <2>1
  <1>3. ASSUME NEW i \in 0 .. n PROVE q[i] \in Nat
    <2>1. n - i \in 0 .. n
      OBVIOUS
    <2> DEFINE p == pw[n - i]
    <2>2. p \in Nat \ {0} /\ q[i] = value \div p
      BY <1>0, <2>1
    <2> HIDE DEF p
    <2> QED
      BY <2>2
  <1>4. ASSUME NEW i \in 1 .. n
        PROVE  q[i] % b \in 0 .. b - 1 /\ q[i] = b * q[i - 1] + (q[i] % b)
    <2> DEFINE p == pw[n - i]
               x == q[i]
               y == q[i - 1]
    <2>1. n - i \in 0 .. n /\ n - (i - 1) \in 1 .. n /\ n - (i - 1) - 1 = n - i /\ i - 1 \in 0 .. n
          /\ i \in 0 .. n
      OBVIOUS
    <2>2. p \in Nat \ {0} /\ x = value \div p /\ y = value \div (b * p)
      <3>1. pw[n - (i - 1)] = b * pw[n - i]
        BY <1>0, <2>1
      <3>2. q[i - 1] = value \div pw[n - (i - 1)] /\ q[i] = value \div pw[n - i]
        BY <1>0, <2>1
      <3> QED
        BY <1>0, <2>1, <3>1, <3>2
    <2>3. x \in Nat
      BY <1>3, <2>1
    <2> HIDE DEF p, x, y
    <2>4. y = x \div b
      BY <2>2, DivDiv
    <2>5. x % b \in 0 .. b - 1 /\ x = b * (x \div b) + (x % b)
      <3>1. x \in Int
        BY <2>3
      <3> QED
        BY ONLY <3>1, ModDef, b \in Nat \ {0}
    <2> QED
      BY <2>4, <2>5 DEF x, y
  <1> QED
    BY <1>1, <1>2, <1>3, <1>4 DEF Growing

\* The digits d are those of value: q is what the first of them are worth, and there
\* is no zero in front.
Reads(q, d, b, value) ==
  /\ q[0] = 0 /\ q[Len(d)] = value
  /\ \A i \in 0 .. Len(d) : q[i] \in Nat
  /\ \A i \in 1 .. Len(d) : d[i] \in Digits /\ q[i] = b * q[i - 1] + DigitValue(d[i])
  /\ value = 0 => Len(d) = 1 /\ d[1] = "0"
  /\ value # 0 => d[1] # "0"

\* convert writes the digits of a number of at most MaxBits bits into its buffer, the
\* most significant first.
LEMMA ConvertReads ==
  ASSUME NEW value \in 0 .. UIntMax, NEW b \in {8, 10, 16}, NEW caps \in BOOLEAN,
         NEW d, d = Convert(value, MaxConvert, b, caps)
  PROVE  \E q : Reads(q, d, b, value)
  <1> DEFINE Full(k) == b ^ k > value \/ k = MaxConvert
             Fits(k) == Full(k) /\ \A j \in 1 .. k - 1 : ~(b ^ j > value)
             n == CHOOSE k \in 1 .. MaxConvert : Fits(k)
             t == [i \in 1 .. n |->
                     (IF caps THEN Upper ELSE Lower)[((value \div b ^ (n - i)) % b) + 1]]
             S == {k \in 1 .. MaxConvert : Full(k)}
             K == OctalDigits
  <1>1. d = t
    BY DEF Convert
  <1>2. PICK pw : /\ \A k \in 0 .. K : pw[k] = b ^ k /\ pw[k] \in Nat \ {0}
                  /\ pw[0] = 1 /\ \A k \in 1 .. K : pw[k] = b * pw[k - 1]
    BY PowersAre
  <1>3. K \in 1 .. MaxConvert /\ MaxConvert \in Nat /\ K \in Nat
    BY FmtAssumption, PowersAssumption DEF OctalDigits, MaxConvert
  <1>4. value \in Nat /\ value < pw[K] /\ b \in Nat /\ b > 1 /\ b <= 16
    <2> DEFINE m == 2 ^ MaxBits
    <2>1. m \in Int
      BY FmtAssumption, PowerInt
    <2>2. m <= b ^ K
      BY PowersAssumption
    <2>3. value \in 0 .. m - 1
      BY DEF UIntMax
    <2> HIDE DEF m
    <2>4. pw[K] = b ^ K /\ pw[K] \in Nat
      BY <1>2, <1>3
    <2> QED
      BY <2>1, <2>2, <2>3, <2>4
  <1>5. \E k \in 1 .. MaxConvert : Fits(k)
    <2>1. S \subseteq Nat /\ S # {}
      <3>1. MaxConvert \in S
        BY <1>3
      <3> QED
        BY <3>1
    <2>2. PICK k \in S : \A j \in S : k <= j
      <3> HIDE DEF S
      <3> QED
        BY <2>1, LeastElement
    <2>3. k \in 1 .. MaxConvert /\ Full(k)
      OBVIOUS
    <2>4. ASSUME NEW j \in 1 .. k - 1 PROVE ~(b ^ j > value)
      <3>1. j \in 1 .. MaxConvert /\ j < k
        BY <1>3, <2>3
      <3>2. j \notin S
        <4> HIDE DEF S
        <4> QED
          BY <2>2, <2>3, <3>1
      <3> QED
        BY <3>1, <3>2
    <2> QED
      BY <2>3, <2>4
  <1>6. n \in 1 .. MaxConvert /\ Fits(n)
    <2> HIDE DEF Fits
    <2> QED
      BY <1>5
  <1> HIDE DEF n
  <1>7. n \in 1 .. K
    <2>1. ASSUME K < n PROVE FALSE
      <3>1. K \in 1 .. n - 1
        BY <1>3, <1>6, <2>1
      <3>2. ~(b ^ K > value)
        BY <1>6, <3>1
      <3>3. pw[K] = b ^ K
        BY <1>2, <1>3
      <3> QED
        BY <1>2, <1>3, <1>4, <3>2, <3>3
    <2> QED
      BY <1>3, <1>6, <2>1
  <1>8. value < pw[n] /\ (n > 1 => pw[n - 1] <= value)
    <2>1. pw[n] = b ^ n /\ pw[n] \in Nat
      BY <1>2, <1>7
    <2>2. value < pw[n]
      <3>1. CASE b ^ n > value
        BY <1>4, <2>1, <3>1
      <3>2. CASE n = MaxConvert
        <4>1. n = K
          BY <1>3, <1>7, <3>2
        <4> QED
          BY <1>4, <4>1
      <3> QED
        BY <1>6, <3>1, <3>2
    <2>3. ASSUME n > 1 PROVE pw[n - 1] <= value
      <3>1. n - 1 \in 1 .. n - 1 /\ n - 1 \in 0 .. K
        BY <1>3, <1>7, <2>3
      <3>2. ~(b ^ (n - 1) > value)
        BY <1>6, <3>1
      <3>3. pw[n - 1] = b ^ (n - 1) /\ pw[n - 1] \in Nat
        BY <1>2, <3>1
      <3> QED
        BY <1>4, <3>2, <3>3
    <2> QED
      BY <2>2, <2>3
  <1> DEFINE q == [i \in 0 .. n |-> value \div pw[n - i]]
  <1>9. Quotients(q, value, pw, n)
    BY DEF Quotients
  <1>10. n \in Nat /\ \A k \in 0 .. n : pw[k] \in Nat \ {0}
    BY <1>2, <1>3, <1>7
  <1>11. Len(t) = n /\ Len(d) = n
    BY <1>1, <1>10
  <1>12. ASSUME NEW i \in 1 .. n
         PROVE  t[i] = (IF caps THEN Upper ELSE Lower)[(q[i] % b) + 1]
    <2>1. n - i \in 0 .. K /\ i \in 0 .. n
      BY <1>3, <1>7
    <2>2. pw[n - i] = b ^ (n - i)
      BY <1>2, <2>1
    <2>3. q[i] = value \div b ^ (n - i)
      BY <2>1, <2>2
    <2> HIDE DEF q
    <2> QED
      BY <2>3
  <1> HIDE DEF q, t, Fits
  <1>13. /\ q[0] = 0 /\ q[n] = value
         /\ \A i \in 0 .. n : q[i] \in Nat
         /\ \A i \in 1 .. n : q[i] % b \in 0 .. b - 1 /\ q[i] = b * q[i - 1] + (q[i] % b)
    <2>1. \A k \in 1 .. n : pw[k] = b * pw[k - 1]
      BY <1>2, <1>3, <1>7
    <2>2. Powers(pw, b, n)
      BY <1>2, <1>10, <2>1 DEF Powers
    <2>3. Growing(q, value, b, n)
      <3>1. b \in Nat \ {0}
        BY <1>4
      <3> QED
        BY <1>4, <1>8, <1>9, <1>10, <2>2, <3>1, QuotientsGrow
    <2> QED
      BY <2>3 DEF Growing
  <1>14. ASSUME NEW i \in 1 .. n
         PROVE  d[i] \in Digits /\ DigitValue(d[i]) = q[i] % b
    <2> DEFINE x == q[i] % b
    <2>1. x \in 0 .. 15
      BY <1>4, <1>13
    <2>2. d[i] = Lower[x + 1] \/ d[i] = Upper[x + 1]
      BY <1>1, <1>12
    <2> HIDE DEF x
    <2>3. d[i] \in Digits /\ DigitValue(d[i]) = x
      BY <2>1, <2>2, DigitWorth
    <2> QED
      BY <2>3 DEF x
  <1>15. q[1] = DigitValue(d[1])
    <2>1. 1 \in 1 .. n /\ 1 - 1 = 0
      BY <1>7
    <2>2. q[1] = b * q[0] + (q[1] % b) /\ DigitValue(d[1]) = q[1] % b /\ q[1] % b \in 0 .. b - 1
      BY <1>13, <1>14, <2>1
    <2> QED
      BY <1>4, <1>13, <2>2
  <1>16. value = 0 => n = 1 /\ d[1] = "0"
    <2>1. ASSUME value = 0 PROVE n = 1
      <3>1. n - 1 \in 0 .. n
        BY <1>7
      <3>2. pw[n - 1] \in Nat \ {0}
        BY <1>10, <3>1
      <3> QED
        BY <1>7, <1>8, <2>1, <3>2
    <2>2. ASSUME value = 0 PROVE d[1] = "0"
      <3>1. q[1] % b = 0
        <4>1. 1 \in 1 .. n /\ q[1] = 0 /\ 1 - 1 = 0
          BY <1>7, <1>13, <2>1, <2>2
        <4> QED
          BY <1>4, <1>13, <4>1
      <3>2. d[1] = (IF caps THEN Upper ELSE Lower)[0 + 1]
        BY <1>1, <1>7, <1>12, <3>1
      <3> QED
        BY <3>2 DEF Lower, Upper
    <2> QED
      BY <2>1, <2>2
  <1>17. value # 0 => d[1] # "0"
    <2>1. ASSUME value # 0 PROVE q[1] >= 1
      <3>1. 1 \in 0 .. n /\ n - 1 \in 0 .. n
        BY <1>7
      <3> DEFINE p == pw[n - 1]
      <3>2. q[1] = value \div p /\ p \in Nat \ {0}
        BY <1>9, <1>10, <3>1 DEF Quotients
      <3>3. p <= value
        <4>1. CASE n > 1
          BY <1>8, <4>1
        <4>2. CASE n = 1
          <5>1. p = 1
            BY <1>2, <4>2
          <5> QED
            BY <1>4, <2>1, <5>1
        <4> QED
          BY <1>7, <4>1, <4>2
      <3>4. q[1] \in Nat
        BY <1>13, <3>1
      <3> HIDE DEF p
      <3> DEFINE x == q[1]
                 r == value % p
      <3>5. value = p * x + r /\ r \in 0 .. p - 1
        <4>1. value \in Int /\ p \in Nat \ {0} /\ x = value \div p
          BY <1>4, <3>2
        <4> HIDE DEF x
        <4> QED
          BY ONLY <4>1, ModDef
      <3>6. x \in Nat
        BY <3>4
      <3> HIDE DEF x, r
      <3>7. x # 0
        BY <3>2, <3>3, <3>5, <3>6
      <3> QED
        BY <3>6, <3>7 DEF x
    <2> QED
      BY <1>15, <2>1, ZeroWorth
  <1>18. /\ q[0] = 0 /\ q[Len(d)] = value
         /\ \A i \in 0 .. Len(d) : q[i] \in Nat
         /\ \A i \in 1 .. Len(d) : d[i] \in Digits /\ q[i] = b * q[i - 1] + DigitValue(d[i])
    BY <1>11, <1>13, <1>14
  <1>19. Reads(q, d, b, value)
    BY <1>11, <1>16, <1>17, <1>18 DEF Reads
  <1> QED
    BY <1>19

----------------------------------------------------------------------------
\* Numbers read back: what a sequence of characters is worth

\* One more character.
Reckon(v, c, base) == IF c \in Digits THEN base * v + DigitValue(c) ELSE v

\* The recursion of Worth has a solution.
LEMMA WorthIs ==
  ASSUME NEW s, Len(s) \in Nat, NEW base
  PROVE  /\ Worth(s, base)[0] = 0
         /\ \A i \in 1 .. Len(s) : Worth(s, base)[i] = Reckon(Worth(s, base)[i - 1], s[i], base)
  <1> DEFINE Is(f, n) == f = [i \in 0 .. n |-> IF i = 0 THEN 0
                                              ELSE IF s[i] \in Digits
                                                   THEN base * f[i - 1] + DigitValue(s[i])
                                              ELSE f[i - 1]]
             S == {n \in Nat : \E f : Is(f, n)}
             last == Len(s)
             w == CHOOSE f : Is(f, last)
  <1>1. Worth(s, base) = w
    BY DEF Worth
  <1>2. 0 \in S
    <2> DEFINE f == [i \in 0 .. 0 |-> 0]
    <2>1. \A i \in 0 .. 0 : i = 0
      OBVIOUS
    <2>2. Is(f, 0)
      BY <2>1
    <2> QED
      BY <2>2
  <1>3. ASSUME NEW n \in Nat, n \in S
        PROVE  n + 1 \in S
    <2>1. PICK f : Is(f, n)
      BY <1>3
    <2> DEFINE g == [i \in 0 .. n + 1 |-> IF i <= n THEN f[i] ELSE Reckon(f[n], s[n + 1], base)]
               h == [i \in 0 .. n + 1 |-> IF i = 0 THEN 0 ELSE Reckon(g[i - 1], s[i], base)]
    <2>2. ASSUME NEW i \in 0 .. n + 1 PROVE g[i] = h[i]
      <3>1. CASE i = 0
        <4>1. f[0] = 0 /\ 0 \in 0 .. n /\ 0 \in 0 .. n + 1
          BY <2>1
        <4> QED
          BY <3>1, <4>1
      <3>2. CASE i \in 1 .. n
        <4>1. i # 0 /\ i \in 0 .. n
          BY <3>2
        <4>2. f[i] = Reckon(f[i - 1], s[i], base)
          BY <2>1, <4>1 DEF Reckon
        <4>3. i - 1 \in 0 .. n + 1 /\ i - 1 <= n /\ i <= n
          BY <3>2
        <4>4. g[i - 1] = f[i - 1]
          BY <4>3
        <4> QED
          BY <4>1, <4>2, <4>3, <4>4
      <3>3. CASE i = n + 1
        <4>1. i - 1 = n /\ i # 0 /\ ~(i <= n) /\ n \in 0 .. n + 1 /\ n <= n
          BY <3>3
        <4>2. g[n] = f[n]
          BY <4>1
        <4> QED
          BY <3>3, <4>1, <4>2
      <3> QED
        BY <3>1, <3>2, <3>3
    <2>3. g = h
      BY <2>2
    <2>4. Is(g, n + 1)
      BY <2>3 DEF Reckon
    <2> HIDE DEF g, Is
    <2>5. \E f2 : Is(f2, n + 1)
      BY <2>4
    <2> QED
      BY <2>5
  <1>4. Nat \subseteq S
    <2> HIDE DEF S
    <2> QED
      BY <1>2, <1>3, SetInduction
  <1>5. Is(w, last)
    <2>1. \E f : Is(f, last)
      BY <1>4
    <2> HIDE DEF Is
    <2> QED
      BY <2>1
  <1> HIDE DEF w
  <1>6. w[0] = 0
    BY <1>5
  <1>7. ASSUME NEW i \in 1 .. last
        PROVE  w[i] = Reckon(w[i - 1], s[i], base)
    <2>1. i \in 0 .. last /\ i # 0
      OBVIOUS
    <2> QED
      BY <1>5, <2>1 DEF Reckon
  <1> QED
    BY <1>1, <1>6, <1>7

\* What comes behind does not change what the first characters are worth.
LEMMA WorthConcat ==
  ASSUME NEW s, IsSeq(s), NEW t, IsSeq(t), NEW base
  PROVE  Worth(s \o t, base)[Len(s)] = ValueOf(s, base)
  <1> DEFINE u == s \o t
             S == {i \in Nat : i <= Len(s) => Worth(u, base)[i] = Worth(s, base)[i]}
  <1>1. /\ Len(s) \in Nat /\ Len(t) \in Nat /\ Len(u) = Len(s) + Len(t)
        /\ \A i \in 1 .. Len(s) : u[i] = s[i]
    BY SeqSize, SeqConcat
  <1> HIDE DEF u
  <1>2. 0 \in S
    BY <1>1, WorthIs
  <1>3. ASSUME NEW i \in Nat, i \in S PROVE i + 1 \in S
    <2>1. ASSUME i + 1 <= Len(s) PROVE Worth(u, base)[i + 1] = Worth(s, base)[i + 1]
      <3>1. i + 1 \in 1 .. Len(s) /\ i + 1 \in 1 .. Len(u) /\ (i + 1) - 1 = i /\ i <= Len(s)
        BY <1>1, <2>1
      <3>2. Worth(u, base)[i + 1] = Reckon(Worth(u, base)[i], u[i + 1], base)
        BY <1>1, <3>1, WorthIs
      <3>3. Worth(s, base)[i + 1] = Reckon(Worth(s, base)[i], s[i + 1], base)
        BY <1>1, <3>1, WorthIs
      <3>4. Worth(u, base)[i] = Worth(s, base)[i] /\ u[i + 1] = s[i + 1]
        BY <1>1, <1>3, <3>1
      <3> QED
        BY <3>2, <3>3, <3>4
    <2> QED
      BY <2>1
  <1>4. Nat \subseteq S
    <2> HIDE DEF S
    <2> QED
      BY <1>2, <1>3, SetInduction
  <1>5. Worth(u, base)[Len(s)] = Worth(s, base)[Len(s)]
    BY <1>1, <1>4
  <1> QED
    BY <1>5 DEF ValueOf, u

LEMMA ValueDigit ==
  ASSUME NEW s, IsSeq(s), NEW c \in Digits, NEW base
  PROVE  ValueOf(s \o <<c>>, base) = base * ValueOf(s, base) + DigitValue(c)
  <1> DEFINE t == <<c>>
             u == s \o t
  <1>1. IsSeq(t) /\ Len(t) = 1 /\ t[1] = c
    BY SeqOne
  <1> HIDE DEF t
  <1>2. /\ Len(s) \in Nat /\ Len(u) = Len(s) + 1
        /\ \A i \in 1 .. Len(s) + 1 : u[i] = IF i <= Len(s) THEN s[i] ELSE t[i - Len(s)]
    BY <1>1, SeqSize, SeqConcat
  <1>3. Worth(u, base)[Len(s)] = ValueOf(s, base)
    BY <1>1, WorthConcat
  <1> HIDE DEF u
  <1> DEFINE n == Len(s)
  <1>4. n + 1 \in 1 .. Len(u) /\ (n + 1) - 1 = n /\ ~(n + 1 <= n) /\ (n + 1) - n = 1 /\ Len(u) = n + 1
        /\ Len(u) \in Nat /\ n + 1 \in 1 .. Len(s) + 1
    BY <1>2
  <1>5. u[n + 1] = c
    BY <1>1, <1>2, <1>4
  <1>6. Worth(u, base)[n + 1] = Reckon(Worth(u, base)[n], u[n + 1], base)
    BY <1>4, WorthIs
  <1>7. Worth(u, base)[n + 1] = base * ValueOf(s, base) + DigitValue(c)
    BY <1>3, <1>5, <1>6 DEF Reckon
  <1> QED
    BY <1>4, <1>7 DEF ValueOf, u, t

LEMMA ValueSkips ==
  ASSUME NEW s, IsSeq(s), NEW t, IsSeq(t), \A j \in 1 .. Len(t) : t[j] \notin Digits, NEW base
  PROVE  ValueOf(s \o t, base) = ValueOf(s, base)
  <1> DEFINE u == s \o t
             n == Len(s)
             S == {j \in Nat : j <= Len(t) => Worth(u, base)[n + j] = ValueOf(s, base)}
  <1>1. /\ n \in Nat /\ Len(t) \in Nat /\ Len(u) = n + Len(t)
        /\ \A i \in 1 .. n + Len(t) : u[i] = IF i <= n THEN s[i] ELSE t[i - n]
    BY SeqSize, SeqConcat
  <1>2. Worth(u, base)[n] = ValueOf(s, base)
    BY WorthConcat
  <1> HIDE DEF u, n
  <1>3. 0 \in S
    <2>1. n + 0 = n
      BY <1>1
    <2> QED
      BY <1>2, <2>1
  <1>4. ASSUME NEW j \in Nat, j \in S PROVE j + 1 \in S
    <2>1. ASSUME j + 1 <= Len(t) PROVE Worth(u, base)[n + (j + 1)] = ValueOf(s, base)
      <3> DEFINE k == n + (j + 1)
      <3>1. /\ k \in 1 .. Len(u) /\ k - 1 = n + j /\ ~(k <= n) /\ k - n = j + 1 /\ k \in 1 .. n + Len(t)
            /\ j + 1 \in 1 .. Len(t) /\ j <= Len(t) /\ Len(u) \in Nat
        BY <1>1, <2>1
      <3>2. u[k] \notin Digits
        BY <1>1, <3>1
      <3>3. Worth(u, base)[k] = Reckon(Worth(u, base)[k - 1], u[k], base)
        BY <3>1, WorthIs
      <3>4. Worth(u, base)[n + j] = ValueOf(s, base)
        BY <1>4, <3>1
      <3> QED
        BY <3>1, <3>2, <3>3, <3>4 DEF Reckon
    <2> QED
      BY <2>1
  <1>5. Nat \subseteq S
    <2> HIDE DEF S
    <2> QED
      BY <1>3, <1>4, SetInduction
  <1>6. Worth(u, base)[Len(u)] = ValueOf(s, base)
    BY <1>1, <1>5
  <1> QED
    BY <1>6 DEF ValueOf, u

LEMMA ValueZeros ==
  ASSUME NEW z \in Nat, NEW base \in Nat
  PROVE  ValueOf(Times("0", z), base) = 0
  <1> DEFINE s == Times("0", z)
             S == {i \in Nat : i <= z => Worth(s, base)[i] = 0}
  <1>1. Len(s) = z /\ \A i \in 1 .. z : s[i] = "0"
    <2>1. Len(s) = AtLeast0(z)
      BY SeqTimes
    <2> QED
      BY <2>1 DEF AtLeast0, Times
  <1> HIDE DEF s
  <1>2. 0 \in S
    BY <1>1, WorthIs
  <1>3. ASSUME NEW i \in Nat, i \in S PROVE i + 1 \in S
    <2>1. ASSUME i + 1 <= z PROVE Worth(s, base)[i + 1] = 0
      <3>1. i + 1 \in 1 .. z /\ (i + 1) - 1 = i /\ i <= z
        BY <2>1
      <3>2. Worth(s, base)[i + 1] = Reckon(Worth(s, base)[i], s[i + 1], base)
        BY <1>1, <3>1, WorthIs
      <3>3. Worth(s, base)[i] = 0 /\ s[i + 1] = "0"
        BY <1>1, <1>3, <3>1
      <3> QED
        BY <3>2, <3>3, ZeroWorth DEF Reckon
    <2> QED
      BY <2>1
  <1>4. Nat \subseteq S
    <2> HIDE DEF S
    <2> QED
      BY <1>2, <1>3, SetInduction
  <1>5. Worth(s, base)[Len(s)] = 0
    BY <1>1, <1>4
  <1> QED
    BY <1>5 DEF ValueOf, s

----------------------------------------------------------------------------
\* Numbers read back: groups of digits

LEMMA SeqAssoc ==
  ASSUME NEW s, NEW t, NEW u, IsSeq(s), IsSeq(t), IsSeq(u)
  PROVE  (s \o t) \o u = s \o (t \o u)
  <1>1. PICK S : s \in Seq(S)
    BY DEF IsSeq
  <1>2. PICK T : t \in Seq(T)
    BY DEF IsSeq
  <1>3. PICK U : u \in Seq(U)
    BY DEF IsSeq
  <1> DEFINE V == S \cup T \cup U
  <1>4. S \subseteq V /\ T \subseteq V /\ U \subseteq V
    OBVIOUS
  <1> HIDE DEF V
  <1>5. s \in Seq(V) /\ t \in Seq(V) /\ u \in Seq(V)
    BY <1>1, <1>2, <1>3, <1>4, SeqMore
  <1> QED
    BY <1>5, ConcatAssociative

\* One more digit, with the separator behind it or without.
LEMMA GroupCounts ==
  ASSUME NEW z, IsSeq(z), NEW s, IsSeq(s), NEW c \in Digits,
         NEW w, IsSeq(w), \A j \in 1 .. Len(w) : w[j] \notin Digits, NEW base
  PROVE  ValueOf(z \o (s \o (<<c>> \o w)), base) = base * ValueOf(z \o s, base) + DigitValue(c)
  <1> DEFINE x == <<c>>
             zs == z \o s
  <1>1. IsSeq(x) /\ IsSeq(zs)
    BY SeqOne, SeqConcat
  <1>2. ValueOf(zs \o x, base) = base * ValueOf(zs, base) + DigitValue(c)
    <2> HIDE DEF zs
    <2> QED
      BY <1>1, ValueDigit
  <1> HIDE DEF x
  <1>3. IsSeq(zs \o x) /\ IsSeq(x \o w)
    BY <1>1, SeqConcat
  <1>4. ValueOf((zs \o x) \o w, base) = ValueOf(zs \o x, base)
    <2> DEFINE t == zs \o x
    <2>1. IsSeq(t)
      BY <1>3
    <2> HIDE DEF t
    <2>2. ValueOf(t \o w, base) = ValueOf(t, base)
      BY <2>1, ValueSkips
    <2> QED
      BY <2>2 DEF t
  <1>5. z \o (s \o (x \o w)) = (zs \o x) \o w
    <2>1. (z \o s) \o (x \o w) = z \o (s \o (x \o w))
      <3> DEFINE xw == x \o w
      <3>1. IsSeq(z) /\ IsSeq(s) /\ IsSeq(xw)
        BY <1>3
      <3> HIDE DEF xw
      <3>2. (z \o s) \o xw = z \o (s \o xw)
        BY ONLY <3>1, SeqAssoc
      <3> QED
        BY <3>2 DEF xw
    <2>2. zs = z \o s
      OBVIOUS
    <2> HIDE DEF zs
    <2>3. (zs \o x) \o w = zs \o (x \o w)
      <3>1. IsSeq(zs) /\ IsSeq(x) /\ IsSeq(w)
        BY <1>1
      <3> QED
        BY ONLY <3>1, SeqAssoc
    <2> QED
      BY <2>1, <2>2, <2>3, Zenon
  <1>6. ValueOf(z \o (s \o (x \o w)), base) = base * ValueOf(zs, base) + DigitValue(c)
    BY <1>2, <1>4, <1>5, Zenon
  <1> QED
    BY <1>6 DEF x

\* What is known of the digits and groups once the digits up to the one worth v are
\* printed: behind the zeros z they are worth v, and the first is still the first.
Grown(z, s, first, chars, base, v) ==
  /\ IsSeq(s) /\ Len(s) > 0 /\ s[1] = first
  /\ \A j \in 1 .. Len(s) : s[j] \in chars
  /\ ValueOf(z \o s, base) = v

LEMMA GroupGrows ==
  ASSUME NEW z, IsSeq(z), NEW s, NEW first, NEW chars, NEW base, NEW v,
         Grown(z, s, first, chars, base, v), NEW c \in Digits \cap chars,
         NEW w, IsSeq(w), \A j \in 1 .. Len(w) : w[j] \in chars \ Digits
  PROVE  Grown(z, s \o (<<c>> \o w), first, chars, base, base * v + DigitValue(c))
  <1> DEFINE x == <<c>>
             g == x \o w
             t == s \o g
  <1>1. IsSeq(s) /\ Len(s) > 0 /\ Len(s) \in Nat /\ s[1] = first /\ ValueOf(z \o s, base) = v
        /\ \A j \in 1 .. Len(s) : s[j] \in chars
    BY SeqSize DEF Grown
  <1>2. ValueOf(z \o t, base) = base * v + DigitValue(c)
    BY <1>1, GroupCounts
  <1>3. IsSeq(x) /\ Len(x) = 1 /\ x[1] = c /\ Len(w) \in Nat
    BY SeqOne, SeqSize
  <1> HIDE DEF x
  <1>4. /\ IsSeq(g) /\ Len(g) = 1 + Len(w)
        /\ \A j \in 1 .. 1 + Len(w) : g[j] = IF j <= 1 THEN x[j] ELSE w[j - 1]
    <2>1. /\ IsSeq(g) /\ Len(g) = Len(x) + Len(w)
          /\ \A j \in 1 .. Len(x) + Len(w) : g[j] = IF j <= Len(x) THEN x[j] ELSE w[j - Len(x)]
      BY <1>3, SeqConcat
    <2> HIDE DEF g
    <2> QED
      BY <1>3, <2>1
  <1> HIDE DEF g
  <1>5. ASSUME NEW j \in 1 .. Len(g) PROVE g[j] \in chars
    <2>1. CASE j = 1
      BY <1>3, <1>4, <2>1
    <2>2. CASE j # 1
      <3>1. j - 1 \in 1 .. Len(w) /\ g[j] = w[j - 1]
        BY <1>3, <1>4, <2>2
      <3> QED
        BY <3>1
    <2> QED
      BY <2>1, <2>2
  <1>6. /\ IsSeq(t) /\ Len(t) = Len(s) + Len(g) /\ Len(g) \in Nat
        /\ \A j \in 1 .. Len(s) + Len(g) : t[j] = IF j <= Len(s) THEN s[j] ELSE g[j - Len(s)]
    BY <1>1, <1>4, SeqConcat, SeqSize
  <1> HIDE DEF t
  <1>7. t[1] = first
    BY <1>1, <1>6
  <1>8. ASSUME NEW j \in 1 .. Len(t) PROVE t[j] \in chars
    <2>1. CASE j <= Len(s)
      BY <1>1, <1>6, <2>1
    <2>2. CASE ~(j <= Len(s))
      <3>1. j - Len(s) \in 1 .. Len(g)
        BY <1>1, <1>6, <2>2
      <3> QED
        BY <1>5, <1>6, <2>2, <3>1
    <2> QED
      BY <2>1, <2>2
  <1>9. Len(t) > 0
    BY <1>1, <1>6
  <1>10. Grown(z, t, first, chars, base, base * v + DigitValue(c))
    BY <1>2, <1>6, <1>7, <1>8, <1>9 DEF Grown
  <1> QED
    BY <1>10 DEF t, g, x

\* The groups that Grouped puts one behind the other are worth what the digits are.
LEMMA GroupedReads ==
  ASSUME NEW zs, IsSeq(zs), NEW base \in {8, 10, 16}, ValueOf(zs, base) = 0,
         NEW d, IsSeq(d), Len(d) > 0, NEW separators \in Int,
         NEW q, q[0] = 0, \A i \in 1 .. Len(d) : d[i] \in Digits /\ q[i] = base * q[i - 1] + DigitValue(d[i]),
         NEW chars, chars = IF separators > 0 THEN Digits \cup ToSet(ThousandsSep) ELSE Digits
  PROVE  Grown(zs, Grouped(d, separators), d[1], chars, base, q[Len(d)])
  <1> DEFINE n == Len(d)
             c(i) == separators > 0 /\ n - i > 0 /\ (n - i) % 3 = 0
             w(i) == When(c(i), ThousandsSep)
             ss == [i \in 1 .. n |-> <<d[i]>> \o w(i)]
  <1>1. n \in Nat /\ n > 0
    BY SeqSize
  <1>2. IsSeq(ThousandsSep) /\ \A j \in 1 .. Len(ThousandsSep) : ThousandsSep[j] \in ToSet(ThousandsSep)
    <2>1. IsSeq(ThousandsSep)
      BY FmtAssumption, Zenon DEF IsSeq
    <2>2. DOMAIN ThousandsSep = 1 .. Len(ThousandsSep)
      BY <2>1, SeqSize
    <2> QED
      BY <2>1, <2>2 DEF ToSet
  <1>3. Grouped(d, separators) = FlattenSeq(ss)
    BY DEF Grouped
  <1>4. ASSUME NEW i \in 1 .. n
        PROVE  IsSeq(w(i)) /\ \A j \in 1 .. Len(w(i)) : w(i)[j] \in chars \ Digits
    <2>1. CASE c(i)
      <3>1. w(i) = ThousandsSep /\ chars = Digits \cup ToSet(ThousandsSep)
        BY <2>1 DEF When
      <3>2. \A x \in ToSet(ThousandsSep) : x \notin Digits
        BY SeparatorAssumption
      <3> HIDE DEF w
      <3> QED
        BY <1>2, <3>1, <3>2
    <2>2. CASE ~c(i)
      <3>1. w(i) = <<>>
        BY <2>2 DEF When
      <3>2. 1 .. 0 = {}
        OBVIOUS
      <3> HIDE DEF w
      <3> QED
        BY <3>1, <3>2, SeqEmpty
    <2> QED
      BY <2>1, <2>2
  <1>5. Digits \subseteq chars
    OBVIOUS
  <1> HIDE DEF n, w
  <1>6. Len(ss) = n /\ \A i \in 1 .. n : ss[i] = <<d[i]>> \o w(i)
    BY <1>1
  <1> HIDE DEF ss
  <1>7. PICK flat : FlatOf(flat, ss, n)
    BY <1>1, <1>6, FlattenIs
  <1> DEFINE OK(i) == Grown(zs, flat[i], d[1], chars, base, q[i])
             T == {i \in Nat : i + 1 <= n => OK(i + 1)}
  <1>8. 0 \in T
    <2> DEFINE e == <<>>
               x == <<d[1]>>
               s == x \o w(1)
    <2>1. 1 \in 1 .. n /\ 1 - 1 = 0
      BY <1>1
    <2>2. d[1] \in Digits /\ q[1] = base * 0 + DigitValue(d[1])
      BY <2>1 DEF n
    <2>3. IsSeq(x) /\ Len(x) = 1 /\ x[1] = d[1] /\ IsSeq(w(1))
      BY <1>4, <2>1, SeqOne
    <2>4. IsSeq(e) /\ zs \o e = zs
      BY SeqEmpty, SeqUnit
    <2> DEFINE v == w(1)
               c1 == d[1]
    <2>5. ValueOf(zs \o (e \o (<<c1>> \o v)), base) = base * ValueOf(zs \o e, base) + DigitValue(c1)
      <3>1. IsSeq(v) /\ \A j \in 1 .. Len(v) : v[j] \notin Digits
        BY <1>4, <2>1
      <3>2. c1 \in Digits
        BY <2>2
      <3>3. IsSeq(e)
        BY <2>4
      <3> HIDE DEF v, c1, e
      <3> QED
        BY <3>1, <3>2, <3>3, GroupCounts
    <2>6. IsSeq(s) /\ Len(s) = Len(x) + Len(v) /\ \A j \in 1 .. Len(x) + Len(v) : s[j] = IF j <= Len(x) THEN x[j] ELSE v[j - Len(x)]
      <3> HIDE DEF x
      <3> QED
        BY <2>3, SeqConcat
    <2>7. e \o s = s
      BY <2>6, SeqUnit
    <2>8. ValueOf(zs \o s, base) = q[1]
      <3>1. ValueOf(zs \o e, base) = 0
        BY <2>4
      <3>2. base * 0 + DigitValue(c1) = q[1]
        BY <2>2
      <3> HIDE DEF e
      <3> QED
        BY <2>5, <2>7, <3>1, <3>2
    <2> HIDE DEF x, s, e
    <2>9. Len(v) \in Nat /\ \A j \in 1 .. Len(v) : v[j] \in chars
      BY <1>4, <2>1, SeqSize
    <2> HIDE DEF v
    <2>10. Len(s) > 0 /\ s[1] = d[1] /\ \A j \in 1 .. Len(s) : s[j] \in chars
      <3>1. Len(s) > 0 /\ s[1] = d[1]
        BY <2>3, <2>6, <2>9
      <3>2. ASSUME NEW j \in 1 .. Len(s), j # 1 PROVE s[j] \in chars
        <4>1. j - 1 \in 1 .. Len(v) /\ s[j] = v[j - 1]
          BY <2>3, <2>6, <2>9, <3>2
        <4> QED
          BY <2>9, <4>1
      <3> QED
        BY <1>5, <2>2, <3>1, <3>2
    <2>11. Grown(zs, s, d[1], chars, base, q[1])
      BY <2>6, <2>8, <2>10 DEF Grown
    <2>12. OK(0 + 1)
      <3>1. flat[1] = s
        BY <1>6, <1>7, <2>1 DEF s, x, FlatOf
      <3> QED
        BY <2>11, <3>1
    <2> QED
      BY <2>12
  <1>9. ASSUME NEW i \in Nat, i \in T PROVE i + 1 \in T
    <2>1. ASSUME (i + 1) + 1 <= n PROVE OK((i + 1) + 1)
      <3> DEFINE k == (i + 1) + 1
                 j == i + 1
      <3>1. k \in 1 .. n /\ k \in 2 .. n /\ k - 1 = j /\ j <= n
        BY <1>1, <2>1
      <3>2. flat[k] = flat[j] \o ss[k] /\ ss[k] = <<d[k]>> \o w(k)
        BY <1>6, <1>7, <3>1 DEF FlatOf
      <3>3. Grown(zs, flat[j], d[1], chars, base, q[j])
        BY <1>9, <3>1
      <3>4. d[k] \in Digits \cap chars /\ q[k] = base * q[j] + DigitValue(d[k])
        BY <1>5, <3>1 DEF n
      <3>5. IsSeq(w(k)) /\ \A l \in 1 .. Len(w(k)) : w(k)[l] \in chars \ Digits
        BY <1>4, <3>1
      <3> DEFINE x == flat[j]
                 y == w(k)
                 c1 == d[k]
                 first == d[1]
                 v == q[j]
      <3> HIDE DEF k, j, x, y, c1, first, v
      <3>6. Grown(zs, x \o (<<c1>> \o y), first, chars, base, base * v + DigitValue(c1))
        BY <3>3, <3>4, <3>5, GroupGrows DEF x, y, c1, first, v
      <3>7. Grown(zs, flat[k], d[1], chars, base, q[k])
        BY <3>2, <3>4, <3>6, Zenon DEF x, y, c1, first, v
      <3> QED
        BY <3>7 DEF k
    <2> HIDE DEF OK
    <2> QED
      BY <2>1
  <1>10. OK(n)
    <2>1. Nat \subseteq T
      <3> HIDE DEF T
      <3> QED
        BY <1>8, <1>9, SetInduction
    <2>2. n - 1 \in Nat /\ (n - 1) + 1 = n
      BY <1>1
    <2>3. n - 1 \in T
      BY <2>1, <2>2
    <2> HIDE DEF OK
    <2> QED
      BY <2>2, <2>3
  <1> QED
    BY <1>3, <1>7, <1>10 DEF n, FlatOf

\* The digits of a number behind z zeros: there are no other zeros in front, unless it
\* is zero, and they read back as the number.
BodyIs(body, z, len_, chars, base, value) ==
  /\ IsSeq(body) /\ Len(body) = z + len_ /\ Len(body) > 0
  /\ \A j \in 1 .. Len(body) : body[j] \in chars
  /\ ValueOf(body, base) = value
  /\ (z > 0 \/ value = 0) => body[1] = "0"
  /\ value # 0 => LeadingZeros(body) = z

LEMMA LeadingZerosAre ==
  ASSUME NEW s, NEW z \in Nat, Len(s) \in Nat, z < Len(s), \A i \in 1 .. z : s[i] = "0", s[z + 1] # "0"
  PROVE  LeadingZeros(s) = z
  <1> DEFINE Is(k) == (\A i \in 1 .. k : s[i] = "0") /\ (k = Len(s) \/ s[k + 1] # "0")
  <1>1. z \in 0 .. Len(s) /\ Is(z)
    OBVIOUS
  <1>2. ASSUME NEW k \in 0 .. Len(s), Is(k) PROVE k = z
    <2>1. CASE k < z
      <3>1. k + 1 \in 1 .. z /\ k # Len(s)
        BY <2>1
      <3> QED
        BY <1>2, <3>1
    <2>2. CASE z < k
      <3>1. z + 1 \in 1 .. k
        BY <2>2
      <3> QED
        BY <1>2, <3>1
    <2> QED
      BY <2>1, <2>2
  <1> HIDE DEF Is
  <1>3. (CHOOSE k \in 0 .. Len(s) : Is(k)) = z
    BY <1>1, <1>2
  <1> QED
    BY <1>3 DEF LeadingZeros, Is

LEMMA BodyReads ==
  ASSUME NEW value \in 0 .. UIntMax, NEW b \in {8, 10, 16}, NEW caps \in BOOLEAN,
         NEW d, d = Convert(value, MaxConvert, b, caps), NEW separators \in Int, NEW z \in Nat,
         NEW chars, chars = IF separators > 0 THEN Digits \cup ToSet(ThousandsSep) ELSE Digits
  PROVE  BodyIs(Times("0", z) \o Grouped(d, separators), z, Len(Grouped(d, separators)), chars, b, value)
  <1> DEFINE zs == Times("0", z)
             g == Grouped(d, separators)
             body == zs \o g
  <1>1. IsSeq(d) /\ Len(d) > 0 /\ Len(d) \in Nat
    BY SeqConvert, SeqSize DEF MaxConvert
  <1>2. PICK q : Reads(q, d, b, value)
    BY ConvertReads
  <1>3. IsSeq(zs) /\ Len(zs) = z /\ \A i \in 1 .. z : zs[i] = "0"
    <2>1. IsSeq(zs) /\ Len(zs) = AtLeast0(z)
      BY SeqTimes
    <2> QED
      BY <2>1 DEF AtLeast0, Times
  <1>4. ValueOf(zs, b) = 0
    BY ValueZeros
  <1> HIDE DEF zs
  <1>5. Grown(zs, g, d[1], chars, b, value)
    <2>1. Grown(zs, Grouped(d, separators), d[1], chars, b, q[Len(d)])
      BY <1>1, <1>2, <1>3, <1>4, GroupedReads DEF Reads
    <2> QED
      BY <1>2, <2>1 DEF Reads
  <1> HIDE DEF g
  <1>6. /\ IsSeq(g) /\ Len(g) > 0 /\ Len(g) \in Nat /\ g[1] = d[1]
        /\ \A j \in 1 .. Len(g) : g[j] \in chars
        /\ ValueOf(body, b) = value
    BY <1>5, SeqSize DEF Grown
  <1>7. /\ IsSeq(body) /\ Len(body) = z + Len(g)
        /\ \A i \in 1 .. z + Len(g) : body[i] = IF i <= z THEN zs[i] ELSE g[i - z]
    <2>1. /\ IsSeq(body) /\ Len(body) = Len(zs) + Len(g)
          /\ \A i \in 1 .. Len(zs) + Len(g) : body[i] = IF i <= Len(zs) THEN zs[i] ELSE g[i - Len(zs)]
      BY <1>3, <1>6, SeqConcat
    <2> HIDE DEF body
    <2> QED
      BY <1>3, <2>1
  <1> HIDE DEF body
  <1>8. ASSUME NEW j \in 1 .. Len(body) PROVE body[j] \in chars
    <2>1. CASE j <= z
      <3>1. "0" \in chars
        BY ZeroWorth
      <3> QED
        BY <1>3, <1>6, <1>7, <2>1, <3>1
    <2>2. CASE ~(j <= z)
      <3>1. j - z \in 1 .. Len(g)
        BY <1>6, <1>7, <2>2
      <3> QED
        BY <1>6, <1>7, <2>2, <3>1
    <2> QED
      BY <2>1, <2>2
  <1>9. (z > 0 \/ value = 0) => body[1] = "0"
    <2>1. CASE z > 0
      BY <1>3, <1>6, <1>7, <2>1
    <2>2. CASE z = 0
      <3>1. body[1] = g[1]
        <4>1. 1 \in 1 .. z + Len(g) /\ ~(1 <= z) /\ 1 - z = 1
          BY <1>6, <2>2
        <4> QED
          BY <1>7, <4>1
      <3> QED
        BY <1>2, <1>6, <2>2, <3>1 DEF Reads
    <2> QED
      BY <2>1, <2>2
  <1>10. ASSUME value # 0 PROVE LeadingZeros(body) = z
    <2>1. z + 1 \in 1 .. z + Len(g) /\ ~(z + 1 <= z) /\ (z + 1) - z = 1
      BY <1>6
    <2>2. body[z + 1] # "0"
      BY <1>2, <1>6, <1>7, <1>10, <2>1 DEF Reads
    <2>3. ASSUME NEW i \in 1 .. z PROVE body[i] = "0"
      BY <1>3, <1>6, <1>7
    <2> QED
      BY <1>6, <1>7, <2>2, <2>3, LeadingZerosAre
  <1>11. BodyIs(body, z, Len(g), chars, b, value)
    BY <1>6, <1>7, <1>8, <1>9, <1>10 DEF BodyIs
  <1> QED
    BY <1>11 DEF body, zs, g

----------------------------------------------------------------------------
\* Numbers read back: where the digits are

LEMMA SubMiddle ==
  ASSUME NEW a, NEW x, NEW b, IsSeq(a), IsSeq(x), IsSeq(b)
  PROVE  SubSeq((a \o x) \o b, Len(a) + 1, Len(a) + Len(x)) = x
  <1> DEFINE ax == a \o x
             t == ax \o b
             n == Len(a)
             m == Len(x)
             y == SubSeq(t, n + 1, n + m)
  <1>1. n \in Nat /\ m \in Nat /\ Len(b) \in Nat /\ DOMAIN x = 1 .. m
    BY SeqSize
  <1>2. /\ IsSeq(ax) /\ Len(ax) = n + m
        /\ \A i \in 1 .. n + m : ax[i] = IF i <= n THEN a[i] ELSE x[i - n]
    BY SeqConcat
  <1> HIDE DEF ax
  <1>3. \A i \in 1 .. Len(ax) + Len(b) : t[i] = IF i <= Len(ax) THEN ax[i] ELSE b[i - Len(ax)]
    BY <1>2, SeqConcat
  <1> HIDE DEF t
  <1>4. ASSUME NEW i \in 1 .. m PROVE t[n + i] = x[i]
    <2>1. n + i \in 1 .. n + m /\ ~(n + i <= n) /\ (n + i) - n = i /\ n + i <= n + m
          /\ n + i \in 1 .. (n + m) + Len(b)
      BY <1>1
    <2> QED
      BY <1>2, <1>3, <2>1
  <1>5. y = [i \in 1 .. m |-> t[n + i]]
    <2>1. y = [i \in 1 .. (1 + (n + m) - (n + 1)) |-> t[i + (n + 1) - 1]]
      BY <1>1
    <2>2. 1 + (n + m) - (n + 1) = m /\ \A i \in 1 .. m : i + (n + 1) - 1 = n + i
      BY <1>1
    <2> HIDE DEF n, m, y
    <2> QED
      BY <2>1, <2>2
  <1>6. x = [i \in 1 .. m |-> x[i]]
    <2>1. PICK S : x \in Seq(S)
      BY DEF IsSeq
    <2>2. x \in [1 .. m -> S]
      BY <2>1, LenProperties
    <2> HIDE DEF m
    <2> QED
      BY <2>2
  <1>7. y = x
    <2> HIDE DEF y, n, m
    <2> QED
      BY <1>4, <1>5, <1>6
  <1> QED
    BY <1>7 DEF t, ax

\* A head and digits between blanks.
Consists(t, a, h, m, b) ==
  /\ SubSeq(t, Len(a) + 1, Len(a) + Len(h \o m)) = h \o m
  /\ SubSeq(t, Len(a) + 1, Len(a) + Len(h)) = h
  /\ SubSeq(t, Len(a) + Len(h) + 1, Len(a) + Len(h \o m)) = m
  /\ IsSeq(t) /\ Len(t) = Len(a) + Len(h \o m) + Len(b) /\ Len(h \o m) = Len(h) + Len(m)

LEMMA PartsOfText ==
  ASSUME NEW a, NEW h, NEW m, NEW b, IsSeq(a), IsSeq(h), IsSeq(m), IsSeq(b),
         NEW t, t = (a \o (h \o m)) \o b
  PROVE  Consists(t, a, h, m, b)
  <1> DEFINE hm == h \o m
             ah == a \o h
             mb == m \o b
  <1>1. IsSeq(hm) /\ IsSeq(ah) /\ IsSeq(mb) /\ Len(hm) = Len(h) + Len(m) /\ Len(ah) = Len(a) + Len(h)
    BY SeqConcat
  <1>2. Len(a) \in Nat /\ Len(h) \in Nat /\ Len(m) \in Nat
    BY SeqSize
  <1>3. a \o hm = ah \o m
    BY SeqAssoc
  <1>4. (ah \o m) \o b = ah \o mb
    <2>1. IsSeq(ah) /\ IsSeq(m) /\ IsSeq(b)
      BY <1>1
    <2> HIDE DEF ah
    <2> QED
      BY ONLY <2>1, SeqAssoc
  <1>5. t = (a \o hm) \o b /\ t = (ah \o m) \o b /\ t = (a \o h) \o mb
    BY <1>3, <1>4, Zenon
  <1>6. IsSeq(a \o hm) /\ Len(a \o hm) = Len(a) + Len(hm)
    BY <1>1, SeqConcat
  <1>7. IsSeq(t) /\ Len(t) = Len(a) + Len(hm) + Len(b)
    <2> DEFINE x == a \o hm
    <2>1. IsSeq(x) /\ Len(x) = Len(a) + Len(hm) /\ t = x \o b
      BY <1>5, <1>6
    <2> HIDE DEF x
    <2> QED
      BY <2>1, SeqConcat
  <1> HIDE DEF hm, ah, mb
  <1>8. SubSeq(t, Len(a) + 1, Len(a) + Len(hm)) = hm
    <2>1. SubSeq((a \o hm) \o b, Len(a) + 1, Len(a) + Len(hm)) = hm
      BY <1>1, SubMiddle
    <2> QED
      BY <1>5, <2>1
  <1>9. SubSeq(t, Len(a) + 1, Len(a) + Len(h)) = h
    BY <1>1, <1>5, SubMiddle
  <1>10. SubSeq(t, Len(a) + Len(h) + 1, Len(a) + Len(hm)) = m
    <2>1. SubSeq((ah \o m) \o b, Len(ah) + 1, Len(ah) + Len(m)) = m
      BY <1>1, SubMiddle
    <2>2. Len(ah) + Len(m) = Len(a) + Len(hm)
      BY <1>1, <1>2
    <2> QED
      BY <1>1, <1>5, <2>1, <2>2
  <1> QED
    BY <1>1, <1>7, <1>8, <1>9, <1>10 DEF hm, Consists

\* The texts of fmtint one after the other, as blanks, head, digits and blanks.
Pieces(a, s, x, z, g, b) == IsSeq(a) /\ IsSeq(s) /\ IsSeq(x) /\ IsSeq(z) /\ IsSeq(g) /\ IsSeq(b)

LEMMA Regroup ==
  ASSUME NEW a, NEW s, NEW x, NEW z, NEW g, NEW b, Pieces(a, s, x, z, g, b)
  PROVE  a \o s \o x \o z \o g \o b = (a \o ((s \o x) \o (z \o g))) \o b
  <1>0. IsSeq(a) /\ IsSeq(s) /\ IsSeq(x) /\ IsSeq(z) /\ IsSeq(g) /\ IsSeq(b)
    BY DEF Pieces
  <1> DEFINE h == s \o x
             m == z \o g
             ah == a \o h
  <1>1. IsSeq(h) /\ IsSeq(m)
    BY <1>0, SeqConcat
  <1>2. (a \o s) \o x = ah
    <2>1. IsSeq(a) /\ IsSeq(s) /\ IsSeq(x)
      BY <1>0
    <2> QED
      BY ONLY <2>1, SeqAssoc
  <1>3. IsSeq(ah)
    <2> HIDE DEF h
    <2> QED
      BY <1>0, <1>1, SeqConcat
  <1>4. (ah \o z) \o g = ah \o m
    <2> HIDE DEF ah
    <2>1. IsSeq(ah) /\ IsSeq(z) /\ IsSeq(g)
      BY <1>0, <1>3
    <2> QED
      BY ONLY <2>1, SeqAssoc
  <1>5. ah \o m = a \o (h \o m)
    <2> HIDE DEF h, m
    <2>1. IsSeq(a) /\ IsSeq(h) /\ IsSeq(m)
      BY <1>0, <1>1
    <2> QED
      BY ONLY <2>1, SeqAssoc
  <1>6. ((((a \o s) \o x) \o z) \o g) = a \o (h \o m)
    BY <1>2, <1>4, <1>5, Zenon
  <1> QED
    BY <1>6, Zenon

\* k blanks on the side that the flag - says.
Sides(f, a, b, c, k) ==
  IF "MINUS" \in f.flags THEN a = <<>> /\ b = Times(c, k) ELSE a = Times(c, k) /\ b = <<>>

LEMMA SidesAround ==
  ASSUME NEW f, NEW a, NEW body, NEW b, NEW c, NEW k \in Nat, IsSeq(body), Sides(f, a, b, c, k),
         f.text = (a \o body) \o b
  PROVE  /\ f.text = IF "MINUS" \in f.flags THEN body \o Times(c, k) ELSE Times(c, k) \o body
         /\ Len(f.text) - Len(body) = k
  <1> DEFINE blanks == Times(c, k)
             left == "MINUS" \in f.flags
  <1>1. IsSeq(blanks) /\ Len(blanks) = k
    <2>1. k \in Int /\ AtLeast0(k) = k
      BY DEF AtLeast0
    <2> QED
      BY <2>1, SeqTimes
  <1>2. Len(body) \in Nat
    BY SeqSize
  <1>3. (left => a = <<>> /\ b = blanks) /\ (~left => a = blanks /\ b = <<>>)
    BY DEF Sides
  <1> HIDE DEF blanks, left
  <1>4. f.text = IF left THEN body \o blanks ELSE blanks \o body
    <2>1. IsSeq(blanks \o body)
      BY <1>1, SeqConcat
    <2>2. CASE left
      <3>1. a \o body = body
        BY <1>3, <2>2, SeqUnit
      <3> QED
        BY <1>3, <2>2, <3>1, Zenon
    <2>3. CASE ~left
      <3>1. (a \o body) \o b = a \o body
        BY <1>3, <2>1, <2>3, SeqUnit
      <3> QED
        BY <1>3, <2>3, <3>1, Zenon
    <2> QED
      BY <2>2, <2>3
  <1>5. Len(f.text) - Len(body) = k
    <2>1. Len(body \o blanks) = Len(body) + k /\ Len(blanks \o body) = k + Len(body)
      BY <1>1, SeqConcat
    <2>2. Len(f.text) = k + Len(body)
      BY <1>2, <1>4, <2>1
    <2> QED
      BY <1>2, <2>2
  <1> QED
    BY <1>4, <1>5 DEF blanks, left

LEMMA PaddedBetween ==
  ASSUME NEW f, NEW a, NEW body, NEW b, NEW c, c = " ", NEW k \in Nat, IsSeq(body), Sides(f, a, b, c, k),
         f.text = (a \o body) \o b, k > 0 => Len(f.text) <= f.width
  PROVE  Padded(f, body)
  <1> DEFINE pad == Len(f.text) - Len(body)
  <1>1. /\ f.text = IF "MINUS" \in f.flags THEN body \o Times(c, k) ELSE Times(c, k) \o body
        /\ pad = k
    BY ONLY IsSeq(body), Sides(f, a, b, c, k), f.text = (a \o body) \o b, k \in Nat, SidesAround
  <1> HIDE DEF pad
  <1>2. pad >= 0 /\ (pad > 0 => Len(f.text) <= f.width)
    BY ONLY <1>1, k \in Nat, k > 0 => Len(f.text) <= f.width
  <1> QED
    BY <1>1, <1>2, Zenon DEF Padded, pad

\* What fmtint makes of a width w, a precision p, n digits with sep places for
\* separators, a sign s and a prefix x: k blanks, and z zeros before the digits.
Shares(w, p, n, sep, s, x, oct, zeros, prec, zp, sp, k, z) ==
  /\ w \in Int /\ p \in Int /\ p >= -1 /\ n \in Nat /\ n > 0 /\ sep \in Nat /\ s \in Nat /\ x \in Nat
  /\ oct \in {0, 1} /\ zeros \in {0, 1} /\ (zeros = 1 => p = -1)
  /\ prec = IF oct = 1 /\ p <= n THEN n + 1 ELSE p
  /\ zp = AtLeast0(prec - n - sep)
  /\ sp = AtLeast0(w - sep - Larger(prec, n) - s - x)
  /\ k = (IF zeros = 1 THEN 0 ELSE sp) /\ z = zp + (IF zeros = 1 THEN sp ELSE 0)

Spaced(w, p, n, sep, oct, zeros, k, z, total) ==
  /\ k > 0 => total <= w
  /\ sep = 0 => z + n >= p /\ (oct = 1 => z > 0)
  /\ z > 0 => \/ z + n + sep = p
              \/ zeros = 1 /\ (total = w \/ (oct = 1 /\ sep > 0))
              \/ oct = 1 /\ z = 1

LEMMA Spaces ==
  ASSUME NEW w, NEW p, NEW n, NEW sep, NEW s, NEW x, NEW oct, NEW zeros, NEW prec, NEW zp, NEW sp,
         NEW k, NEW z, Shares(w, p, n, sep, s, x, oct, zeros, prec, zp, sp, k, z)
  PROVE  k \in Nat /\ z \in Nat /\ zp \in Nat /\ sp \in Nat
         /\ Spaced(w, p, n, sep, oct, zeros, k, z, k + ((s + x) + (z + (n + sep))))
  <1> DEFINE m == IF prec >= n THEN prec ELSE n
  <1>0. /\ w \in Int /\ p \in Int /\ p >= -1 /\ n \in Nat /\ n > 0 /\ sep \in Nat /\ s \in Nat /\ x \in Nat
        /\ oct \in {0, 1} /\ zeros \in {0, 1} /\ (zeros = 1 => p = -1)
        /\ prec = IF oct = 1 /\ p <= n THEN n + 1 ELSE p
        /\ zp = AtLeast0(prec - n - sep)
        /\ sp = AtLeast0(w - sep - Larger(prec, n) - s - x)
        /\ k = (IF zeros = 1 THEN 0 ELSE sp) /\ z = zp + (IF zeros = 1 THEN sp ELSE 0)
    BY DEF Shares
  <1>1. Larger(prec, n) = m /\ prec \in Int /\ m \in Int
    BY <1>0 DEF Larger
  <1>2. /\ prec - n - sep < 0 => zp = 0
        /\ prec - n - sep >= 0 => zp = prec - n - sep
        /\ w - sep - m - s - x < 0 => sp = 0
        /\ w - sep - m - s - x >= 0 => sp = w - sep - m - s - x
    BY <1>0, <1>1 DEF AtLeast0
  <1>3. zp \in Nat /\ sp \in Nat
    BY <1>0, <1>1, <1>2
  <1>6. (prec >= n => m = prec) /\ (prec < n => m = n)
    BY <1>0, <1>1
  <1> HIDE DEF m
  <1>4. CASE zeros = 1
    <2>1. k = 0 /\ z = zp + sp /\ p = -1
      BY <1>0, <1>4
    <2>2. CASE oct = 1
      <3>1. prec = n + 1 /\ m = n + 1
        BY <1>0, <1>6, <2>1, <2>2
      <3> QED
        BY <1>0, <1>2, <1>3, <1>4, <2>1, <2>2, <3>1 DEF Spaced
    <2>3. CASE oct = 0
      <3>1. prec = -1 /\ m = n
        BY <1>0, <1>6, <2>1, <2>3
      <3>2. zp = 0 /\ (sp = 0 \/ sp = w - sep - n - s - x)
        BY <1>0, <1>1, <1>2, <3>1
      <3>3. sp > 0 => k + ((s + x) + (z + (n + sep))) = w
        BY <1>0, <1>3, <2>1, <3>2
      <3> QED
        BY <1>0, <1>3, <1>4, <2>1, <2>3, <3>2, <3>3 DEF Spaced
    <2> QED
      BY <1>0, <2>2, <2>3
  <1>5. CASE zeros = 0
    <2>1. k = sp /\ z = zp
      BY <1>0, <1>3, <1>5
    <2>2. CASE oct = 1 /\ p <= n
      <3>1. prec = n + 1 /\ m = n + 1
        BY <1>0, <1>6, <2>1, <2>2
      <3> QED
        BY <1>0, <1>2, <1>3, <1>5, <2>1, <2>2, <3>1 DEF Spaced
    <2>3. CASE ~(oct = 1 /\ p <= n)
      <3>1. prec = p
        BY <1>0, <2>3
      <3> QED
        BY <1>0, <1>1, <1>2, <1>3, <1>5, <1>6, <2>1, <2>3, <3>1 DEF Spaced
    <2> QED
      BY <1>0, <2>2, <2>3
  <1> QED
    BY <1>0, <1>4, <1>5

----------------------------------------------------------------------------
\* Numbers read back: what is printed

\* The powers of two up to the width of UINTMAX_T.
LEMMA TwosAre ==
  ASSUME NEW k \in 0 .. MaxBits
  PROVE  2 ^ k \in Nat \ {0} /\ 2 ^ k <= 2 ^ MaxBits
  <1> DEFINE pw == [j \in 0 .. MaxBits |-> 2 ^ j]
             S == {j \in Nat : j <= MaxBits => pw[j] \in Nat \ {0}}
             T == {j \in Nat : j <= MaxBits => pw[MaxBits - j] <= pw[MaxBits]}
  <1>1. MaxBits \in Nat
    BY FmtAssumption
  <1>2. pw[0] = 1 /\ \A j \in 1 .. MaxBits : pw[j] = 2 * pw[j - 1]
    <2>1. pw[0] = 2 ^ 0
      BY <1>1
    <2>2. ASSUME NEW j \in 1 .. MaxBits PROVE pw[j] = 2 ^ j /\ pw[j - 1] = 2 ^ (j - 1)
      <3>1. j \in 0 .. MaxBits /\ j - 1 \in 0 .. MaxBits
        BY <1>1
      <3> QED
        BY <3>1
    <2> HIDE DEF pw
    <2> QED
      BY <2>1, <2>2, PowersAssumption
  <1>3. \A j \in 0 .. MaxBits : pw[j] = 2 ^ j
    OBVIOUS
  <1> HIDE DEF pw
  <1>4. ASSUME NEW j \in Nat, j \in S PROVE j + 1 \in S
    <2>1. ASSUME j + 1 <= MaxBits PROVE pw[j + 1] \in Nat \ {0}
      <3>1. j + 1 \in 1 .. MaxBits /\ (j + 1) - 1 = j
        BY <1>1, <2>1
      <3>2. pw[j + 1] = 2 * pw[j]
        BY <1>2, <3>1
      <3>3. pw[j] \in Nat \ {0}
        BY <1>1, <1>4, <2>1
      <3> QED
        BY <3>2, <3>3
    <2> QED
      BY <2>1
  <1>5. \A j \in 0 .. MaxBits : pw[j] \in Nat \ {0}
    <2>1. 0 \in S
      BY <1>2
    <2>2. Nat \subseteq S
      <3> HIDE DEF S
      <3> QED
        BY <1>4, <2>1, SetInduction
    <2> QED
      BY <2>2
  <1>6. ASSUME NEW j \in Nat, j \in T PROVE j + 1 \in T
    <2>1. ASSUME j + 1 <= MaxBits PROVE pw[MaxBits - (j + 1)] <= pw[MaxBits]
      <3> DEFINE i == MaxBits - j
      <3>1. i \in 1 .. MaxBits /\ i - 1 = MaxBits - (j + 1) /\ i \in 0 .. MaxBits /\ i - 1 \in 0 .. MaxBits
            /\ MaxBits \in 0 .. MaxBits
        BY <1>1, <2>1
      <3>2. pw[i] = 2 * pw[i - 1] /\ pw[i - 1] \in Nat /\ pw[MaxBits] \in Nat
        BY <1>2, <1>5, <3>1
      <3>3. pw[i] <= pw[MaxBits]
        BY <1>1, <1>6, <2>1
      <3> HIDE DEF i
      <3> QED
        BY <3>1, <3>2, <3>3
    <2> QED
      BY <2>1
  <1>7. pw[k] <= pw[MaxBits]
    <2>1. 0 \in T
      <3>1. MaxBits \in 0 .. MaxBits /\ MaxBits - 0 = MaxBits
        BY <1>1
      <3> QED
        BY <1>5, <3>1
    <2>2. Nat \subseteq T
      <3> HIDE DEF T
      <3> QED
        BY <1>6, <2>1, SetInduction
    <2>3. MaxBits - k \in Nat /\ MaxBits - k <= MaxBits /\ MaxBits - (MaxBits - k) = k
      BY <1>1
    <2>4. MaxBits - k \in T
      BY <2>2, <2>3
    <2> QED
      BY <2>3, <2>4
  <1> QED
    BY <1>1, <1>3, <1>5, <1>7

LEMMA TypeBitsFit ==
  ASSUME NEW t
  PROVE  TypeBits(t) \in 1 .. MaxBits
  <1>1. MaxBits \in Nat \ {0} /\ \A u \in {"char", "short", "int", "long"} : Bits[u] \in 1 .. MaxBits
    BY FmtAssumption, VsnprintfAssumption
  <1>2. Bits.int \in 1 .. MaxBits
    BY <1>1
  <1> QED
    BY <1>1, <1>2 DEF TypeBits

\* An argument is taken for a number that UINTMAX_T holds, or its negative.
LEMMA UnsignedFits ==
  ASSUME NEW v \in Int, NEW t
  PROVE  Unsigned(v, t) \in 0 .. UIntMax
  <1> DEFINE c == 2 ^ TypeBits(t)
             m == 2 ^ MaxBits
  <1>1. c \in Nat \ {0} /\ c <= m /\ m \in Nat
    <2>1. TypeBits(t) \in 0 .. MaxBits /\ MaxBits \in 0 .. MaxBits
      BY TypeBitsFit, FmtAssumption
    <2> QED
      BY <2>1, TwosAre
  <1>2. Unsigned(v, t) = v % c /\ UIntMax = m - 1
    BY DEF Unsigned, UIntMax
  <1> HIDE DEF c, m
  <1>3. v % c \in 0 .. c - 1
    BY <1>1, ModDef
  <1> DEFINE r == v % c
  <1> HIDE DEF r
  <1>4. r \in 0 .. c - 1
    BY <1>3 DEF r
  <1>5. r \in 0 .. m - 1
    BY <1>1, <1>4
  <1> QED
    BY <1>2, <1>5 DEF r

LEMMA SignedFits ==
  ASSUME NEW v \in Int, NEW t
  PROVE  Signed(v, t) \in Int /\ Abs(Signed(v, t)) \in 0 .. UIntMax
  <1> DEFINE h == 2 ^ (TypeBits(t) - 1)
             c == 2 ^ TypeBits(t)
             m == 2 ^ MaxBits
             r == (v + h) % (2 * h)
  <1>1. h \in Nat \ {0} /\ 2 * h <= m /\ m \in Nat
    <2>1. TypeBits(t) \in 1 .. MaxBits
      BY TypeBitsFit
    <2>2. TypeBits(t) - 1 \in 0 .. MaxBits /\ TypeBits(t) \in 0 .. MaxBits /\ MaxBits \in 0 .. MaxBits
      BY <2>1, FmtAssumption
    <2>3. h \in Nat \ {0} /\ c <= m /\ m \in Nat
      BY <2>2, TwosAre
    <2>4. c = 2 * h
      BY <2>1, PowersAssumption
    <2> HIDE DEF h, c, m
    <2> QED
      BY <2>3, <2>4
  <1>2. Signed(v, t) = r - h /\ UIntMax = m - 1
    BY DEF Signed, UIntMax
  <1> HIDE DEF h, m
  <1>3. r \in 0 .. (2 * h) - 1
    <2> DEFINE d == 2 * h
               w == v + h
    <2>1. d \in Nat \ {0} /\ w \in Int /\ r = w % d
      BY <1>1
    <2> HIDE DEF d, w, r
    <2>2. r \in 0 .. d - 1
      BY <2>1, ModDef
    <2> QED
      BY <2>2 DEF d
  <1> HIDE DEF r
  <1>4. r - h \in Int /\ (r - h < 0 => -(r - h) \in 0 .. m - 1) /\ (~(r - h < 0) => r - h \in 0 .. m - 1)
    BY <1>1, <1>3
  <1> QED
    BY <1>2, <1>4 DEF Abs

LEMMA AbsKept ==
  ASSUME NEW v \in Int, Abs(v) \in 0 .. UIntMax
  PROVE  (IF v >= 0 THEN v ELSE -v) % 2 ^ MaxBits = Abs(v) /\ (Abs(v) = 0 <=> v = 0)
  <1> DEFINE m == 2 ^ MaxBits
             a == IF v >= 0 THEN v ELSE -v
  <1>1. m \in Nat \ {0} /\ UIntMax = m - 1
    <2>1. MaxBits \in 0 .. MaxBits
      BY FmtAssumption
    <2> QED
      BY <2>1, TwosAre DEF UIntMax
  <1>2. Abs(v) = a /\ a \in Int /\ (a = 0 <=> v = 0)
    BY DEF Abs
  <1> HIDE DEF m, a
  <1>3. a \in 0 .. m - 1 /\ a = m * 0 + a
    BY <1>1, <1>2
  <1>4. a % m = a
    <2>1. (m * 0 + a) % m = a
      BY <1>1, <1>3, ModUnique
    <2> QED
      BY <1>3, <2>1
  <1> QED
    BY <1>2, <1>4 DEF m, a

\* The digits of v and what the flags say of the zeros in front of them.
DigitsOK(f, v, base, body, z, n, sep, oct, zeros, k) ==
  /\ f.precision \in Int /\ f.as \in {"d", "i", "u", "o", "x", "X"}
  /\ z \in Nat /\ n \in Nat /\ sep \in Nat /\ (Abs(v) = 0 <=> v = 0)
  /\ BodyIs(body, z, n + sep, IF sep > 0 THEN Digits \cup ToSet(ThousandsSep) ELSE Digits, base, Abs(v))
  /\ (sep > 0 => "QUOTE" \in f.flags) /\ ("QUOTE" \notin f.flags => sep = 0)
  /\ oct \in {0, 1} /\ (oct = 1 => f.as = "o" /\ "NUM" \in f.flags)
  /\ (f.as = "o" /\ "NUM" \in f.flags /\ v # 0) => oct = 1
  /\ zeros \in {0, 1}
  /\ zeros = 1 => "ZERO" \in f.flags /\ "MINUS" \notin f.flags /\ f.precision = -1
  /\ Spaced(f.width, f.precision, n, sep, oct, zeros, k, z, Len(f.text))

LEMMA DigitsFrom ==
  ASSUME NEW f, NEW v, NEW base, NEW body, NEW z, NEW n, NEW sep, NEW oct, NEW zeros, NEW k,
         DigitsOK(f, v, base, body, z, n, sep, oct, zeros, k)
  PROVE  DigitsAsAsked(f, body, v, base)
  <1> DEFINE chars == IF sep > 0 THEN Digits \cup ToSet(ThousandsSep) ELSE Digits
  <1>0. /\ f.precision \in Int /\ f.as \in {"d", "i", "u", "o", "x", "X"}
        /\ z \in Nat /\ n \in Nat /\ sep \in Nat /\ (Abs(v) = 0 <=> v = 0)
        /\ BodyIs(body, z, n + sep, chars, base, Abs(v))
        /\ (sep > 0 => "QUOTE" \in f.flags) /\ ("QUOTE" \notin f.flags => sep = 0)
        /\ oct \in {0, 1} /\ (oct = 1 => f.as = "o" /\ "NUM" \in f.flags)
        /\ (f.as = "o" /\ "NUM" \in f.flags /\ v # 0) => oct = 1
        /\ zeros \in {0, 1}
        /\ zeros = 1 => "ZERO" \in f.flags /\ "MINUS" \notin f.flags /\ f.precision = -1
        /\ Spaced(f.width, f.precision, n, sep, oct, zeros, k, z, Len(f.text))
    BY DEF DigitsOK
  <1>c. chars = (IF sep > 0 THEN Digits \cup ToSet(ThousandsSep) ELSE Digits)
    OBVIOUS
  <1> HIDE DEF chars
  <1>1. /\ IsSeq(body) /\ Len(body) = z + (n + sep) /\ Len(body) > 0
        /\ \A j \in 1 .. Len(body) : body[j] \in chars
        /\ ValueOf(body, base) = Abs(v)
        /\ (z > 0 \/ v = 0) => body[1] = "0"
        /\ v # 0 => LeadingZeros(body) = z
    BY <1>0, <1>c DEF BodyIs
  <1>2. ToSet(body) \subseteq chars
    <2>1. DOMAIN body = 1 .. Len(body)
      BY <1>0, <1>c, <1>1, SeqSize
    <2> QED
      BY <1>0, <1>c, <1>1, <2>1 DEF ToSet
  <1>3. body # <<>>
    BY <1>0, <1>c, <1>1, SeqEmpty
  <1>4. ToSet(body) \subseteq Digits \cup ToSet(ThousandsSep)
    BY <1>0, <1>c, <1>2
  <1>5. ASSUME "QUOTE" \notin f.flags
        PROVE  /\ ToSet(body) \subseteq Digits /\ Len(body) >= f.precision
               /\ f.as = "o" /\ "NUM" \in f.flags => body[1] = "0"
    <2>1. sep = 0
      BY <1>0, <1>c, <1>5
    <2>2. chars = Digits
      BY <1>0, <1>c, <2>1
    <2>3. z + n >= f.precision /\ (oct = 1 => z > 0)
      BY <1>0, <1>c, <2>1 DEF Spaced
    <2>4. Len(body) >= f.precision
      BY <1>0, <1>c, <1>1, <2>1, <2>3
    <2>5. (f.as = "o" /\ "NUM" \in f.flags) => body[1] = "0"
      BY <1>0, <1>c, <1>1, <2>3
    <2> QED
      BY <1>0, <1>c, <1>2, <2>2, <2>4, <2>5
  <1>6. ASSUME v # 0 PROVE Leading(f, LeadingZeros(body), Len(body))
    <2>1. z > 0 => \/ z + n + sep = f.precision
                   \/ zeros = 1 /\ (Len(f.text) = f.width \/ (oct = 1 /\ sep > 0))
                   \/ oct = 1 /\ z = 1
      BY <1>0, <1>c DEF Spaced
    <2>2. oct = 1 /\ sep > 0 => TakenTwice(f)
      BY <1>0, <1>c DEF TakenTwice
    <2>3. LeadingZeros(body) = z /\ Len(body) = z + n + sep
      BY <1>0, <1>c, <1>1, <1>6
    <2> QED
      BY <1>0, <1>c, <2>1, <2>2, <2>3 DEF Leading
  <1> QED
    BY <1>0, <1>c, <1>1, <1>3, <1>4, <1>5, <1>6 DEF DigitsAsAsked

\* A text made of blanks, a head and digits is an integer as asked.
HeadAndDigits(f, v, base, head) ==
  \E a \in 0 .. Len(f.text) : \E b \in a + Len(head) .. Len(f.text) :
       /\ Padded(f, SubSeq(f.text, a + 1, b))
       /\ SubSeq(f.text, a + 1, a + Len(head)) = head
       /\ DigitsAsAsked(f, SubSeq(f.text, a + Len(head) + 1, b), v, base)

LEMMA HeadAndDigitsOf ==
  ASSUME NEW f, NEW v, NEW base, NEW a, NEW head, NEW body, NEW b, NEW c, c = " ", NEW k \in Nat,
         IsSeq(a), IsSeq(head), IsSeq(body), IsSeq(b),
         f.text = (a \o (head \o body)) \o b, Sides(f, a, b, c, k), k > 0 => Len(f.text) <= f.width,
         DigitsAsAsked(f, body, v, base)
  PROVE  HeadAndDigits(f, v, base, head)
  <1> DEFINE t == f.text
             hm == head \o body
             i == Len(a)
             j == Len(a) + Len(hm)
  <1>1. /\ SubSeq(t, Len(a) + 1, Len(a) + Len(hm)) = hm
        /\ SubSeq(t, Len(a) + 1, Len(a) + Len(head)) = head
        /\ SubSeq(t, Len(a) + Len(head) + 1, Len(a) + Len(hm)) = body
        /\ IsSeq(t) /\ Len(t) = Len(a) + Len(hm) + Len(b) /\ Len(hm) = Len(head) + Len(body)
    <2>1. Consists(t, a, head, body, b)
      BY PartsOfText
    <2> QED
      BY <2>1 DEF Consists
  <1>2. IsSeq(hm)
    BY ONLY IsSeq(head), IsSeq(body), SeqConcat
  <1>3. Len(a) \in Nat /\ Len(head) \in Nat /\ Len(body) \in Nat /\ Len(b) \in Nat
    BY ONLY IsSeq(a), IsSeq(head), IsSeq(body), IsSeq(b), SeqSize
  <1>4. t = (a \o hm) \o b
    OBVIOUS
  <1> HIDE DEF hm
  <1>5. Padded(f, hm)
    BY <1>2, <1>4, PaddedBetween, Zenon DEF t
  <1> HIDE DEF t
  <1>6. i \in 0 .. Len(t) /\ j \in i + Len(head) .. Len(t)
    BY ONLY <1>1, <1>3
  <1>7. /\ SubSeq(t, i + 1, j) = hm /\ SubSeq(t, i + 1, i + Len(head)) = head
        /\ SubSeq(t, i + Len(head) + 1, j) = body
    BY <1>1, Zenon
  <1> HIDE DEF i, j
  <1>8. /\ Padded(f, SubSeq(t, i + 1, j)) /\ SubSeq(t, i + 1, i + Len(head)) = head
        /\ DigitsAsAsked(f, SubSeq(t, i + Len(head) + 1, j), v, base)
    BY <1>5, <1>7, Zenon
  <1> QED
    BY <1>6, <1>8, Zenon DEF HeadAndDigits, t

\* The text of a conversion of v is what fmtint prints for its parts.
IntegerOf(f, width, precision, flags, v, base, head) ==
  /\ width \in Int /\ precision \in Int /\ precision >= -1
  /\ f.width = width /\ f.precision = precision /\ f.flags = flags
  /\ f.as \in {"d", "i", "u", "o", "x", "X"} /\ v \in Int /\ Abs(v) \in 0 .. UIntMax
  /\ base \in {8, 10, 16} /\ (base = 8 <=> f.as = "o") /\ (base = 16 <=> f.as \in {"x", "X"})
  /\ "UP" \in flags <=> f.as = "X"
  /\ "UNSIGNED" \notin flags <=> f.as \in {"d", "i"}
  /\ "UNSIGNED" \in flags => v >= 0
  /\ f.text = FmtInt(v, base, width, precision, flags)
  /\ head = (IF f.as \in {"d", "i"} THEN Sign(v < 0, flags) ELSE <<>>)
            \o (IF base = 16 /\ "NUM" \in flags /\ v # 0 THEN <<"0", f.as>> ELSE <<>>)

LEMMA IntegerPrinted ==
  ASSUME NEW f, NEW width, NEW precision, NEW flags, NEW v, NEW base, NEW head,
         IntegerOf(f, width, precision, flags, v, base, head)
  PROVE  HeadAndDigits(f, v, base, head)
  <1>0. /\ width \in Int /\ precision \in Int /\ precision >= -1
        /\ f.width = width /\ f.precision = precision /\ f.flags = flags
        /\ f.as \in {"d", "i", "u", "o", "x", "X"} /\ v \in Int /\ Abs(v) \in 0 .. UIntMax
        /\ base \in {8, 10, 16} /\ (base = 8 <=> f.as = "o") /\ (base = 16 <=> f.as \in {"x", "X"})
        /\ "UP" \in flags <=> f.as = "X"
        /\ "UNSIGNED" \notin flags <=> f.as \in {"d", "i"}
        /\ "UNSIGNED" \in flags => v >= 0
        /\ f.text = FmtInt(v, base, width, precision, flags)
        /\ head = (IF f.as \in {"d", "i"} THEN Sign(v < 0, flags) ELSE <<>>)
                  \o (IF base = 16 /\ "NUM" \in flags /\ v # 0 THEN <<"0", f.as>> ELSE <<>>)
    BY DEF IntegerOf
  <1> USE <1>0
  <1> DEFINE unsigned == "UNSIGNED" \in flags
             uvalue == (IF unsigned \/ v >= 0 THEN v ELSE -v) % 2 ^ MaxBits
             sign == When(~unsigned, Sign(v < 0, flags))
             up == "UP" \in flags
             digits == Convert(uvalue, MaxConvert, base, up)
             n == Len(digits)
             alt == "NUM" \in flags /\ uvalue # 0
             prec == IF alt /\ base = 8 /\ precision <= n THEN n + 1 ELSE precision
             hexprefix == When(alt /\ base = 16, <<"0", IF up THEN "X" ELSE "x">>)
             separators == IF "QUOTE" \in flags THEN GetNumSep(n) ELSE 0
             zpadlen == AtLeast0(prec - n - separators)
             spadlen == AtLeast0(width - separators - Larger(prec, n) - Len(sign) - Len(hexprefix))
             left == "MINUS" \in flags
             zeros == ~left /\ "ZERO" \in flags /\ precision = -1
             c == " "
             d == "0"
             nz == zpadlen + IF zeros THEN spadlen ELSE 0
             a == When(~left /\ ~zeros, Times(c, spadlen))
             z == Times(d, nz)
             g == Grouped(digits, separators)
             b == When(left, Times(c, spadlen))
             k == IF zeros THEN 0 ELSE spadlen
             oct == IF alt /\ base = 8 THEN 1 ELSE 0
             zn == IF zeros THEN 1 ELSE 0
             chars == IF separators > 0 THEN Digits \cup ToSet(ThousandsSep) ELSE Digits
             body == z \o g
  <1>1. f.text = a \o sign \o hexprefix \o z \o g \o b
    BY DEF FmtInt, ZeroFilled
  <1>2. uvalue = Abs(v) /\ (uvalue = 0 <=> v = 0)
    <2>1. uvalue = (IF v >= 0 THEN v ELSE -v) % 2 ^ MaxBits
      OBVIOUS
    <2> HIDE DEF uvalue
    <2> QED
      BY <2>1, AbsKept
  <1>c. c = " "
    OBVIOUS
  <1> HIDE DEF c, uvalue
  <1>3. IsSeq(digits) /\ n \in Nat /\ n > 0
    BY SeqConvert, SeqSize DEF MaxConvert
  <1>4. IsSeq(sign) /\ sign = IF f.as \in {"d", "i"} THEN Sign(v < 0, flags) ELSE <<>>
    <2> DEFINE negative == v < 0
    <2>1. negative \in BOOLEAN
      OBVIOUS
    <2> HIDE DEF negative
    <2>2. IsSeq(Sign(negative, flags))
      BY <2>1, SeqSign
    <2>3. IsSeq(When(~unsigned, Sign(negative, flags)))
      BY <2>2, SeqWhen
    <2> QED
      BY <2>3 DEF When, negative
  <1>5. IsSeq(hexprefix)
        /\ hexprefix = IF base = 16 /\ "NUM" \in flags /\ v # 0 THEN <<"0", f.as>> ELSE <<>>
    <2> DEFINE x == IF up THEN "X" ELSE "x"
    <2>1. base = 16 => x = f.as
      OBVIOUS
    <2> HIDE DEF x, up
    <2>2. IsSeq(<<"0", x>>)
      BY SeqTwo, Zenon
    <2>3. IsSeq(When(alt /\ base = 16, <<"0", x>>))
      BY <2>2, SeqWhen
    <2>4. When(alt /\ base = 16, <<"0", x>>)
          = IF base = 16 /\ "NUM" \in flags /\ v # 0 THEN <<"0", f.as>> ELSE <<>>
      BY <1>2, <2>1 DEF When
    <2> QED
      BY <2>3, <2>4 DEF x
  <1>6. head = sign \o hexprefix
    BY <1>4, <1>5, Zenon
  <1>7. up \in BOOLEAN /\ zeros \in BOOLEAN
    OBVIOUS
  <1> HIDE DEF digits, sign, hexprefix, up
  <1>8. Len(sign) \in Nat /\ Len(hexprefix) \in Nat
    BY <1>4, <1>5, SeqSize
  <1>9. separators \in Nat /\ ("QUOTE" \notin flags => separators = 0)
        /\ separators \in {0, GetNumSep(n)}
    BY <1>3, SeparatorsInt
  <1> HIDE DEF separators
  <1>10. Len(g) = n + separators /\ IsSeq(g)
    BY ONLY <1>3, <1>9, SeqGrouped
  <1> HIDE DEF n
  <1>11. /\ oct \in {0, 1} /\ zn \in {0, 1} /\ (zn = 1 => precision = -1)
         /\ prec = IF oct = 1 /\ precision <= n THEN n + 1 ELSE precision
         /\ oct = 1 => f.as = "o" /\ "NUM" \in f.flags
         /\ (f.as = "o" /\ "NUM" \in f.flags /\ v # 0) => oct = 1
         /\ zn = 1 => "ZERO" \in f.flags /\ "MINUS" \notin f.flags /\ f.precision = -1
    BY <1>2
  <1>12. k = (IF zn = 1 THEN 0 ELSE spadlen) /\ nz = zpadlen + (IF zn = 1 THEN spadlen ELSE 0)
    OBVIOUS
  <1>13. Sides(f, a, b, c, k)
    <2> DEFINE blanks == Times(c, spadlen)
    <2>1. Times(c, 0) = <<>>
      <3>1. 1 .. 0 = {}
        OBVIOUS
      <3> QED
        BY <3>1 DEF Times
    <2> HIDE DEF spadlen
    <2>2. CASE left
      BY <2>2 DEF Sides, When
    <2>3. CASE ~left /\ zeros
      BY <2>1, <2>3 DEF Sides, When
    <2>4. CASE ~left /\ ~zeros
      BY <2>4 DEF Sides, When
    <2> QED
      BY <2>2, <2>3, <2>4
  <1> DEFINE total == k + ((Len(sign) + Len(hexprefix)) + (nz + (n + separators)))
  <1> HIDE DEF alt, prec, left, zeros, oct, zn
  <1>14. k \in Nat /\ nz \in Nat /\ spadlen \in Nat
         /\ Spaced(width, precision, n, separators, oct, zn, k, nz, total)
    <2> DEFINE zp == zpadlen
               sp == spadlen
    <2>1. zp = AtLeast0(prec - n - separators)
          /\ sp = AtLeast0(width - separators - Larger(prec, n) - Len(sign) - Len(hexprefix))
      OBVIOUS
    <2>2. k = (IF zn = 1 THEN 0 ELSE sp) /\ nz = zp + (IF zn = 1 THEN sp ELSE 0)
      BY <1>12
    <2> HIDE DEF zpadlen, spadlen, k, nz, zp, sp
    <2> DEFINE s == Len(sign)
               x == Len(hexprefix)
    <2>3. s \in Nat /\ x \in Nat
      BY <1>8
    <2>4. /\ k \in Nat /\ nz \in Nat /\ zp \in Nat /\ sp \in Nat
          /\ Spaced(width, precision, n, separators, oct, zn, k, nz, k + ((s + x) + (nz + (n + separators))))
      <3> HIDE DEF s, x, total
      <3>1. sp = AtLeast0(width - separators - Larger(prec, n) - s - x)
        BY <2>1 DEF s, x
      <3>2. n \in Nat /\ n > 0 /\ separators \in Nat /\ oct \in {0, 1} /\ zn \in {0, 1}
            /\ (zn = 1 => precision = -1) /\ prec = (IF oct = 1 /\ precision <= n THEN n + 1 ELSE precision)
        BY <1>3, <1>9, <1>11
      <3>3. zp = AtLeast0(prec - n - separators)
        BY <2>1
      <3>4. Shares(width, precision, n, separators, s, x, oct, zn, prec, zp, sp, k, nz)
        BY <2>2, <2>3, <3>1, <3>2, <3>3 DEF Shares
      <3> QED
        BY ONLY <3>4, Spaces
    <2> QED
      BY <2>4 DEF sp
  <1>15. IsSeq(a) /\ IsSeq(b) /\ Len(a) + Len(b) = k
    <2> DEFINE blanks == Times(c, k)
    <2>1. IsSeq(blanks) /\ Len(blanks) = k
      <3>1. k \in Int /\ AtLeast0(k) = k
        BY <1>14 DEF AtLeast0
      <3> HIDE DEF k
      <3> QED
        BY <3>1, SeqTimes
    <2>2. (a = <<>> /\ b = blanks) \/ (a = blanks /\ b = <<>>)
      BY <1>13 DEF Sides
    <2> HIDE DEF a, b, blanks, k
    <2> QED
      BY <1>14, <2>1, <2>2, SeqEmpty
  <1> HIDE DEF k, nz, spadlen, zpadlen, a, b
  <1>16. BodyIs(body, nz, n + separators, chars, base, Abs(v))
    <2>1. BodyIs(Times("0", nz) \o Grouped(digits, separators), nz, Len(Grouped(digits, separators)), chars,
                 base, uvalue)
      <3>1. uvalue \in 0 .. UIntMax /\ separators \in Int /\ up \in BOOLEAN
        BY <1>2, <1>7, <1>9
      <3>2. digits = Convert(uvalue, MaxConvert, base, up)
        BY DEF digits
      <3>3. chars = IF separators > 0 THEN Digits \cup ToSet(ThousandsSep) ELSE Digits
        OBVIOUS
      <3> HIDE DEF chars
      <3> QED
        BY <1>14, <3>1, <3>2, <3>3, BodyReads
    <2> QED
      BY <1>2, <1>10, <2>1
  <1>17. chars = (IF separators > 0 THEN Digits \cup ToSet(ThousandsSep) ELSE Digits)
    OBVIOUS
  <1>18. IsSeq(z) /\ IsSeq(body) /\ Len(body) = nz + (n + separators)
    <2>1. IsSeq(z)
      <3>1. nz \in Int
        BY <1>14
      <3> QED
        BY <3>1, SeqTimes
    <2> QED
      BY <1>16, <2>1 DEF BodyIs
  <1> HIDE DEF z, g, chars
  <1>19. f.text = (a \o (head \o body)) \o b
    <2>1. a \o sign \o hexprefix \o z \o g \o b = (a \o ((sign \o hexprefix) \o (z \o g))) \o b
      <3>1. Pieces(a, sign, hexprefix, z, g, b)
        BY <1>4, <1>5, <1>10, <1>15, <1>18 DEF Pieces
      <3> QED
        BY ONLY <3>1, Regroup
    <2> QED
      BY <1>1, <1>6, <2>1, Zenon
  <1>20. IsSeq(head) /\ Len(head) = Len(sign) + Len(hexprefix)
    BY <1>4, <1>5, <1>6, SeqConcat
  <1> HIDE DEF body
  <1>21. Len(f.text) = total
    <2>1. Consists(f.text, a, head, body, b)
      BY <1>15, <1>18, <1>19, <1>20, PartsOfText
    <2>2. /\ Len(f.text) = Len(a) + Len(head \o body) + Len(b)
          /\ Len(head \o body) = Len(head) + Len(body)
      BY <2>1 DEF Consists
    <2>3. Len(a) \in Nat /\ Len(b) \in Nat
      BY <1>15, SeqSize
    <2>4. total = k + ((Len(sign) + Len(hexprefix)) + (nz + (n + separators)))
      OBVIOUS
    <2> HIDE DEF total
    <2> QED
      BY ONLY <1>3, <1>8, <1>9, <1>14, <1>15, <1>18, <1>20, <2>2, <2>3, <2>4
  <1>22. DigitsAsAsked(f, body, v, base)
    <2>1. Spaced(f.width, f.precision, n, separators, oct, zn, k, nz, Len(f.text))
      BY <1>14, <1>21
    <2>2. (separators > 0 => "QUOTE" \in f.flags) /\ ("QUOTE" \notin f.flags => separators = 0)
      BY <1>9
    <2>3. Abs(v) = 0 <=> v = 0
      BY <1>2
    <2> HIDE DEF total
    <2>4. /\ f.precision \in Int /\ f.as \in {"d", "i", "u", "o", "x", "X"} /\ v \in Int
          /\ nz \in Nat /\ n \in Nat /\ separators \in Nat /\ oct \in {0, 1} /\ zn \in {0, 1}
      BY <1>3, <1>9, <1>11, <1>14
    <2>5. DigitsOK(f, v, base, body, nz, n, separators, oct, zn, k)
      BY <1>11, <1>16, <1>17, <2>1, <2>2, <2>3, <2>4 DEF DigitsOK
    <2> QED
      BY <2>5, DigitsFrom
  <1>23. k > 0 => Len(f.text) <= f.width
    BY <1>14, <1>21 DEF Spaced
  <1> QED
    BY <1>c, <1>13, <1>14, <1>15, <1>18, <1>19, <1>20, <1>22, <1>23, HeadAndDigitsOf

----------------------------------------------------------------------------
\* Numbers read back: every conversion

\* Up to a conversion, its flags are those that a format can ask for.
Asked == {"MINUS", "PLUS", "SPACE", "NUM", "ZERO", "QUOTE"}
FlagsInv == state \notin {"out", "done"} => conv.flags \subseteq Asked

LEMMA SignIs ==
  ASSUME NEW negative \in BOOLEAN, NEW flags
  PROVE  SignAsked(negative, flags) = Sign(negative, flags)
  <1>1. CASE negative
    BY <1>1 DEF Sign, SignAsked
  <1>2. CASE ~negative
    BY <1>2 DEF Sign, SignAsked
  <1> QED
    BY <1>1, <1>2

LEMMA SignedAsAsked ==
  ASSUME NEW f, f.as \in {"d", "i"}, f.value \in Int, f.flags \subseteq Asked,
         f.width \in Int, f.precision \in Int, f.precision >= -1,
         f.text = FmtInt(Signed(f.value, f.cflags), 10, f.width, f.precision, f.flags)
  PROVE  IntegerAsAsked(f)
  <1> DEFINE v == Signed(f.value, f.cflags)
             base == 10
             head == (IF f.as \in {"d", "i"} THEN Sign(v < 0, f.flags) ELSE <<>>)
                     \o (IF base = 16 /\ "NUM" \in f.flags /\ v # 0 THEN <<"0", f.as>> ELSE <<>>)
             width == f.width
             precision == f.precision
             flags == f.flags
  <1>1. v \in Int /\ Abs(v) \in 0 .. UIntMax
    BY SignedFits
  <1>2. base \in {8, 10, 16} /\ base # 8 /\ base # 16
    OBVIOUS
  <1>3. "UP" \notin flags /\ "UNSIGNED" \notin flags
    BY DEF Asked
  <1>4. f.as # "o" /\ f.as # "x" /\ f.as # "X"
    OBVIOUS
  <1>5. IntegerAsAsked(f) = HeadAndDigits(f, v, base, head)
    <2>1. (CASE f.as \in {"x", "X"} -> 16 [] f.as = "o" -> 8 [] OTHER -> 10) = base
      BY <1>4
    <2> DEFINE b == CASE f.as \in {"x", "X"} -> 16 [] f.as = "o" -> 8 [] OTHER -> 10
    <2>2. b = base
      BY <2>1
    <2> HIDE DEF base
    <2>3. (IF f.as \in {"d", "i"} THEN Signed(f.value, f.cflags) ELSE Unsigned(f.value, f.cflags)) = v
      OBVIOUS
    <2>4. SignAsked(v < 0, f.flags) = Sign(v < 0, f.flags)
      <3> DEFINE negative == v < 0
      <3>1. negative \in BOOLEAN
        OBVIOUS
      <3> HIDE DEF negative
      <3>2. SignAsked(negative, f.flags) = Sign(negative, f.flags)
        BY <3>1, SignIs
      <3> QED
        BY <3>2 DEF negative
    <2> HIDE DEF v, b
    <2> QED
      BY <2>2, <2>3, <2>4, Zenon DEF IntegerAsAsked, HeadAndDigits, b
  <1>6. HeadAndDigits(f, v, base, head)
    <2>1. f.text = FmtInt(v, base, width, precision, flags)
      OBVIOUS
    <2>2. f.width = width /\ f.precision = precision /\ f.flags = flags /\ width \in Int
          /\ precision \in Int /\ precision >= -1
      OBVIOUS
    <2>3. head = (IF f.as \in {"d", "i"} THEN Sign(v < 0, flags) ELSE <<>>)
                 \o (IF base = 16 /\ "NUM" \in flags /\ v # 0 THEN <<"0", f.as>> ELSE <<>>)
      OBVIOUS
    <2> HIDE DEF v, base, head, width, precision, flags
    <2>4. IntegerOf(f, width, precision, flags, v, base, head)
      BY <1>1, <1>2, <1>3, <1>4, <2>1, <2>2, <2>3 DEF IntegerOf
    <2> QED
      BY <2>4, IntegerPrinted
  <1> QED
    BY <1>5, <1>6

LEMMA UnsignedAsAsked ==
  ASSUME NEW f, f.as \in {"X", "x", "o", "u"}, f.value \in Int, NEW fl, fl \subseteq Asked,
         f.flags = fl \cup {"UNSIGNED"} \cup (IF f.as = "X" THEN {"UP"} ELSE {}),
         f.width \in Int, f.precision \in Int, f.precision >= -1,
         f.text = FmtInt(Unsigned(f.value, f.cflags), BaseOf(f.as, 0), f.width, f.precision, f.flags)
  PROVE  IntegerAsAsked(f)
  <1> DEFINE v == Unsigned(f.value, f.cflags)
             base == BaseOf(f.as, 0)
             head == (IF f.as \in {"d", "i"} THEN Sign(v < 0, f.flags) ELSE <<>>)
                     \o (IF base = 16 /\ "NUM" \in f.flags /\ v # 0 THEN <<"0", f.as>> ELSE <<>>)
             width == f.width
             precision == f.precision
             flags == f.flags
  <1>1. v \in Int /\ v >= 0 /\ Abs(v) \in 0 .. UIntMax
    <2>1. UIntMax \in Int
      BY FmtAssumption, PowerInt DEF UIntMax
    <2>2. v \in 0 .. UIntMax
      BY UnsignedFits
    <2> HIDE DEF v
    <2> QED
      BY <2>1, <2>2 DEF Abs
  <1>2. /\ base \in {8, 10, 16} /\ (base = 8 <=> f.as = "o") /\ (base = 16 <=> f.as \in {"x", "X"})
        /\ base = CASE f.as \in {"x", "X"} -> 16 [] f.as = "o" -> 8 [] OTHER -> 10
    BY DEF BaseOf
  <1>3. ("UP" \in flags <=> f.as = "X") /\ "UNSIGNED" \in flags
    BY DEF Asked
  <1>4. f.as # "d" /\ f.as # "i"
    OBVIOUS
  <1>5. IntegerAsAsked(f) = HeadAndDigits(f, v, base, head)
    <2> DEFINE b == CASE f.as \in {"x", "X"} -> 16 [] f.as = "o" -> 8 [] OTHER -> 10
    <2>1. b = base
      BY <1>2
    <2>2. (IF f.as \in {"d", "i"} THEN Signed(f.value, f.cflags) ELSE Unsigned(f.value, f.cflags)) = v
      BY <1>4
    <2>3. SignAsked(v < 0, f.flags) = Sign(v < 0, f.flags)
      <3> DEFINE negative == v < 0
      <3>1. negative \in BOOLEAN
        OBVIOUS
      <3> HIDE DEF negative
      <3>2. SignAsked(negative, f.flags) = Sign(negative, f.flags)
        BY <3>1, SignIs
      <3> QED
        BY <3>2 DEF negative
    <2> HIDE DEF v, b, base
    <2> QED
      BY <2>1, <2>2, <2>3, Zenon DEF IntegerAsAsked, HeadAndDigits, b
  <1>6. HeadAndDigits(f, v, base, head)
    <2>1. f.text = FmtInt(v, base, width, precision, flags)
      OBVIOUS
    <2>2. f.width = width /\ f.precision = precision /\ f.flags = flags /\ width \in Int
          /\ precision \in Int /\ precision >= -1
      OBVIOUS
    <2>3. head = (IF f.as \in {"d", "i"} THEN Sign(v < 0, flags) ELSE <<>>)
                 \o (IF base = 16 /\ "NUM" \in flags /\ v # 0 THEN <<"0", f.as>> ELSE <<>>)
      OBVIOUS
    <2> HIDE DEF v, base, head, width, precision, flags
    <2>4. IntegerOf(f, width, precision, flags, v, base, head)
      BY <1>1, <1>2, <1>3, <1>4, <2>1, <2>2, <2>3 DEF IntegerOf
    <2> QED
      BY <2>4, IntegerPrinted
  <1> QED
    BY <1>5, <1>6

\* The flags of a conversion that is being read.
LEMMA FlagsOf ==
  ASSUME NEW c, ConvOK(c), NEW x, NEW n
  PROVE  /\ [c EXCEPT !.flags = x].flags = x /\ [c EXCEPT !.cflags = x].flags = c.flags
         /\ [c EXCEPT !.width = n].flags = c.flags /\ [c EXCEPT !.precision = n].flags = c.flags
         /\ [c EXCEPT !.flags = x, !.width = n].flags = x
  <1> DEFINE r == [flags |-> c.flags, width |-> c.width, precision |-> c.precision,
                   cflags |-> c.cflags, base |-> 0]
  <1>1. c = r
    BY DEF ConvOK
  <1>2. /\ [r EXCEPT !.flags = x].flags = x /\ [r EXCEPT !.cflags = x].flags = r.flags
        /\ [r EXCEPT !.width = n].flags = r.flags /\ [r EXCEPT !.precision = n].flags = r.flags
        /\ [r EXCEPT !.flags = x, !.width = n].flags = x
    OBVIOUS
  <1> HIDE DEF r
  <1> QED
    BY <1>1, <1>2, Zenon

LEMMA BlankFlags == Blank.flags \subseteq Asked
  BY DEF Blank

LEMMA PartsAsk ==
  ASSUME FlagsInv, StoreInv, Flags \/ Width \/ Dot \/ Precision \/ Mod
  PROVE  FlagsInv'
  <1>1. ConvOK(conv)
    BY DEF StoreInv
  <1>2. conv.flags \subseteq Asked
    BY DEF FlagsInv, Flags, Width, Dot, Precision, Mod
  <1>3. ASSUME NEW c, c.flags \subseteq Asked, NEW next, Read(c, next)
        PROVE  FlagsInv'
    BY <1>3 DEF Read, FlagsInv
  <1>4. ASSUME NEW next, Read(conv, next) PROVE FlagsInv'
    BY <1>2, <1>3, <1>4
  <1>5. CASE Flags
    <2> DEFINE fl == conv.flags \cup {FlagOf[Ch]}
               c == [conv EXCEPT !.flags = fl]
    <2>1. (Ch \in DOMAIN FlagOf /\ Read(c, "flags")) \/ Read(conv, "width")
      BY <1>5 DEF Flags
    <2>2. ASSUME Ch \in DOMAIN FlagOf PROVE fl \subseteq Asked
      BY <1>2, <2>2 DEF FlagOf, Asked
    <2> HIDE DEF fl
    <2>3. c.flags = fl
      BY <1>1, FlagsOf
    <2> HIDE DEF c
    <2> QED
      BY <1>3, <1>4, <2>1, <2>2, <2>3
  <1>6. CASE Width
    <2>1. CASE Ch \in Digit
      <3> DEFINE w == 10 * conv.width + CharToInt(Ch)
                 c == [conv EXCEPT !.width = w]
      <3>1. Read(conv, "out") \/ Read(c, "width")
        <4>1. Ch # "*"
          BY <2>1 DEF Digit
        <4> QED
          BY <1>6, <2>1, <4>1 DEF Width, Overflow
      <3> HIDE DEF w
      <3>2. c.flags = conv.flags
        BY <1>1, FlagsOf
      <3> HIDE DEF c
      <3> QED
        BY <1>2, <1>3, <1>4, <3>1, <3>2
    <2>2. CASE Ch = "*"
      <3> DEFINE w == call.args[arg]
                 fl == conv.flags \cup {"MINUS"}
                 v == Negated(w)
                 c2 == [conv EXCEPT !.flags = fl, !.width = v]
                 c3 == [conv EXCEPT !.width = w]
      <3>1. Read(c2, "dot") \/ Read(c3, "dot")
        <4>1. Ch \notin Digit
          BY <2>2 DEF Digit
        <4>2. Read(IF w < 0 THEN c2 ELSE c3, "dot")
          BY <1>6, <2>2, <4>1 DEF Width
        <4> HIDE DEF w, c2, c3
        <4> QED
          BY <4>2
      <3>2. fl \subseteq Asked
        BY <1>2 DEF Asked
      <3> HIDE DEF w, v, fl
      <3>3. c2.flags = fl /\ c3.flags = conv.flags
        BY <1>1, FlagsOf
      <3> HIDE DEF c2, c3
      <3> QED
        BY <1>2, <1>3, <3>1, <3>2, <3>3
    <2>3. CASE Ch \notin Digit \cup {"*"}
      <3>1. Read(conv, "dot")
        BY <1>6, <2>3 DEF Width
      <3> QED
        BY <1>4, <3>1
    <2> QED
      BY <2>1, <2>2, <2>3
  <1>7. CASE Dot
    <2>1. Read(conv, "precision") \/ Read(conv, "mod")
      BY <1>7 DEF Dot
    <2> QED
      BY <1>4, <2>1
  <1>8. CASE Precision
    <2>1. PICK p, next : Read([conv EXCEPT !.precision = p], next) \/ Read(conv, next)
      <3>1. CASE Ch \in Digit
        <4>1. Ch # "*"
          BY <3>1 DEF Digit
        <4> QED
          BY <1>8, <3>1, <4>1 DEF Precision, Overflow
      <3>2. CASE Ch = "*"
        <4>1. Ch \notin Digit
          BY <3>2 DEF Digit
        <4> QED
          BY <1>8, <3>2, <4>1 DEF Precision
      <3>3. CASE Ch \notin Digit \cup {"*"}
        BY <1>8, <3>3 DEF Precision
      <3> QED
        BY <3>1, <3>2, <3>3
    <2> DEFINE c == [conv EXCEPT !.precision = p]
    <2>2. c.flags = conv.flags
      BY <1>1, FlagsOf
    <2>3. Read(c, next) \/ Read(conv, next)
      BY <2>1
    <2> HIDE DEF c
    <2> QED
      BY <1>2, <1>3, <1>4, <2>2, <2>3
  <1>9. CASE Mod
    <2> DEFINE m == Modifier(Ch, ChAt(pos + 1), conv.cflags)[1]
               c == [conv EXCEPT !.cflags = m]
    <2>1. Read(c, "conv")
      BY <1>9 DEF Mod
    <2> HIDE DEF m
    <2>2. c.flags = conv.flags
      BY <1>1, FlagsOf
    <2> HIDE DEF c
    <2> QED
      BY <1>2, <1>3, <2>1, <2>2
  <1> QED
    BY <1>5, <1>6, <1>7, <1>8, <1>9

LEMMA FlagsStep == FlagsInv /\ StoreInv /\ [Next \/ Stopped]_vars => FlagsInv'
  <1> SUFFICES ASSUME FlagsInv, StoreInv, [Next \/ Stopped]_vars PROVE FlagsInv'
    OBVIOUS
  <1>1. CASE Flags \/ Width \/ Dot \/ Precision \/ Mod
    BY <1>1, PartsAsk
  <1>2. CASE Default
    BY <1>2 DEF Default, FlagsInv
  <1>3. ASSUME NEW c, Converted(c) PROVE FlagsInv'
    BY <1>3, BlankFlags DEF Converted, NextConv, FlagsInv
  <1>4. CASE ConvSigned \/ ConvUnsigned \/ ConvChar \/ ConvString \/ ConvPointer \/ ConvCount \/ ConvOther
    BY <1>3, <1>4 DEF ConvSigned, ConvUnsigned, ConvChar, ConvString, ConvPointer, ConvCount, ConvOther,
                      Convert1
  <1>5. CASE ConvFloat
    <2>1. ASSUME NEW c, Read(c, "out") PROVE FlagsInv'
      BY <2>1 DEF Read, FlagsInv
    <2> QED
      BY <1>3, <1>5, <2>1 DEF ConvFloat, Convert1
  <1>6. CASE EndOfFormat \/ Return \/ GiveUp
    BY <1>6 DEF EndOfFormat, Return, GiveUp, FlagsInv
  <1>7. CASE Allocate
    BY <1>7, BlankFlags DEF Allocate, FlagsInv
  <1>8. CASE UNCHANGED vars
    BY <1>8 DEF vars, FlagsInv
  <1> QED
    BY <1>1, <1>2, <1>4, <1>5, <1>6, <1>7, <1>8 DEF Next, Stopped

----------------------------------------------------------------------------
\* Numbers read back: every step

IntegerLaid(f) == f.as \in {"d", "i", "u", "o", "x", "X"} => IntegerAsAsked(f)

\* The integers printed in the next state, said of that state's fields.
LEMMA LaterIntegers ==
  ASSUME \A k \in DOMAIN out'.fields : IntegerLaid(out'.fields[k])
  PROVE  IntegersAsAsked'
  BY DEF IntegersAsAsked, IntegerLaid

LEMMA IntegersKept ==
  ASSUME IntegersAsAsked, out'.fields = out.fields
  PROVE  IntegersAsAsked'
  <1>1. \A k \in DOMAIN out.fields : IntegerLaid(out.fields[k])
    BY DEF IntegersAsAsked, IntegerLaid
  <1>2. \A k \in DOMAIN out'.fields : IntegerLaid(out'.fields[k])
    BY <1>1, Zenon
  <1> QED
    BY <1>2, LaterIntegers

LEMMA ConvertReadsBack ==
  ASSUME FieldsInv, IntegersAsAsked, NEW text, NEW c, Convert1(text, c), IntegerLaid(FieldOf(c, text))
  PROVE  IntegersAsAsked'
  <1> DEFINE e == FieldOf(c, text)
             s == out.text \o text
             fs == Append(out.fields, e)
             n == Len(out.fields)
  <1>1. out' = [text |-> s, fields |-> fs]
    BY DEF Convert1, FieldOf
  <1>2. IntegerLaid(e)
    OBVIOUS
  <1> HIDE DEF e, s
  <1>3. /\ Len(fs) = n + 1 /\ n \in Nat /\ DOMAIN fs = 1 .. n + 1
        /\ \A i \in 1 .. n : fs[i] = out.fields[i]
        /\ fs[n + 1] = e
        /\ DOMAIN out.fields = 1 .. n
    <2>1. IsSeq(out.fields)
      BY DEF FieldsInv
    <2> QED
      BY <2>1, SeqAppend, SeqSize
  <1> HIDE DEF fs, n
  <1>4. out'.fields = fs
    BY <1>1
  <1>5. \A k \in DOMAIN out.fields : IntegerLaid(out.fields[k])
    BY DEF IntegersAsAsked, IntegerLaid
  <1>6. ASSUME NEW k \in 1 .. n + 1 PROVE IntegerLaid(fs[k])
    <2>1. CASE k = n + 1
      BY <1>2, <1>3, <2>1
    <2>2. CASE k # n + 1
      <3>1. k \in 1 .. n
        BY <1>3, <2>2
      <3> QED
        BY <1>3, <1>5, <3>1
    <2> QED
      BY <2>1, <2>2
  <1>7. \A k \in DOMAIN out'.fields : IntegerLaid(out'.fields[k])
    BY <1>3, <1>4, <1>6, Zenon
  <1> QED
    BY <1>7, LaterIntegers

\* A conversion that prints no integer.
LEMMA NoInteger ==
  ASSUME FieldsInv, IntegersAsAsked, Ch \notin {"d", "i", "u", "o", "x", "X"},
         NEW text, NEW c, Convert1(text, c)
  PROVE  IntegersAsAsked'
  <1> DEFINE f == FieldOf(c, text)
  <1>1. f = FieldOf(c, text)
    OBVIOUS
  <1> HIDE DEF f
  <1>2. f.as = Ch
    BY <1>1, FieldIs
  <1>3. IntegerLaid(f)
    BY <1>2 DEF IntegerLaid
  <1> QED
    BY <1>1, <1>3, ConvertReadsBack

LEMMA SignedReadsBack ==
  ASSUME FieldsInv, StoreInv, FlagsInv, IntegersAsAsked, ConvSigned
  PROVE  IntegersAsAsked'
  <1>1. conv.width \in Int /\ conv.precision \in Int /\ conv.precision >= -1
    BY DEF StoreInv, ConvOK
  <1>2. conv.flags \subseteq Asked
    BY DEF FlagsInv, ConvSigned
  <1> DEFINE v == call.args[arg]
             text == FmtInt(Signed(v, conv.cflags), 10, conv.width, conv.precision, conv.flags)
             f == FieldOf(conv, text)
  <1>3. Ch \in {"d", "i"} /\ v \in Int /\ Convert1(text, conv)
    BY DEF ConvSigned, Given
  <1>4. f = FieldOf(conv, text)
    OBVIOUS
  <1> HIDE DEF f
  <1>5. /\ f.as = Ch /\ f.value = v /\ f.text = text /\ f.width = conv.width
        /\ f.precision = conv.precision /\ f.flags = conv.flags /\ f.cflags = conv.cflags
    BY <1>4, FieldIs
  <1>6. f.text = FmtInt(Signed(f.value, f.cflags), 10, f.width, f.precision, f.flags)
    BY <1>5, Zenon
  <1> HIDE DEF v, text
  <1>7. IntegerAsAsked(f)
    BY <1>1, <1>2, <1>3, <1>5, <1>6, SignedAsAsked
  <1>8. IntegerLaid(f)
    BY <1>7 DEF IntegerLaid
  <1> QED
    BY <1>3, <1>4, <1>8, ConvertReadsBack

LEMMA UnsignedReadsBack ==
  ASSUME FieldsInv, StoreInv, FlagsInv, IntegersAsAsked, ConvUnsigned
  PROVE  IntegersAsAsked'
  <1>1. ConvOK(conv) /\ conv.width \in Int /\ conv.precision \in Int /\ conv.precision >= -1
        /\ conv.base = 0
    BY DEF StoreInv, ConvOK
  <1>2. conv.flags \subseteq Asked
    BY DEF FlagsInv, ConvUnsigned
  <1> DEFINE v == call.args[arg]
             fl == conv.flags \cup {"UNSIGNED"} \cup (IF Ch = "X" THEN {"UP"} ELSE {})
             b == BaseOf(Ch, conv.base)
             c1 == [conv EXCEPT !.flags = fl]
             c == [c1 EXCEPT !.base = b]
             text == FmtInt(Unsigned(v, c.cflags), c.base, c.width, c.precision, c.flags)
             f == FieldOf(c, text)
  <1>3. Convert1(text, c) /\ Ch \in {"X", "x", "o", "u"} /\ v \in Int
    BY DEF ConvUnsigned, Given
  <1>4. b = BaseOf(Ch, 0) /\ fl = conv.flags \cup {"UNSIGNED"} \cup (IF Ch = "X" THEN {"UP"} ELSE {})
    BY <1>1
  <1>5. f = FieldOf(c, text) /\ text = FmtInt(Unsigned(v, c.cflags), c.base, c.width, c.precision, c.flags)
        /\ v = call.args[arg]
    OBVIOUS
  <1> HIDE DEF f, text, b, fl, v
  <1>6. ConvOK(c1) /\ c1.flags = fl
    BY <1>1, ConvFlags, FlagsOf
  <1> HIDE DEF c1
  <1>7. c = [c1 EXCEPT !.base = b]
    OBVIOUS
  <1> HIDE DEF c
  <1>8. c.width \in Int /\ c.precision \in Int /\ c.precision >= -1 /\ c.base = b /\ c.flags = fl
    BY <1>6, <1>7, ConvBase DEF ConvOK
  <1>9. /\ f.as = Ch /\ f.value = v /\ f.text = text /\ f.width = c.width
        /\ f.precision = c.precision /\ f.flags = c.flags /\ f.cflags = c.cflags
    BY <1>5, FieldIs
  <1>10. f.text = FmtInt(Unsigned(f.value, f.cflags), BaseOf(f.as, 0), f.width, f.precision, f.flags)
    BY <1>4, <1>5, <1>8, <1>9, Zenon
  <1>11. f.flags = conv.flags \cup {"UNSIGNED"} \cup (IF f.as = "X" THEN {"UP"} ELSE {})
    BY <1>4, <1>8, <1>9, Zenon
  <1>12. IntegerAsAsked(f)
    <2> DEFINE cf == conv.flags
    <2>1. cf \subseteq Asked /\ f.flags = cf \cup {"UNSIGNED"} \cup (IF f.as = "X" THEN {"UP"} ELSE {})
      BY <1>2, <1>11
    <2>2. f.as \in {"X", "x", "o", "u"} /\ f.value \in Int /\ f.width \in Int /\ f.precision \in Int
          /\ f.precision >= -1
      BY <1>3, <1>8, <1>9
    <2> HIDE DEF cf
    <2> QED
      BY <1>10, <2>1, <2>2, UnsignedAsAsked
  <1>13. IntegerLaid(f)
    BY <1>12 DEF IntegerLaid
  <1> QED
    BY <1>3, <1>5, <1>13, ConvertReadsBack

LEMMA TextsRead ==
  ASSUME FieldsInv, StoreInv, IntegersAsAsked, ConvFloat \/ ConvChar \/ ConvString \/ ConvPointer
  PROVE  IntegersAsAsked'
  <1>1. Ch \notin {"d", "i", "u", "o", "x", "X"}
    BY DEF ConvFloat, ConvChar, ConvString, ConvPointer
  <1>2. ASSUME NEW c, NEW next, Read(c, next) PROVE IntegersAsAsked'
    BY <1>2, IntegersKept DEF Read, Printed
  <1>3. ASSUME NEW text, NEW c, Convert1(text, c) PROVE IntegersAsAsked'
    BY <1>1, <1>3, NoInteger
  <1> QED
    BY <1>2, <1>3 DEF ConvFloat, ConvChar, ConvString, ConvPointer

LEMMA OthersRead ==
  ASSUME StoreInv, IntegersAsAsked,
         \/ Default \/ Flags \/ Width \/ Dot \/ Precision \/ Mod \/ ConvCount \/ ConvOther
         \/ EndOfFormat \/ Return \/ GiveUp
  PROVE  IntegersAsAsked'
  <1>1. out = [text |-> out.text, fields |-> out.fields]
    BY DEF StoreInv, Stored
  <1>2. ASSUME NEW x, out' = [out EXCEPT !.text = x]
        PROVE  out'.fields = out.fields
    BY <1>1, <1>2
  <1>3. CASE Default
    BY <1>2, <1>3, IntegersKept DEF Default
  <1>4. CASE Flags \/ Width \/ Dot \/ Precision \/ Mod
    BY <1>4, IntegersKept DEF Flags, Width, Dot, Precision, Mod, Read, Printed, Overflow
  <1>5. CASE ConvCount \/ ConvOther
    BY <1>2, <1>5, IntegersKept DEF ConvCount, ConvOther
  <1>6. CASE EndOfFormat \/ Return \/ GiveUp
    BY <1>6, IntegersKept DEF EndOfFormat, Return, GiveUp, Printed
  <1> QED
    BY <1>3, <1>4, <1>5, <1>6

LEMMA IntegersStep ==
  FieldsInv /\ StoreInv /\ FlagsInv /\ IntegersAsAsked /\ [Next \/ Stopped]_vars => IntegersAsAsked'
  <1> SUFFICES ASSUME FieldsInv, StoreInv, FlagsInv, IntegersAsAsked, [Next \/ Stopped]_vars
               PROVE  IntegersAsAsked'
    OBVIOUS
  <1>1. CASE Allocate
    <2>1. DOMAIN out'.fields = {}
      BY <1>1, NoneLaid DEF Allocate
    <2> QED
      BY <2>1, LaterIntegers
  <1>2. CASE UNCHANGED vars
    BY <1>2, IntegersKept DEF vars
  <1> QED
    BY <1>1, <1>2, SignedReadsBack, UnsignedReadsBack, TextsRead, OthersRead DEF Next, Stopped

LEMMA IntegersStart == Init => IntegersAsAsked
  BY NoneLaid DEF Init, IntegersAsAsked

LEMMA FlagsStart == Init => FlagsInv
  BY BlankFlags DEF Init, FlagsInv

----------------------------------------------------------------------------
\* Theorems

LEMMA PlaceStart == Init => PlaceOK
  BY VsnprintfAssumption, Ranks DEF Init, PlaceOK

LEMMA PlaceStep == PlaceOK /\ [Next \/ Stopped]_vars => PlaceOK' /\ (Advance \/ UNCHANGED vars)
  <1>1. ASSUME PlaceOK, UNCHANGED vars
        PROVE  PlaceOK'
    BY <1>1 DEF PlaceOK, vars
  <1> QED
    BY <1>1, ReaderMoves, ModMoves, ConversionMoves, EndMoves DEF Next, Stopped

\* The reader stays inside the format.
THEOREM PlaceCorrect == Spec => []PlaceOK
  BY PlaceStart, PlaceStep, PTL DEF Spec

\* Whatever the format, each step of the reader leaves less to be done, so that
\* vsnprintf comes to its end, and asprintf after its second pass.
THEOREM ReaderTerminates == Spec => ReaderAdvances
  <1>1. PlaceOK /\ [Next \/ Stopped]_vars =>
          [Remaining' < Remaining /\ pos' <= Len(call.format) + 1]_vars
    BY PlaceStep DEF Advance
  <1> QED
    BY <1>1, PlaceCorrect, PTL DEF Spec, ReaderAdvances

LEMMA StoreStart == Init => StoreInv
  <1> SUFFICES ASSUME Init PROVE StoreInv
    OBVIOUS
  <1>1. size \in Nat
    <2>1. size \in Sizes \/ size = 0
      BY DEF Init
    <2>2. Sizes \subseteq Nat
      BY VsnprintfAssumption
    <2>3. CASE size \in Sizes
      BY ONLY <2>2, <2>3, Zenon
    <2>4. CASE size = 0
      BY ONLY <2>4
    <2> QED
      BY <2>1, <2>3, <2>4
  <1>2. Stored
    BY <1>1, FreshStores DEF Init
  <1>3. ConvOK(conv)
    BY DEF Init, Blank, ConvOK
  <1> QED
    BY <1>2, <1>3 DEF StoreInv

LEMMA StoreStep == StoreInv /\ [Next \/ Stopped]_vars => StoreInv'
  <1>1. ASSUME StoreInv, UNCHANGED vars
        PROVE  StoreInv'
    BY <1>1 DEF StoreInv, Stored, StoresPrefix, vars
  <1> QED
    BY <1>1, DefaultStores, PartsStore, NumbersStore, TextsStore, EndStores DEF Next, Stopped

\* The invariant of the buffer: what it holds, and that the conversion at hand has
\* numbers for a width and a precision, so that every text has a length.
THEOREM StoreCorrect == Spec => []StoreInv
  BY StoreStart, StoreStep, PTL DEF Spec

\* For any formats, arguments and sizes the buffer holds the first size - 1
\* characters of what was printed and a terminator, and nothing else is stored,
\* in it or behind it (lines 523-528, 874-883).
THEOREM PrefixStored == Spec => []StoresPrefix
  <1>1. StoreInv => StoresPrefix
    BY DEF StoreInv, Stored
  <1> QED
    BY <1>1, StoreCorrect, PTL

LEMMA CountsStart == Init => CountsInv
  BY SeqEmpty DEF Init, CountsInv

\* What asprintf returns is the length of the string, the string is all that was
\* printed, and it fills its block but for the terminator, for any format whose
\* passes come to their end: the second pass goes the way of the first, which
\* measured (lines 821-864, 1436-1447).
THEOREM AsprintfCorrect == Spec => []AsprintfExact
  BY PlaceStart, PlaceStep, StoreStart, StoreStep, PassStart, PassStep, CountsStart, CountsStep,
     ExactFrom, PTL DEF Spec

LEMMA FieldsStart == Init => FieldsInv
  BY NoneLaid DEF Init, FieldsInv

\* Whatever the format, the arguments and the conversions before it, every
\* conversion is at least as wide as asked, but for characters and for integers
\* whose separators are taken off twice, and a string is cut and padded as its
\* flags, width and precision ask (lines 891-922, 943-1007, 1230-1300).
THEOREM WidthsCorrect == Spec => []FieldsLaidOut
  <1>1. FieldsInv => FieldsLaidOut
    BY DEF FieldsInv, LaidOut, FieldsLaidOut
  <1> QED
    BY <1>1, StoreStart, StoreStep, FieldsStart, FieldsStep, PTL DEF Spec

\* Whatever the format, the arguments and the conversions before it, an integer is
\* printed as the value it was made from, cut to the width of its type, in the base
\* and with the sign and prefix asked for: its digits, with their separators, read
\* back as that value, are as many as the precision asks for, and have no more zeros
\* in front than it, the flag 0 or %#o put there (lines 660-835, 925-1007).
THEOREM IntegersCorrect == Spec => []IntegersAsAsked
  BY StoreStart, StoreStep, FieldsStart, FieldsStep, FlagsStart, FlagsStep, IntegersStart, IntegersStep,
     PTL DEF Spec
============================================================================
